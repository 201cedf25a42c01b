-------------------------- MODULE PublishingProofs --------------------------
(***************************************************************************)
(* Legacy uploads and thumbnails, for any number of uploads and viewers,   *)
(* and that they implement ShareFolder.                                    *)
(***************************************************************************)
EXTENDS Publishing, TLAPS

USE DEF request, folder, cache, maker, publishingVars

\* What Show does to a name.
LEMMA ShowAt ==
  ASSUME TypeOK, NEW u \in Uploads, NEW contents, Show(u, contents), NEW d \in Dirs, NEW n \in Names
  PROVE  shown'[d][n] = IF d = target[u] /\ n = name[u] THEN contents ELSE shown[d][n]
  BY DEF Show, TypeOK

\* Every step keeps PublishingInv.
LEMMA NextPublishingInv ==
  ASSUME PublishingInv, [Next]_publishingVars
  PROVE  PublishingInv'
<1> USE PublishingAssumption DEF PublishingInv, Steps, FileSteps, MakeSteps
<1>1. ASSUME NEW u \in Uploads, Join(u)
      PROVE  PublishingInv'
  <2> USE <1>1 DEF Join, Goto
  <2>1. TypeOK'
    BY DEF TypeOK, Contents, Parts, Blank
  <2>2. TempsOwned'
    BY DEF TempsOwned, TypeOK
  <2>3. RenameGuards'
    BY DEF RenameGuards, TypeOK
  <2> QED
    BY <2>1, <2>2, <2>3 DEF ShownWhole, ViewsOpen
<1>2. ASSUME NEW u \in Uploads, OpenTemp(u)
      PROVE  PublishingInv'
  <2> USE <1>2 DEF OpenTemp, Goto
  <2>1. TypeOK'
    BY DEF TypeOK, Contents, Parts, Blank
  <2>2. TempsOwned'
    BY DEF TempsOwned, TypeOK
  <2>3. RenameGuards'
    BY DEF RenameGuards, TypeOK
  <2> QED
    BY <2>1, <2>2, <2>3 DEF ShownWhole, ViewsOpen
<1>3. ASSUME NEW u \in Uploads, OpenTempFails(u)
      PROVE  PublishingInv'
  <2> USE <1>3 DEF OpenTempFails, Goto
  <2>1. TypeOK'
    BY DEF TypeOK, Contents, Parts, Blank
  <2>2. TempsOwned'
    BY DEF TempsOwned, TypeOK
  <2>3. RenameGuards'
    BY DEF RenameGuards, TypeOK
  <2> QED
    BY <2>1, <2>2, <2>3 DEF ShownWhole, ViewsOpen
<1>4. ASSUME NEW u \in Uploads, NEW size \in {"fits", "over"}, Stream(u, size)
      PROVE  PublishingInv'
  <2> USE <1>4 DEF Stream, Accepted, Goto
  <2>1. TypeOK'
    BY DEF TypeOK, Contents, Parts, Blank
  <2>2. ShownWhole'
    BY DEF ShownWhole, TypeOK, Contents
  <2>3. TempsOwned'
    BY DEF TempsOwned, TypeOK
  <2>4. RenameGuards'
    BY DEF RenameGuards, TypeOK
  <2> QED
    BY <2>1, <2>2, <2>3, <2>4 DEF ViewsOpen
<1>5. ASSUME NEW u \in Uploads, StreamFails(u)
      PROVE  PublishingInv'
  <2> USE <1>5 DEF StreamFails, Discarded, Goto
  <2>1. TypeOK'
    BY DEF TypeOK, Contents, Parts, Blank
  <2>2. TempsOwned'
    BY DEF TempsOwned, TypeOK
  <2>3. RenameGuards'
    BY DEF RenameGuards, TypeOK
  <2> QED
    BY <2>1, <2>2, <2>3 DEF ShownWhole, ViewsOpen
<1>6. ASSUME NEW u \in Uploads, Rename(u)
      PROVE  PublishingInv'
  <2> USE <1>6 DEF Rename, CanRename, Show, Goto
  <2>1. TypeOK'
    BY DEF TypeOK, Contents, Parts, Blank
  <2>2. ShownWhole'
    <3> SUFFICES ASSUME NEW d \in Dirs, NEW n \in Names, shown'[d][n] \in Uploads
                 PROVE  shown'[d][n] \in whole
      BY DEF ShownWhole
    <3>1. shown'[d][n] = u \/ shown'[d][n] = shown[d][n]
      BY ShowAt
    <3>2. u \in whole
      BY DEF RenameGuards
    <3> QED
      BY <3>1, <3>2 DEF ShownWhole
  <2>3. TempsOwned'
    BY DEF TempsOwned, TypeOK
  <2>4. RenameGuards'
    BY DEF RenameGuards, TypeOK
  <2> QED
    BY <2>1, <2>2, <2>3, <2>4 DEF ViewsOpen
<1>7. ASSUME NEW u \in Uploads, RenameFails(u)
      PROVE  PublishingInv'
  <2> USE <1>7 DEF RenameFails, CanRename, Goto
  <2>1. TypeOK'
    BY DEF TypeOK, Contents, Parts, Blank
  <2>2. TempsOwned'
    BY DEF TempsOwned, TypeOK
  <2>3. RenameGuards'
    BY DEF RenameGuards, TypeOK
  <2> QED
    BY <2>1, <2>2, <2>3 DEF ShownWhole, ViewsOpen
<1>8. ASSUME NEW u \in Uploads, Displace(u)
      PROVE  PublishingInv'
  <2> USE <1>8 DEF Displace, Show, Goto
  <2>1. TypeOK'
    BY DEF TypeOK, Contents, Parts, Blank
  <2>2. ShownWhole'
    BY DEF ShownWhole, TypeOK, Contents
  <2>3. TempsOwned'
    BY DEF TempsOwned, TypeOK
  <2>4. RenameGuards'
    BY DEF RenameGuards, TypeOK
  <2> QED
    BY <2>1, <2>2, <2>3, <2>4 DEF ViewsOpen
<1>9. ASSUME NEW u \in Uploads, ReplaceFails(u)
      PROVE  PublishingInv'
  <2> USE <1>9 DEF ReplaceFails, Discarded, CanRename, Goto
  <2>1. TypeOK'
    BY DEF TypeOK, Contents, Parts, Blank
  <2>2. TempsOwned'
    BY DEF TempsOwned, TypeOK
  <2>3. RenameGuards'
    BY DEF RenameGuards, TypeOK
  <2> QED
    BY <2>1, <2>2, <2>3 DEF ShownWhole, ViewsOpen
<1>10. ASSUME NEW u \in Uploads, OpenSource(u)
      PROVE  PublishingInv'
  <2> USE <1>10 DEF OpenSource, Picture, Making, Goto
  <2>1. TypeOK'
    BY DEF TypeOK, Contents, Parts, Blank
  <2>2. TempsOwned'
    BY DEF TempsOwned, TypeOK
  <2>3. RenameGuards'
    BY DEF RenameGuards, TypeOK
  <2> QED
    BY <2>1, <2>2, <2>3 DEF ShownWhole, ViewsOpen
<1>11. ASSUME NEW u \in Uploads, NoPicture(u)
      PROVE  PublishingInv'
  <2> USE <1>11 DEF NoPicture, Goto
  <2>1. TypeOK'
    BY DEF TypeOK, Contents, Parts, Blank
  <2>2. TempsOwned'
    BY DEF TempsOwned, TypeOK
  <2>3. RenameGuards'
    BY DEF RenameGuards, TypeOK
  <2> QED
    BY <2>1, <2>2, <2>3 DEF ShownWhole, ViewsOpen
<1>12. ASSUME NEW u \in Uploads, CreateThumb(u)
      PROVE  PublishingInv'
  <2> USE <1>12 DEF CreateThumb, Created, Goto
  <2>1. TypeOK'
    BY DEF TypeOK, Contents, Parts, Blank
  <2>2. TempsOwned'
    BY DEF TempsOwned, TypeOK
  <2>3. RenameGuards'
    BY DEF RenameGuards, TypeOK
  <2> QED
    BY <2>1, <2>2, <2>3 DEF ShownWhole, ViewsOpen
<1>13. ASSUME NEW u \in Uploads, CreateFails(u)
      PROVE  PublishingInv'
  <2> USE <1>13 DEF CreateFails, Goto
  <2>1. TypeOK'
    BY DEF TypeOK, Contents, Parts, Blank
  <2>2. TempsOwned'
    BY DEF TempsOwned, TypeOK
  <2>3. RenameGuards'
    BY DEF RenameGuards, TypeOK
  <2> QED
    BY <2>1, <2>2, <2>3 DEF ShownWhole, ViewsOpen
<1>14. ASSUME NEW u \in Uploads, EncodeHead(u)
      PROVE  PublishingInv'
  <2> USE <1>14 DEF EncodeHead, Goto
  <2>1. TypeOK'
    <3>1. fd[u] \in Uploads /\ source[u] \in Contents \cup {Nothing}
      BY DEF TypeOK
    <3>2. text[fd[u]] \in Parts
      BY <3>1 DEF TypeOK
    <3>3. [text[fd[u]] EXCEPT !.head = source[u]] \in Parts
      BY <3>1, <3>2 DEF Parts
    <3>4. text' \in [Uploads -> Parts]
      BY <3>1, <3>3 DEF TypeOK
    <3> QED
      BY <3>4 DEF TypeOK
  <2>2. TempsOwned'
    BY DEF TempsOwned, TypeOK
  <2>3. RenameGuards'
    BY DEF RenameGuards, TypeOK
  <2> QED
    BY <2>1, <2>2, <2>3 DEF ShownWhole, ViewsOpen
<1>15. ASSUME NEW u \in Uploads, EncodeTail(u)
      PROVE  PublishingInv'
  <2> USE <1>15 DEF EncodeTail, Goto
  <2>1. TypeOK'
    <3>1. fd[u] \in Uploads /\ source[u] \in Contents \cup {Nothing}
      BY DEF TypeOK
    <3>2. text[fd[u]] \in Parts
      BY <3>1 DEF TypeOK
    <3>3. [text[fd[u]] EXCEPT !.tail = source[u]] \in Parts
      BY <3>1, <3>2 DEF Parts
    <3>4. text' \in [Uploads -> Parts]
      BY <3>1, <3>3 DEF TypeOK
    <3> QED
      BY <3>4 DEF TypeOK
  <2>2. TempsOwned'
    BY DEF TempsOwned, TypeOK
  <2>3. RenameGuards'
    BY DEF RenameGuards, TypeOK
  <2> QED
    BY <2>1, <2>2, <2>3 DEF ShownWhole, ViewsOpen
<1>16. ASSUME NEW u \in Uploads, EncodeFails(u)
      PROVE  PublishingInv'
  <2> USE <1>16 DEF EncodeFails, DropThumb, Goto
  <2>1. TypeOK'
    BY DEF TypeOK, Contents, Parts, Blank
  <2>2. TempsOwned'
    BY DEF TempsOwned, TypeOK
  <2>3. RenameGuards'
    BY DEF RenameGuards, TypeOK
  <2> QED
    BY <2>1, <2>2, <2>3 DEF ShownWhole, ViewsOpen
<1>17. ASSUME NEW u \in Uploads, RenameThumb(u)
      PROVE  PublishingInv'
  <2> USE <1>17 DEF RenameThumb, Goto
  <2>1. TypeOK'
    BY DEF TypeOK, Contents, Parts, Blank
  <2>2. TempsOwned'
    BY DEF TempsOwned, TypeOK
  <2>3. RenameGuards'
    BY DEF RenameGuards, TypeOK
  <2> QED
    BY <2>1, <2>2, <2>3 DEF ShownWhole, ViewsOpen
<1>18. ASSUME NEW u \in Uploads, RenameThumbFails(u)
      PROVE  PublishingInv'
  <2> USE <1>18 DEF RenameThumbFails, Goto
  <2>1. TypeOK'
    BY DEF TypeOK, Contents, Parts, Blank
  <2>2. TempsOwned'
    BY DEF TempsOwned, TypeOK
  <2>3. RenameGuards'
    BY DEF RenameGuards, TypeOK
  <2> QED
    BY <2>1, <2>2, <2>3 DEF ShownWhole, ViewsOpen
<1>19. ASSUME NEW u \in Uploads, DisplaceThumb(u)
      PROVE  PublishingInv'
  <2> USE <1>19 DEF DisplaceThumb, Goto
  <2>1. TypeOK'
    BY DEF TypeOK, Contents, Parts, Blank
  <2>2. TempsOwned'
    BY DEF TempsOwned, TypeOK
  <2>3. RenameGuards'
    BY DEF RenameGuards, TypeOK
  <2> QED
    BY <2>1, <2>2, <2>3 DEF ShownWhole, ViewsOpen
<1>20. ASSUME NEW u \in Uploads, ThumbFails(u)
      PROVE  PublishingInv'
  <2> USE <1>20 DEF ThumbFails, DropThumb, Goto
  <2>1. TypeOK'
    BY DEF TypeOK, Contents, Parts, Blank
  <2>2. TempsOwned'
    BY DEF TempsOwned, TypeOK
  <2>3. RenameGuards'
    BY DEF RenameGuards, TypeOK
  <2> QED
    BY <2>1, <2>2, <2>3 DEF ShownWhole, ViewsOpen
<1>21. ASSUME NEW v \in Viewers, NEW n \in Names, OpenView(v, n)
      PROVE  PublishingInv'
  <2> USE <1>21 DEF OpenView, View
  <2>1. TypeOK'
    BY DEF TypeOK, Contents, Parts, Blank
  <2>2. ViewsOpen'
    BY DEF ViewsOpen, TypeOK
  <2> QED
    BY <2>1, <2>2 DEF ShownWhole, TempsOwned, RenameGuards
<1>22. ASSUME NEW v \in Viewers, SendHead(v)
      PROVE  PublishingInv'
  <2> USE <1>22 DEF SendHead, View
  <2>1. TypeOK'
    <3>1. view[v].file \in Uploads
      BY DEF ViewsOpen, TypeOK
    <3>2. [Blank EXCEPT !.head = text[view[v].file].head] \in Parts
      BY <3>1 DEF TypeOK, Parts, Blank
    <3> QED
      BY <3>1, <3>2 DEF TypeOK
  <2>2. ViewsOpen'
    BY DEF ViewsOpen, TypeOK
  <2> QED
    BY <2>1, <2>2 DEF ShownWhole, TempsOwned, RenameGuards
<1>23. ASSUME NEW v \in Viewers, SendTail(v)
      PROVE  PublishingInv'
  <2> USE <1>23 DEF SendTail, View
  <2>1. TypeOK'
    <3>1. view[v].file \in Uploads /\ view[v].seen \in Parts
      BY DEF ViewsOpen, TypeOK
    <3>2. [view[v].seen EXCEPT !.tail = text[view[v].file].tail] \in Parts
      BY <3>1 DEF TypeOK, Parts
    <3> QED
      BY <3>1, <3>2 DEF TypeOK
  <2>2. ViewsOpen'
    BY DEF ViewsOpen, TypeOK
  <2> QED
    BY <2>1, <2>2 DEF ShownWhole, TempsOwned, RenameGuards
<1>24. ASSUME NEW d \in Dirs, SetRoot(d) PROVE PublishingInv'
  BY <1>24 DEF SetRoot, TypeOK, ShownWhole, TempsOwned, RenameGuards, ViewsOpen
<1>25. CASE UNCHANGED publishingVars
  BY <1>25 DEF TypeOK, ShownWhole, TempsOwned, RenameGuards, ViewsOpen
<1> QED
  BY <1>1, <1>2, <1>3, <1>4, <1>5, <1>6, <1>7, <1>8, <1>9, <1>10, <1>11,
     <1>12, <1>13, <1>14, <1>15, <1>16, <1>17, <1>18, <1>19, <1>20, <1>21,
     <1>22, <1>23, <1>24, <1>25
     DEF Next, Upload, Generate, Thumbnail

\* No upload has come yet.
LEMMA InitPublishingInv == Init => PublishingInv
<1> SUFFICES ASSUME Init PROVE PublishingInv
  OBVIOUS
<1>1. TypeOK
  BY DEF Init, TypeOK, Steps, Contents, Parts, Blank
<1>2. ShownWhole /\ TempsOwned /\ RenameGuards /\ ViewsOpen
  BY PublishingAssumption DEF Init, ShownWhole, TempsOwned, RenameGuards, ViewsOpen
<1> QED
  BY <1>1, <1>2 DEF PublishingInv

\* The inductive invariant of Publishing.
THEOREM PublishingInvHolds == Spec => []PublishingInv
  BY InitPublishingInv, NextPublishingInv, PTL DEF Spec

\* Every variable keeps its type, and who writes a thumbnail has a file.
THEOREM PublishingTypes == Spec => []TypeOK
<1>1. PublishingInv => TypeOK
  BY DEF PublishingInv
<1> QED
  BY PublishingInvHolds, <1>1, PTL

\* A name never shows an upload that was cut off (handler.go:882-904).
THEOREM OnlyWholeShown == Spec => []ShownWhole
<1>1. PublishingInv => ShownWhole
  BY DEF PublishingInv
<1> QED
  BY PublishingInvHolds, <1>1, PTL

\* No temporary file outlives its request (handler.go:284-299).
THEOREM NoTempForgotten == Spec => []TempsOwned
<1>1. PublishingInv => TempsOwned
  BY DEF PublishingInv
<1> QED
  BY PublishingInvHolds, <1>1, PTL

\* Only a change of the folder between the two reads of the root, or an
\* os.Rename that fails by itself, loses a file (handler.go:270-295).
THEOREM FilesKept == Spec => FileKept
<1>1. PublishingInv /\ [Next]_publishingVars =>
        [\A d \in Dirs, n \in Names :
           shown[d][n] # Nothing /\ shown'[d][n] = Nothing =>
             \/ "rename" \in Faults
             \/ \E u \in Uploads : pc[u] = "displace" /\ tempDir[u] # target[u]]_publishingVars
  <2> SUFFICES ASSUME PublishingInv, Next, NEW d \in Dirs, NEW n \in Names,
                      shown[d][n] # Nothing, shown'[d][n] = Nothing
               PROVE  \/ "rename" \in Faults
                      \/ \E u \in Uploads : pc[u] = "displace" /\ tempDir[u] # target[u]
    OBVIOUS
  <2>1. shown' # shown
    OBVIOUS
  <2>2. PICK u \in Uploads : Rename(u) \/ Displace(u)
    <3>1. ASSUME NEW u \in Uploads, Upload(u), ~Rename(u), ~Displace(u) PROVE FALSE
      BY <2>1, <3>1 DEF Upload, Join, OpenTemp, OpenTempFails, Stream, StreamFails, RenameFails,
         ReplaceFails
    <3>2. ASSUME NEW u \in Uploads, Generate(u) PROVE FALSE
      BY <2>1, <3>2 DEF Generate, OpenSource, NoPicture, CreateThumb, CreateFails, EncodeHead,
         EncodeTail, EncodeFails, ThumbFails, DropThumb, RenameThumb, RenameThumbFails,
         DisplaceThumb
    <3>3. ASSUME NEW v \in Viewers, Thumbnail(v) PROVE FALSE
      BY <2>1, <3>3 DEF Thumbnail, OpenView, SendHead, SendTail, View
    <3>4. ASSUME NEW e \in Dirs, SetRoot(e) PROVE FALSE
      BY <2>1, <3>4 DEF SetRoot
    <3> QED
      BY <3>1, <3>2, <3>3, <3>4 DEF Next
  <2>3. ~Rename(u)
    <3>1. ASSUME Rename(u) PROVE shown'[d][n] \in {u, shown[d][n]}
      BY <3>1, ShowAt DEF Rename, PublishingInv
    <3> QED
      BY <3>1, PublishingAssumption
  <2> QED
    BY <2>2, <2>3 DEF Displace, PublishingInv, RenameGuards
<1> QED
  BY PublishingInvHolds, <1>1, PTL DEF Spec, FileKept

-----------------------------------------------------------------------------
(* Thumbnails.  Most steps leave them alone; these lemmas say which.       *)

\* An upload on its way to its name.
LEMMA UploadFrame ==
  ASSUME TypeOK, NEW u \in Uploads, Upload(u)
  PROVE  /\ UNCHANGED <<name, cache, maker, view>>
         /\ pc[u] \notin MakeSteps \cup {"open_src", "done"}
         /\ pc'[u] \notin MakeSteps \cup {"done"}
         /\ \A w \in Uploads : w # u => pc'[w] = pc[w]
<1> USE DEF Goto, TypeOK, MakeSteps
<1>1. ASSUME Join(u) \/ OpenTemp(u) \/ OpenTempFails(u)
             \/ (\E size \in {"fits", "over"} : Stream(u, size)) \/ StreamFails(u)
      PROVE  /\ UNCHANGED <<name, cache, maker, view>>
             /\ pc[u] \notin MakeSteps \cup {"open_src", "done"}
             /\ pc'[u] \notin MakeSteps \cup {"done"}
             /\ \A w \in Uploads : w # u => pc'[w] = pc[w]
  BY <1>1 DEF Join, OpenTemp, OpenTempFails, Stream, StreamFails
<1>2. ASSUME Rename(u) \/ RenameFails(u) \/ Displace(u) \/ ReplaceFails(u)
      PROVE  /\ UNCHANGED <<name, cache, maker, view>>
             /\ pc[u] \notin MakeSteps \cup {"open_src", "done"}
             /\ pc'[u] \notin MakeSteps \cup {"done"}
             /\ \A w \in Uploads : w # u => pc'[w] = pc[w]
  BY <1>2 DEF Rename, RenameFails, Displace, ReplaceFails
<1> QED
  BY <1>1, <1>2 DEF Upload

\* Generate reads the folder and leaves it as it is; only its first step
\* reads it.
LEMMA GenerateFrame ==
  ASSUME TypeOK, NEW u \in Uploads, Generate(u)
  PROVE  /\ UNCHANGED <<name, target, shown, view>>
         /\ pc[u] # "done" /\ pc'[u] \in MakeSteps \cup {"done"}
         /\ \A w \in Uploads : w # u => pc'[w] = pc[w]
         /\ \/ OpenSource(u)
            \/ /\ UNCHANGED <<source, overlapped>> /\ unpictured \subseteq unpictured'
               /\ pc[u] \in MakeSteps \/ pc'[u] = "done"
<1> USE DEF Goto, TypeOK, MakeSteps
<1>1. CASE OpenSource(u)
  BY <1>1 DEF OpenSource
<1>2. CASE NoPicture(u) \/ CreateThumb(u) \/ CreateFails(u)
  BY <1>2 DEF NoPicture, CreateThumb, CreateFails
<1>3. CASE EncodeHead(u) \/ EncodeTail(u) \/ EncodeFails(u)
  BY <1>3 DEF EncodeHead, EncodeTail, EncodeFails, DropThumb
<1>4. CASE RenameThumb(u) \/ RenameThumbFails(u) \/ DisplaceThumb(u) \/ ThumbFails(u)
  BY <1>4 DEF RenameThumb, RenameThumbFails, DisplaceThumb, ThumbFails, DropThumb
<1> QED
  BY <1>1, <1>2, <1>3, <1>4 DEF Generate

\* Viewers and settings requests.
LEMMA OtherFrame ==
  ASSUME \/ \E v \in Viewers : Thumbnail(v)
         \/ \E d \in Dirs : SetRoot(d)
         \/ UNCHANGED publishingVars
  PROVE  UNCHANGED <<pc, request, folder, cache, maker>>
  BY DEF Thumbnail, OpenView, SendHead, SendTail, View, SetRoot

\* Whoever starts while others are at it is not alone, nor are they.
LEMMA NextMakersAlone ==
  ASSUME CacheInv, [Next]_publishingVars
  PROVE  MakersAlone'
<1> USE PublishingAssumption DEF CacheInv, PublishingInv
<1>1. ASSUME NEW u \in Uploads, Upload(u) PROVE MakersAlone'
  BY <1>1, UploadFrame DEF MakersAlone, Alone
<1>2. ASSUME NEW u \in Uploads, Generate(u) PROVE MakersAlone'
  <2>1. CASE OpenSource(u)
    <3> SUFFICES ASSUME NEW x \in Alone', NEW w \in Uploads,
                        pc'[x] \in MakeSteps, pc'[w] \in MakeSteps, name'[x] = name'[w]
                 PROVE  x = w
      BY DEF MakersAlone
    <3> USE <2>1 DEF OpenSource, Alone, TypeOK, Goto
    <3>1. CASE x = u \/ w = u
      BY <3>1 DEF Making
    <3>2. CASE x # u /\ w # u
      BY <3>2 DEF MakersAlone
    <3> QED
      BY <3>1, <3>2
  <2>2. CASE ~OpenSource(u)
    BY <1>2, <2>2, GenerateFrame DEF MakersAlone, Alone, MakeSteps
  <2> QED
    BY <2>1, <2>2
<1>3. ASSUME \/ \E v \in Viewers : Thumbnail(v)
             \/ \E d \in Dirs : SetRoot(d)
             \/ UNCHANGED publishingVars
      PROVE  MakersAlone'
  BY <1>3, OtherFrame DEF MakersAlone, Alone
<1> QED
  BY <1>1, <1>2, <1>3 DEF Next

\* A temporary thumbnail goes with the last step of who is to rename it.
LEMMA NextTempsMade ==
  ASSUME CacheInv, [Next]_publishingVars
  PROVE  TempsMade'
<1> USE PublishingAssumption DEF CacheInv, PublishingInv
<1>1. ASSUME NEW u \in Uploads, Upload(u) PROVE TempsMade'
  BY <1>1, UploadFrame DEF TempsMade, Alone, Making
<1>2. ASSUME NEW u \in Uploads, Generate(u) PROVE TempsMade'
  <2> USE DEF TempsMade, Making, Alone, MakeSteps, TypeOK, Goto
  <2>1. CASE OpenSource(u)
    BY <2>1 DEF OpenSource
  <2>2. CASE NoPicture(u) \/ CreateFails(u)
    BY <2>2 DEF NoPicture, CreateFails
  <2>3. CASE CreateThumb(u)
    <3> SUFFICES ASSUME NEW n \in Names
                 PROVE  /\ thumbTmp'[n] # Nothing =>
                             \E w \in Uploads : pc'[w] \in MakeSteps \ {"create"} /\ name'[w] = n
                        /\ thumbTmp'[n] \in Alone' =>
                             pc'[thumbTmp'[n]] \in MakeSteps \ {"create"} /\ name'[thumbTmp'[n]] = n
      BY <2>3 DEF CreateThumb
    <3> USE <2>3 DEF CreateThumb, Created
    <3>1. CASE n = name[u]
      BY <3>1
    <3>2. CASE n # name[u]
      BY <3>2
    <3> QED
      BY <3>1, <3>2
  <2>4. CASE EncodeHead(u) \/ EncodeTail(u) \/ RenameThumbFails(u) \/ DisplaceThumb(u)
    <3>1. /\ UNCHANGED <<name, thumbTmp, overlapped>>
          /\ \A w \in Uploads : pc[w] \in MakeSteps \ {"create"} => pc'[w] \in MakeSteps \ {"create"}
      BY <2>4 DEF EncodeHead, EncodeTail, RenameThumbFails, DisplaceThumb
    <3> HIDE DEF MakeSteps
    <3> QED
      BY <3>1
  <2>5. CASE EncodeFails(u) \/ ThumbFails(u) \/ RenameThumb(u)
    <3>1. /\ thumbTmp' = [thumbTmp EXCEPT ![name[u]] = Nothing] /\ UNCHANGED <<name, overlapped>>
          /\ \A w \in Uploads : w # u => pc'[w] = pc[w]
      BY <2>5 DEF EncodeFails, ThumbFails, DropThumb, RenameThumb
    <3> HIDE DEF MakeSteps
    <3>2. ASSUME NEW n \in Names, n # name[u]
          PROVE  /\ thumbTmp'[n] # Nothing => \E w \in Making(n)' : pc'[w] # "create"
                 /\ thumbTmp'[n] \in Alone' => thumbTmp'[n] \in Making(n)' /\ pc'[thumbTmp'[n]] # "create"
      <4>1. thumbTmp'[n] = thumbTmp[n] /\ Making(n) \ {u} = Making(n)' \ {u} /\ u \notin Making(n)
        BY <3>1, <3>2
      <4>2. \A w \in Making(n) : w \in Making(n)' /\ pc'[w] = pc[w]
        BY <3>1, <4>1
      <4>3. /\ thumbTmp[n] # Nothing => \E w \in Making(n) : pc[w] # "create"
            /\ thumbTmp[n] \in Alone => thumbTmp[n] \in Making(n) /\ pc[thumbTmp[n]] # "create"
        OBVIOUS
      <4>4. Alone' = Alone
        BY <3>1
      <4> HIDE DEF Making, Alone, TempsMade
      <4>5. ASSUME thumbTmp'[n] # Nothing PROVE \E w \in Making(n)' : pc'[w] # "create"
        BY <4>1, <4>2, <4>3, <4>5
      <4>6. ASSUME thumbTmp'[n] \in Alone'
            PROVE  thumbTmp'[n] \in Making(n)' /\ pc'[thumbTmp'[n]] # "create"
        BY <4>1, <4>2, <4>3, <4>4, <4>6
      <4> QED
        BY <4>5, <4>6
    <3>3. thumbTmp'[name[u]] = Nothing
      BY <3>1
    <3> QED
      BY <3>2, <3>3
  <2> QED
    BY <1>2, <2>1, <2>2, <2>3, <2>4, <2>5 DEF Generate
<1>3. ASSUME \/ \E v \in Viewers : Thumbnail(v)
             \/ \E d \in Dirs : SetRoot(d)
             \/ UNCHANGED publishingVars
      PROVE  TempsMade'
  BY <1>3, OtherFrame DEF TempsMade, Alone, Making
<1> QED
  BY <1>1, <1>2, <1>3 DEF Next

\* Nobody else writes to the file of a maker who is alone.
LEMMA NextMakersWrite ==
  ASSUME CacheInv, [Next]_publishingVars
  PROVE  MakersWrite'
<1> USE PublishingAssumption DEF CacheInv, PublishingInv
<1>1. ASSUME NEW u \in Uploads, Upload(u) PROVE MakersWrite'
  <2>1. UNCHANGED <<name, cache, maker>>
        /\ \A w \in Uploads : pc'[w] \in MakeSteps => pc'[w] = pc[w]
    BY <1>1, UploadFrame
  <2> QED
    BY <2>1 DEF MakersWrite, Alone, MakeSteps
<1>2. ASSUME NEW u \in Uploads, Generate(u) PROVE MakersWrite'
  <2> USE DEF MakersWrite, Alone, MakeSteps, TypeOK, Goto
  <2>1. CASE OpenSource(u)
    BY <2>1 DEF OpenSource, Picture
  <2>2. CASE NoPicture(u) \/ CreateFails(u)
    BY <2>2 DEF NoPicture, CreateFails
  <2>3. CASE CreateThumb(u)
    <3> USE <2>3 DEF CreateThumb, Created
    <3>1. Created(u) \in overlapped \cup {u} /\ (u \in Alone => thumbTmp[name[u]] = Nothing)
      BY DEF TempsMade, Making, MakersAlone
    <3>2. ASSUME NEW x \in Alone, x # u, pc[x] \in MakeSteps \ {"create"}
          PROVE  Created(u) # x /\ name[x] # name[u]
      BY <3>1, <3>2 DEF MakersAlone
    <3>3. ASSUME NEW x \in Uploads, x # u
          PROVE  /\ pc'[x] \in MakeSteps => source'[x] \in Contents
                 /\ pc'[x] \in {"head", "tail"} => fd'[x] \in overlapped' \cup {x}
                 /\ x \in Alone' =>
                      /\ pc'[x] \in MakeSteps \ {"create"} => fd'[x] = x /\ thumbTmp'[name'[x]] = x
                      /\ pc'[x] = "tail" => text'[x].head = source'[x]
                      /\ pc'[x] \in {"thumb_rename", "thumb_displace", "thumb_again"} =>
                           text'[x] = Even(source[x])'
      BY <3>2, <3>3 DEF Even
    <3>4. /\ source'[u] \in Contents /\ fd'[u] \in overlapped' \cup {u} /\ pc'[u] = "head"
          /\ u \in Alone' => fd'[u] = u /\ thumbTmp'[name'[u]] = u
      BY <3>1
    <3> QED
      BY <3>3, <3>4
  <2>4. CASE EncodeHead(u)
    <3> USE <2>4 DEF EncodeHead
    <3>1. ASSUME NEW x \in Alone, x # u PROVE text'[x] = text[x]
      BY <3>1
    <3>2. u \in Alone => text'[u].head = source[u]
      BY DEF Parts
    <3> QED
      BY <3>1, <3>2 DEF Even
  <2>5. CASE EncodeTail(u)
    <3> USE <2>5 DEF EncodeTail
    <3>1. ASSUME NEW x \in Alone, x # u PROVE text'[x] = text[x]
      BY <3>1
    <3>2. u \in Alone => text'[u] = Even(source[u])
      BY DEF Parts, Even
    <3> QED
      BY <3>1, <3>2 DEF Even
  <2>6. CASE RenameThumbFails(u) \/ DisplaceThumb(u)
    BY <2>6 DEF RenameThumbFails, DisplaceThumb, Even
  <2>7. CASE EncodeFails(u) \/ ThumbFails(u) \/ RenameThumb(u)
    <3>1. /\ thumbTmp' = [thumbTmp EXCEPT ![name[u]] = Nothing]
          /\ UNCHANGED <<name, text, fd, source, overlapped>>
          /\ pc[u] \in MakeSteps /\ pc' = [pc EXCEPT ![u] = "done"]
      BY <2>7 DEF EncodeFails, ThumbFails, DropThumb, RenameThumb
    <3> QED
      BY <3>1 DEF MakersAlone, Even
  <2> QED
    BY <1>2, <2>1, <2>2, <2>3, <2>4, <2>5, <2>6, <2>7 DEF Generate
<1>3. ASSUME \/ \E v \in Viewers : Thumbnail(v)
             \/ \E d \in Dirs : SetRoot(d)
             \/ UNCHANGED publishingVars
      PROVE  MakersWrite'
  BY <1>3, OtherFrame DEF MakersWrite, Alone
<1> QED
  BY <1>1, <1>2, <1>3 DEF Next

\* A finished thumbnail stays as it is.
LEMMA FinishedStays ==
  ASSUME CacheInv, [Next]_publishingVars, NEW x \in Alone, x \in Alone', Finished(x)
  PROVE  Finished(x)' /\ text'[x] = text[x]
<1> USE PublishingAssumption DEF CacheInv, PublishingInv
<1>1. ASSUME NEW u \in Uploads, Upload(u) PROVE pc'[x] = pc[x] /\ text'[x] = text[x]
  BY <1>1, UploadFrame DEF Finished, Alone
<1>2. ASSUME NEW u \in Uploads, Generate(u) PROVE pc'[x] = pc[x] /\ text'[x] = text[x]
  <2>1. x # u /\ pc'[x] = pc[x]
    BY <1>2, GenerateFrame DEF Finished, Alone
  <2>2. CASE CreateThumb(u)
    <3>1. Created(u) # x
      <4>1. name[u] \in Names /\ x \notin Making(name[u])
        BY DEF TypeOK, Finished, Making, MakeSteps
      <4> QED
        BY <2>1, <4>1 DEF Created, TempsMade
    <3> QED
      BY <2>1, <2>2, <3>1 DEF CreateThumb, TypeOK
  <2>3. CASE EncodeHead(u) \/ EncodeTail(u)
    <3>1. fd[u] # x
      BY <2>1, <2>3 DEF EncodeHead, EncodeTail, MakersWrite, Alone
    <3> QED
      BY <2>1, <2>3, <3>1 DEF EncodeHead, EncodeTail, TypeOK, Alone
  <2>4. CASE ~CreateThumb(u) /\ ~EncodeHead(u) /\ ~EncodeTail(u)
    BY <1>2, <2>1, <2>4 DEF Generate, OpenSource, NoPicture, CreateFails, EncodeFails, DropThumb,
       RenameThumb, RenameThumbFails, DisplaceThumb, ThumbFails
  <2> QED
    BY <2>2, <2>3, <2>4
<1>3. ASSUME \/ \E v \in Viewers : Thumbnail(v)
             \/ \E d \in Dirs : SetRoot(d)
             \/ UNCHANGED publishingVars
      PROVE  pc'[x] = pc[x] /\ text'[x] = text[x]
  BY <1>3, OtherFrame
<1>4. pc'[x] = pc[x] /\ text'[x] = text[x]
  BY <1>1, <1>2, <1>3 DEF Next
<1> QED
  BY <1>4 DEF Finished, Even

\* Who is alone after a step was alone before.
LEMMA AloneBefore ==
  ASSUME TypeOK, [Next]_publishingVars
  PROVE  Alone' \subseteq Alone
<1>1. ASSUME NEW u \in Uploads, Generate(u) PROVE overlapped \subseteq overlapped'
  BY <1>1, GenerateFrame DEF OpenSource
<1> QED
  BY <1>1, UploadFrame, OtherFrame DEF Next, Alone

\* A maker who is alone renames its own file, finished.
LEMMA RenamesOwn ==
  ASSUME CacheInv, NEW u \in Uploads, RenameThumb(u), thumbTmp[name[u]] \in Alone
  PROVE  /\ thumbTmp[name[u]] = u /\ u \in Alone
         /\ source[u] \in Contents /\ text[u] = Even(source[u])
<1> USE DEF CacheInv, PublishingInv, RenameThumb
<1>1. thumbTmp[name[u]] = u
  BY DEF TempsMade, Making, MakersAlone, MakeSteps, TypeOK, Alone
<1> QED
  BY <1>1 DEF MakersWrite, MakeSteps


\* What gets a name in the cache, or is being sent, is finished.
LEMMA NextCacheWhole ==
  ASSUME CacheInv, [Next]_publishingVars
  PROVE  CacheWhole'
<1> USE PublishingAssumption DEF CacheInv, PublishingInv
<1>1. ASSUME NEW u \in Uploads, Upload(u) PROVE CacheWhole'
  <2>1. UNCHANGED <<cache, view>>
    BY <1>1, UploadFrame
  <2> QED
    BY <2>1, FinishedStays, AloneBefore DEF CacheWhole
<1>2. ASSUME NEW u \in Uploads, Generate(u) PROVE CacheWhole'
  <2>0. UNCHANGED view
    BY <1>2, GenerateFrame
  <2>1. ASSUME NEW n \in Names, thumb'[n] \in Alone' PROVE Finished(thumb[n])'
    <3>1. CASE thumb'[n] = thumb[n]
      BY <2>1, <3>1, FinishedStays, AloneBefore DEF CacheWhole
    <3>2. CASE thumb'[n] # thumb[n]
      <4>1. thumb'[n] # Nothing
        BY <2>1 DEF Alone
      <4>2. RenameThumb(u) /\ n = name[u] /\ thumb'[n] = thumbTmp[n]
        BY <1>2, <3>2, <4>1 DEF Generate, OpenSource, NoPicture, CreateThumb, CreateFails, EncodeHead,
           EncodeTail, EncodeFails, DropThumb, RenameThumb, RenameThumbFails, DisplaceThumb, ThumbFails, TypeOK
      <4>3. thumbTmp[name[u]] \in Alone
        BY <2>1, <4>2, AloneBefore
      <4>4. thumb'[n] = u /\ text[u] = Even(source[u]) /\ source[u] \in Contents
        BY <4>2, <4>3, RenamesOwn
      <4> QED
        BY <4>2, <4>4 DEF RenameThumb, Finished, Goto, TypeOK, Even
    <3> QED
      BY <3>1, <3>2
  <2>2. \A v \in Viewers : view'[v].file \in Alone' =>
          /\ Finished(view[v].file)'
          /\ view'[v].step = "tail" => view'[v].seen.head = text'[view'[v].file].head
    BY <2>0, FinishedStays, AloneBefore DEF CacheWhole
  <2> QED
    BY <2>1, <2>2 DEF CacheWhole
<1>3. ASSUME \/ \E v \in Viewers : Thumbnail(v)
             \/ \E d \in Dirs : SetRoot(d)
             \/ UNCHANGED publishingVars
      PROVE  CacheWhole'
  <2>0. UNCHANGED <<pc, text, thumb, overlapped>>
    BY <1>3, OtherFrame
  <2>1. \A x : Finished(x)' <=> Finished(x)
    BY <2>0 DEF Finished, Even
  <2>2. ASSUME NEW v \in Viewers, Thumbnail(v) PROVE CacheWhole'
    <3>1. ASSUME NEW n \in Names, OpenView(v, n) PROVE CacheWhole'
      BY <2>0, <2>1, <3>1 DEF OpenView, View, CacheWhole, Alone, TypeOK
    <3>2. ASSUME SendHead(v) PROVE CacheWhole'
      BY <2>0, <2>1, <3>2 DEF SendHead, View, CacheWhole, Alone, TypeOK, Blank
    <3>3. ASSUME SendTail(v) PROVE CacheWhole'
      BY <2>0, <2>1, <3>3 DEF SendTail, View, CacheWhole, Alone, TypeOK
    <3> QED
      BY <2>2, <3>1, <3>2, <3>3 DEF Thumbnail
  <2>3. ASSUME UNCHANGED view PROVE CacheWhole'
    BY <2>0, <2>1, <2>3 DEF CacheWhole, Alone
  <2> QED
    BY <1>3, <2>2, <2>3 DEF SetRoot
<1> QED
  BY <1>1, <1>2, <1>3 DEF Next

\* The two pieces that are sent of a finished thumbnail belong together.
LEMMA NextSentWhole ==
  ASSUME CacheInv, [Next]_publishingVars
  PROVE  SentWhole'
<1> USE PublishingAssumption DEF CacheInv, PublishingInv
<1>1. ASSUME NEW u \in Uploads, Upload(u) PROVE SentWhole'
  <2>1. UNCHANGED view
    BY <1>1, UploadFrame
  <2> QED
    BY <2>1, AloneBefore DEF SentWhole, Alone, TypeOK
<1>2. ASSUME NEW u \in Uploads, Generate(u) PROVE SentWhole'
  <2>1. UNCHANGED view
    BY <1>2, GenerateFrame
  <2> QED
    BY <2>1, AloneBefore DEF SentWhole, Alone, TypeOK
<1>3. ASSUME \/ \E v \in Viewers : Thumbnail(v)
             \/ \E d \in Dirs : SetRoot(d)
             \/ UNCHANGED publishingVars
      PROVE  SentWhole'
  <2>0. UNCHANGED overlapped
    BY <1>3, OtherFrame
  <2>1. ASSUME NEW v \in Viewers, Thumbnail(v) PROVE SentWhole'
    <3>1. ASSUME NEW n \in Names, OpenView(v, n) PROVE SentWhole'
      BY <2>0, <3>1 DEF OpenView, View, SentWhole, TypeOK
    <3>2. ASSUME SendHead(v) PROVE SentWhole'
      BY <2>0, <3>2 DEF SendHead, View, SentWhole, TypeOK
    <3>3. ASSUME SendTail(v) PROVE SentWhole'
      <4> DEFINE file == view[v].file
      <4>1. ASSUME file \in Alone
            PROVE  \E s \in Contents : view'[v].seen = Even(s)
        <5>1. PICK s \in Contents : text[file] = Even(s)
          BY <3>3, <4>1 DEF SendTail, CacheWhole, Finished
        <5>2. view[v].seen.head = s /\ view[v].seen \in Parts
          BY <3>3, <4>1, <5>1 DEF SendTail, CacheWhole, TypeOK, Even
        <5>3. [view[v].seen EXCEPT !.tail = s] = Even(s)
          BY <5>2 DEF Parts, Even
        <5> QED
          BY <3>3, <5>1, <5>3 DEF SendTail, View, TypeOK, Even
      <4>2. \A s \in Contents : Even(s).head = Even(s).tail /\ Even(s) # Blank
        BY DEF Even, Blank, Contents
      <4>3. view'[v].file = file /\ \A w \in Viewers : w # v => view'[w] = view[w]
        BY <3>3 DEF SendTail, View, TypeOK
      <4>4. file \in Uploads \cup {Nothing}
        BY DEF TypeOK
      <4> QED
        BY <2>0, <4>1, <4>2, <4>3, <4>4 DEF SentWhole, Alone
    <3> QED
      BY <2>1, <3>1, <3>2, <3>3 DEF Thumbnail
  <2>2. ASSUME UNCHANGED view PROVE SentWhole'
    BY <2>0, <2>2 DEF SentWhole
  <2> QED
    BY <1>3, <2>1, <2>2 DEF SetRoot
<1> QED
  BY <1>1, <1>2, <1>3 DEF Next

\* A file that is replaced is looked at again before the thumbnail can be
\* taken for its picture.
LEMMA NextPicturesFollow ==
  ASSUME CacheInv, [Next]_publishingVars
  PROVE  PicturesFollow'
<1> USE PublishingAssumption DEF CacheInv, PublishingInv
<1>1. ASSUME NEW u \in Uploads, Upload(u) PROVE PicturesFollow'
  <2>1. /\ UNCHANGED <<name, cache, maker>>
        /\ pc[u] \notin MakeSteps \cup {"open_src", "done"} /\ pc'[u] \notin MakeSteps
        /\ \A w \in Uploads : w # u => pc'[w] = pc[w]
    BY <1>1, UploadFrame
  <2>2. \A w \in Uploads : w # u => target'[w] = target[w]
    BY <1>1 DEF Upload, Join, OpenTemp, OpenTempFails, Stream, StreamFails, Rename, RenameFails,
       Displace, ReplaceFails, TypeOK
  <2>3. ASSUME NEW d \in Dirs, NEW n \in Names
        PROVE  shown'[d][n] \in {Nothing, shown[d][n]} \/ Awaited(d, n)'
    <3>1. CASE Rename(u)
      <4>1. pc'[u] = "open_src" /\ target' = target /\ name' = name
        BY <3>1 DEF Rename, Goto, TypeOK
      <4>2. shown'[d][n] = IF d = target[u] /\ n = name[u] THEN u ELSE shown[d][n]
        BY <3>1, ShowAt DEF Rename
      <4> QED
        BY <4>1, <4>2 DEF Awaited
    <3>2. CASE Displace(u)
      BY <3>2, ShowAt DEF Displace
    <3>3. CASE UNCHANGED shown
      BY <3>3
    <3> QED
      BY <1>1, <3>1, <3>2, <3>3 DEF Upload, Join, OpenTemp, OpenTempFails, Stream, StreamFails,
         RenameFails, ReplaceFails
  <2>4. \A d, n : Awaited(d, n) => Awaited(d, n)'
    BY <2>1, <2>2 DEF Awaited
  <2>5. ASSUME NEW x \in Alone', pc'[x] \in MakeSteps
        PROVE  \/ Picture(x)' \in unpictured' \cup {Nothing, source'[x]}
               \/ Awaited(target[x], name[x])'
    <3>1. x # u /\ x \in Alone /\ pc[x] \in MakeSteps
      BY <2>1, <2>5 DEF Alone
    <3>2. /\ target'[x] = target[x] /\ name'[x] = name[x]
          /\ target[x] \in Dirs /\ name[x] \in Names
      BY <2>1, <2>2, <3>1 DEF TypeOK, Alone
    <3> QED
      BY <2>1, <2>3, <2>4, <3>1, <3>2 DEF PicturesFollow, Picture
  <2>6. ASSUME NEW n \in Names, thumb'[n] \in Alone'
        PROVE  LET file == thumb'[n]  now == shown'[target'[file]][n] IN
                 \/ now \in unpictured' \cup {Nothing} \/ text'[file] = Even(now)
                 \/ Awaited(target[thumb[n]], n)'
                 \/ \E w \in Making(n)' : target'[w] = target'[file] /\ source'[w] = now
    <3>1. thumb[n] \in Alone /\ thumb[n] # u /\ thumb[n] \in Uploads
      BY <2>1, <2>6 DEF Alone, CacheWhole, Finished
    <3>2. target'[thumb[n]] = target[thumb[n]] /\ target[thumb[n]] \in Dirs
      BY <2>2, <3>1 DEF TypeOK
    <3>3. \A w \in Making(n) : w \in Making(n)' /\ target'[w] = target[w]
      BY <2>1, <2>2 DEF Making
    <3> QED
      BY <2>1, <2>3, <2>4, <3>1, <3>2, <3>3 DEF PicturesFollow
  <2> QED
    BY <2>5, <2>6 DEF PicturesFollow, Even
<1>2. ASSUME NEW u \in Uploads, Generate(u) PROVE PicturesFollow'
  <2>1. /\ UNCHANGED <<name, target, shown>> /\ unpictured \subseteq unpictured'
        /\ \A w \in Uploads : w # u => pc'[w] = pc[w] /\ source'[w] = source[w]
        /\ ~OpenSource(u) => source' = source /\ (pc[u] \in MakeSteps \/ pc'[u] = "done")
    <3>1. CASE OpenSource(u)
      BY <1>2, <3>1, GenerateFrame DEF OpenSource, TypeOK
    <3>2. CASE ~OpenSource(u)
      BY <1>2, <3>2, GenerateFrame
    <3> QED
      BY <3>1, <3>2
  <2>2. OpenSource(u) => pc'[u] \in MakeSteps /\ source'[u] = Picture(u)
    BY DEF OpenSource, Goto, MakeSteps, TypeOK
  <2>3. ASSUME NEW d \in Dirs, NEW n \in Names, Awaited(d, n)
        PROVE  \/ Awaited(d, n)' \/ shown[d][n] \in unpictured'
               \/ OpenSource(u) /\ target[u] = d /\ name[u] = n
    <3>1. PICK w \in Uploads : pc[w] = "open_src" /\ target[w] = d /\ name[w] = n
      BY <2>3 DEF Awaited
    <3>2. CASE w # u
      BY <2>1, <3>1, <3>2 DEF Awaited
    <3>3. CASE w = u
      <4>1. OpenSource(u) \/ NoPicture(u)
        BY <1>2, <3>1, <3>3 DEF Generate, CreateThumb, CreateFails, EncodeHead, EncodeTail, EncodeFails,
           RenameThumb, RenameThumbFails, DisplaceThumb, ThumbFails
      <4> QED
        BY <3>1, <3>3, <4>1 DEF NoPicture
    <3> QED
      BY <3>2, <3>3
  <2>4. ASSUME NEW x \in Alone', pc'[x] \in MakeSteps
        PROVE  \/ Picture(x)' \in unpictured' \cup {Nothing, source'[x]}
               \/ Awaited(target[x], name[x])'
    <3>0. x \in Alone /\ target[x] \in Dirs /\ name[x] \in Names /\ Picture(x)' = Picture(x)
      BY <2>1, <2>4, AloneBefore DEF Alone, TypeOK, Picture
    <3>1. CASE x = u /\ OpenSource(u)
      BY <2>2, <3>0, <3>1
    <3>2. CASE ~(x = u /\ OpenSource(u))
      <4>1. pc[x] \in MakeSteps /\ source'[x] = source[x]
        BY <2>1, <2>4, <3>0, <3>2 DEF MakeSteps, Alone
      <4>2. ~(OpenSource(u) /\ target[u] = target[x] /\ name[u] = name[x])
        BY <2>4, <3>0, <4>1 DEF OpenSource, Making, Alone
      <4>3. \/ Picture(x) \in unpictured \cup {Nothing, source[x]}
            \/ Awaited(target[x], name[x])
        BY <3>0, <4>1 DEF PicturesFollow
      <4> QED
        BY <2>1, <2>3, <3>0, <4>1, <4>2, <4>3 DEF Picture
    <3> QED
      BY <3>1, <3>2
  <2>5. ASSUME NEW n \in Names, thumb'[n] \in Alone'
        PROVE  LET file == thumb'[n]  now == shown'[target'[file]][n] IN
                 \/ now \in unpictured' \cup {Nothing} \/ text'[file] = Even(now)
                 \/ Awaited(target[thumb[n]], n)'
                 \/ \E w \in Making(n)' : target'[w] = target'[file] /\ source'[w] = now
    <3>0. thumb'[n] \in Alone /\ thumb'[n] \in Uploads /\ target[thumb'[n]] \in Dirs
      BY <2>5, AloneBefore DEF Alone, TypeOK
    <3>1. CASE RenameThumb(u) /\ n = name[u]
      <4>1. thumb'[n] = thumbTmp[n] /\ text' = text
        BY <3>1 DEF RenameThumb, TypeOK
      <4>2. thumb'[n] = u /\ text[u] = Even(source[u]) /\ u \in Alone /\ pc[u] \in MakeSteps
        BY <3>0, <3>1, <4>1, RenamesOwn DEF RenameThumb, MakeSteps
      <4>3. \/ Picture(u) \in unpictured \cup {Nothing, source[u]}
            \/ Awaited(target[u], name[u])
        BY <4>2 DEF PicturesFollow
      <4>4. ~OpenSource(u)
        BY <4>2 DEF OpenSource, MakeSteps
      <4>5. shown[target[u]][n] = Picture(u)
        BY <3>1 DEF Picture
      <4> QED
        BY <2>1, <2>3, <3>0, <3>1, <4>1, <4>2, <4>3, <4>4, <4>5
    <3>2. CASE ~(RenameThumb(u) /\ n = name[u])
      <4> DEFINE file == thumb[n]  now == shown[target[file]][n]
      <4>1. thumb'[n] = file
        <5>1. thumb'[n] # Nothing
          BY <2>5 DEF Alone
        <5> QED
          BY <1>2, <3>2, <5>1 DEF Generate, OpenSource, NoPicture, CreateThumb, CreateFails, EncodeHead,
             EncodeTail, EncodeFails, DropThumb, RenameThumb, RenameThumbFails, DisplaceThumb,
             ThumbFails, TypeOK
      <4>2. text'[file] = text[file]
        BY <2>5, <3>0, <4>1, FinishedStays DEF CacheWhole
      <4>3. \/ now \in unpictured \cup {Nothing} \/ text[file] = Even(now)
            \/ Awaited(target[file], n)
            \/ \E w \in Making(n) : target[w] = target[file] /\ source[w] = now
        BY <3>0, <4>1 DEF PicturesFollow
      <4>4. CASE Awaited(target[file], n)
        <5>1. OpenSource(u) /\ target[u] = target[file] /\ name[u] = n
                => u \in Making(n)' /\ source'[u] = now
          BY <2>1, <2>2 DEF Making, Picture
        <5> QED
          BY <2>1, <2>3, <3>0, <4>1, <4>4, <5>1
      <4>5. ASSUME NEW w \in Making(n), target[w] = target[file], source[w] = now
            PROVE  now \in unpictured' \/ (w \in Making(n)' /\ source'[w] = now)
        <5>1. CASE w # u
          BY <2>1, <4>5, <5>1 DEF Making
        <5>2. CASE w = u /\ pc'[u] \in MakeSteps
          BY <2>1, <4>5, <5>2 DEF Making, OpenSource, MakeSteps
        <5>3. CASE w = u /\ pc'[u] \notin MakeSteps
          <6>1. name[u] = n /\ pc[u] \in MakeSteps
            BY <5>3 DEF Making
          <6>2. CreateFails(u) \/ EncodeFails(u) \/ ThumbFails(u)
            BY <1>2, <3>2, <5>3, <6>1 DEF Generate, OpenSource, NoPicture, CreateThumb, EncodeHead,
               EncodeTail, RenameThumbFails, DisplaceThumb, Goto, MakeSteps, TypeOK
          <6> QED
            BY <4>5, <5>3, <6>2 DEF CreateFails, EncodeFails, ThumbFails, DropThumb
        <5> QED
          BY <5>1, <5>2, <5>3
      <4> QED
        BY <2>1, <4>1, <4>2, <4>3, <4>4, <4>5
    <3> QED
      BY <3>1, <3>2
  <2> QED
    BY <2>4, <2>5 DEF PicturesFollow, Even
<1>3. ASSUME \/ \E v \in Viewers : Thumbnail(v)
             \/ \E d \in Dirs : SetRoot(d)
             \/ UNCHANGED publishingVars
      PROVE  PicturesFollow'
  <2>1. UNCHANGED <<pc, request, folder, cache, maker>>
    BY <1>3, OtherFrame
  <2> QED
    BY <2>1 DEF PicturesFollow, Awaited, Alone, Picture, Making, Even
<1> QED
  BY <1>1, <1>2, <1>3 DEF Next

\* The cache is empty at first.
LEMMA InitCacheInv == Init => CacheInv
<1> SUFFICES ASSUME Init PROVE CacheInv
  OBVIOUS
<1>1. PublishingInv
  BY InitPublishingInv
<1>2. MakersAlone /\ TempsMade /\ MakersWrite
  BY PublishingAssumption DEF Init, MakersAlone, TempsMade, MakersWrite, MakeSteps, Alone
<1>3. CacheWhole /\ SentWhole
  BY PublishingAssumption DEF Init, CacheWhole, SentWhole, Alone
<1>4. PicturesFollow
  BY PublishingAssumption DEF Init, PicturesFollow, Alone, MakeSteps
<1> QED
  BY <1>1, <1>2, <1>3, <1>4 DEF CacheInv

\* The invariant of the cache of thumbnails.
THEOREM CacheInvHolds == Spec => []CacheInv
<1>1. CacheInv /\ [Next]_publishingVars => CacheInv'
  BY NextPublishingInv, NextMakersAlone, NextTempsMade, NextMakersWrite, NextCacheWhole,
     NextSentWhole, NextPicturesFollow DEF CacheInv
<1> QED
  BY InitCacheInv, <1>1, PTL DEF Spec

\* A thumbnail that was made alone is sent in one piece, although its
\* temporary file has a name that others use (thumb.go:40, handler.go:220).
THEOREM ThumbsSentWhole == Spec => []SentWhole
<1>1. CacheInv => SentWhole
  BY DEF CacheInv
<1> QED
  BY CacheInvHolds, <1>1, PTL

\* When nobody is at work on a name, its thumbnail shows what the shared folder
\* has under that name (thumb.go:24, upload_sessions.go:316), but for those made
\* two at once, those not made and those of a file in another folder, which the
\* cache keeps when the shared folder is changed (handler.go:737).
THEOREM ThumbsFresh == Spec => []ThumbFresh
<1>1. CacheInv => ThumbFresh
  BY PublishingAssumption
     DEF CacheInv, PublishingInv, TypeOK, ThumbFresh, PicturesFollow, Awaited, Making, Alone, Even
<1> QED
  BY CacheInvHolds, <1>1, PTL

-----------------------------------------------------------------------------
(* A legacy upload is an upload of the abstract folder, like one in        *)
(* chunks.                                                                 *)

FolderStep == [Folder!FolderNext]_(Folder!folderVars)

\* Nobody sees a step in which no upload gets on.
LEMMA NothingSeen ==
  ASSUME shown' = shown,
         \A u \in Uploads : Phase(u)' = Phase(u) /\ Place(u)' = Place(u)
                            /\ Needed(u)' = Needed(u) /\ Got(u)' = Got(u)
  PROVE  FolderStep
  BY DEF FolderStep, Folder!folderVars

\* So it is when only the steps change, and none of them decides anything.
LEMMA StepUnseen ==
  ASSUME shown' = shown, whole' = whole, name' = name, target' = target,
         \A u \in Uploads : Phase(u)' = Phase(u),
         \A u \in Uploads : (pc'[u] = "new" <=> pc[u] = "new")
                            /\ (pc'[u] = "failed" <=> pc[u] = "failed")
  PROVE  FolderStep
<1>1. \A u \in Uploads : Place(u)' = Place(u) /\ Needed(u)' = Needed(u) /\ Got(u)' = Got(u)
  BY DEF Place, Needed, Got
<1> QED
  BY <1>1, NothingSeen

\* What happens to a name happens at the place of the upload.
LEMMA ShowSeen ==
  ASSUME TypeOK, NEW u \in Uploads, pc[u] # "new", NEW contents, Show(u, contents)
  PROVE  [p \in Places |-> shown[p.dir][p.name]]'
           = [[p \in Places |-> shown[p.dir][p.name]] EXCEPT ![Place(u)] = contents]
<1>1. Place(u) \in Places
  BY DEF Place, Places, TypeOK
<1>2. ASSUME NEW p \in Places
      PROVE  shown'[p.dir][p.name] = IF p = Place(u) THEN contents ELSE shown[p.dir][p.name]
  <2>1. p.dir \in Dirs /\ p.name \in Names
        /\ (p = Place(u) <=> p.dir = target[u] /\ p.name = name[u])
    BY DEF Place, Places
  <2> QED
    BY <2>1, ShowAt
<1> QED
  BY <1>1, <1>2

\* The others have nothing to do with it.
LEMMA OthersStay ==
  ASSUME TypeOK, NEW u \in Uploads, NEW step, Goto(u, step), name' = name,
         NEW w \in Uploads, w # u, target'[w] = target[w], w \in whole' <=> w \in whole
  PROVE  /\ Phase(w)' = Phase(w) /\ Place(w)' = Place(w)
         /\ Needed(w)' = Needed(w) /\ Got(w)' = Got(w)
<1>1. pc'[w] = pc[w]
  BY DEF Goto, TypeOK
<1> QED
  BY <1>1 DEF Phase, Place, Needed, Got

\* A request that fails is an upload dropped.
LEMMA FailureDrops ==
  ASSUME TypeOK, NEW u \in Uploads, Goto(u, "failed"), pc[u] \in FileSteps,
         name' = name, target' = target, whole' = whole, shown' = shown
  PROVE  FolderStep
<1>1. pc'[u] = "failed"
  BY DEF Goto, TypeOK
<1>2. Phase(u) = "partial" /\ Phase(u)' = "gone" /\ Got(u)' = {}
      /\ Place(u)' = Place(u) /\ Needed(u)' = Needed(u)
  BY <1>1 DEF Phase, Got, Place, Needed, FileSteps
<1>3. Folder!Drop({u})
  BY <1>2, OthersStay DEF Folder!Drop
<1> QED
  BY <1>3 DEF FolderStep, Folder!FolderNext

\* A body that has arrived is not asked for again.
BodiesOnce == \A u \in whole : pc[u] \notin {"new", "temp", "stream"}

LEMMA NextBodiesOnce ==
  ASSUME TypeOK, BodiesOnce, [Next]_publishingVars
  PROVE  BodiesOnce'
<1> USE DEF BodiesOnce, TypeOK, Goto
<1>1. ASSUME NEW u \in Uploads, Upload(u) PROVE BodiesOnce'
  <2>1. CASE Join(u) \/ OpenTemp(u) \/ OpenTempFails(u) \/ StreamFails(u)
    BY <2>1 DEF Join, OpenTemp, OpenTempFails, StreamFails
  <2>2. ASSUME NEW size \in {"fits", "over"}, Stream(u, size) PROVE BodiesOnce'
    BY <2>2 DEF Stream
  <2>3. CASE Rename(u) \/ RenameFails(u) \/ Displace(u) \/ ReplaceFails(u)
    BY <2>3 DEF Rename, RenameFails, Displace, ReplaceFails
  <2> QED
    BY <1>1, <2>1, <2>2, <2>3 DEF Upload
<1>2. ASSUME NEW u \in Uploads, Generate(u) PROVE BodiesOnce'
  <2>1. whole' = whole
    BY <1>2 DEF Generate, OpenSource, NoPicture, CreateThumb, CreateFails, EncodeHead,
       EncodeTail, EncodeFails, ThumbFails, DropThumb, RenameThumb, RenameThumbFails,
       DisplaceThumb
  <2> QED
    BY <1>2, <2>1, GenerateFrame DEF MakeSteps
<1>3. CASE (\E v \in Viewers : Thumbnail(v)) \/ (\E d \in Dirs : SetRoot(d))
           \/ UNCHANGED publishingVars
  BY <1>3, OtherFrame
<1> QED
  BY <1>1, <1>2, <1>3 DEF Next

\* The legacy upload itself.
LEMMA UploadFolderStep ==
  ASSUME PublishingInv, BodiesOnce, NEW u \in Uploads, Upload(u)
  PROVE  FolderStep
<1> USE DEF PublishingInv, Steps, FileSteps, MakeSteps
<1>1. CASE Join(u)
  <2> USE <1>1 DEF Join
  <2> DEFINE place == [dir |-> root, name |-> name[u]]
  <2>1. pc'[u] = "temp" /\ target'[u] = root /\ u \notin whole /\ place \in Places
    BY DEF Goto, TypeOK, BodiesOnce, Places
  <2>2. /\ Phase(u) = "new" /\ Phase(u)' = "partial"
        /\ Place(u)' = place /\ Needed(u)' = {"body"}
        /\ Got(u) = {} /\ Got(u)' = {}
    BY <2>1 DEF Phase, Place, Needed, Got
  <2>3. \A w \in Uploads \ {u} : target'[w] = target[w]
    BY DEF TypeOK
  <2>4. Folder!Open(u, place, {"body"})
    BY <2>2, <2>3, OthersStay DEF Folder!Open
  <2> QED
    BY <2>1, <2>4 DEF FolderStep, Folder!FolderNext
<1>2. CASE OpenTemp(u)
  BY <1>2, StepUnseen DEF OpenTemp, Goto, TypeOK, Phase
<1>3. CASE OpenTempFails(u)
  BY <1>3, FailureDrops DEF OpenTempFails
<1>4. ASSUME NEW size \in {"fits", "over"}, Stream(u, size) PROVE FolderStep
  <2> USE <1>4 DEF Stream, Accepted
  <2>1. pc'[u] = "rename" /\ whole' = whole \cup {u} /\ u \notin whole
    BY DEF Goto, TypeOK, BodiesOnce
  <2>2. /\ Phase(u) = "partial" /\ Phase(u)' = "partial"
        /\ Place(u)' = Place(u) /\ Needed(u) = {"body"} /\ Needed(u)' = {"body"}
        /\ Got(u) = {} /\ Got(u)' = {"body"}
    BY <2>1 DEF Phase, Place, Needed, Got
  <2>3. Folder!Receive(u, "body")
    BY <2>1, <2>2, OthersStay DEF Folder!Receive
  <2> QED
    BY <2>3 DEF FolderStep, Folder!FolderNext
<1>5. CASE StreamFails(u)
  BY <1>5, FailureDrops DEF StreamFails
<1>6. CASE Rename(u)
  <2> USE <1>6 DEF Rename
  <2>1. pc'[u] = "open_src" /\ u \in whole
    BY DEF Goto, TypeOK, RenameGuards
  <2>2. /\ Phase(u) = "partial" /\ Phase(u)' = "stored"
        /\ Place(u)' = Place(u) /\ Needed(u) = {"body"} /\ Needed(u)' = {"body"}
        /\ Got(u) = {"body"} /\ Got(u)' = {"body"}
    BY <2>1 DEF Phase, Place, Needed, Got
  <2>3. [p \in Places |-> shown[p.dir][p.name]]'
          = [[p \in Places |-> shown[p.dir][p.name]] EXCEPT ![Place(u)] = u]
    BY ShowSeen
  <2>4. \A w \in Uploads \ {u} : Phase(w)' = Phase(w)
    BY OthersStay
  <2>5. \A w \in Uploads : Place(w)' = Place(w) /\ Needed(w)' = Needed(w) /\ Got(w)' = Got(w)
    BY <2>2, OthersStay
  <2>6. /\ [w \in Uploads |-> Phase(w)]' = [[w \in Uploads |-> Phase(w)] EXCEPT ![u] = "stored"]
        /\ [w \in Uploads |-> Place(w)]' = [w \in Uploads |-> Place(w)]
        /\ [w \in Uploads |-> Needed(w)]' = [w \in Uploads |-> Needed(w)]
        /\ [w \in Uploads |-> Got(w)]' = [w \in Uploads |-> Got(w)]
    BY <2>2, <2>4, <2>5
  <2>7. Folder!Store(u)
    BY <2>2, <2>3, <2>6 DEF Folder!Store
  <2> QED
    BY <2>7 DEF FolderStep, Folder!FolderNext
<1>7. CASE RenameFails(u)
  BY <1>7, StepUnseen DEF RenameFails, Goto, TypeOK, Phase
<1>8. CASE Displace(u)
  <2> USE <1>8 DEF Displace
  <2>1. pc'[u] = "rename_again"
    BY DEF Goto, TypeOK
  <2>2. /\ Phase(u) = "partial" /\ Phase(u)' = "partial"
        /\ Place(u)' = Place(u) /\ Needed(u)' = Needed(u) /\ Got(u)' = Got(u)
    BY <2>1 DEF Phase, Place, Needed, Got
  <2>3. [p \in Places |-> shown[p.dir][p.name]]'
          = [[p \in Places |-> shown[p.dir][p.name]] EXCEPT ![Place(u)] = Nothing]
    BY ShowSeen
  <2>4. Folder!Vacate(u)
    BY <2>2, <2>3, OthersStay DEF Folder!Vacate
  <2> QED
    BY <2>4 DEF FolderStep, Folder!FolderNext
<1>9. CASE ReplaceFails(u)
  BY <1>9, FailureDrops DEF ReplaceFails
<1> QED
  BY <1>1, <1>2, <1>3, <1>4, <1>5, <1>6, <1>7, <1>8, <1>9 DEF Upload

\* Every step is one of the shared folders, or none.
LEMMA NextFolderStep ==
  ASSUME PublishingInv, BodiesOnce, [Next]_publishingVars
  PROVE  FolderStep
<1>1. ASSUME NEW u \in Uploads, Generate(u) PROVE FolderStep
  <2>1. /\ UNCHANGED <<name, target, shown, whole>>
        /\ pc[u] \in MakeSteps \cup {"open_src"} /\ pc'[u] \in MakeSteps \cup {"done"}
        /\ \A w \in Uploads : w # u => pc'[w] = pc[w]
    <3>1. whole' = whole /\ pc[u] \in MakeSteps \cup {"open_src"}
      BY <1>1 DEF Generate, OpenSource, NoPicture, CreateThumb, CreateFails, EncodeHead,
         EncodeTail, EncodeFails, ThumbFails, DropThumb, RenameThumb, RenameThumbFails,
         DisplaceThumb, MakeSteps
    <3> QED
      BY <1>1, <3>1, GenerateFrame DEF PublishingInv
  <2>2. \A w \in Uploads : Phase(w)' = Phase(w)
    BY <2>1 DEF Phase, FileSteps, MakeSteps
  <2> QED
    BY <2>1, <2>2, StepUnseen DEF MakeSteps
<1>2. CASE (\E v \in Viewers : Thumbnail(v)) \/ (\E d \in Dirs : SetRoot(d))
           \/ UNCHANGED publishingVars
  BY <1>2, OtherFrame, StepUnseen DEF Phase
<1> QED
  BY <1>1, <1>2, UploadFolderStep DEF Next

\* Publishing implements ShareFolder: whichever way a file is uploaded, it
\* appears in a shared folder in one step, whole, and where its name was
\* joined to the folder (handler.go:255); an upload that ended stays ended;
\* and a file is lost only to an upload that was to replace it
\* (handler.go:222-319, upload_sessions.go:461-469).
THEOREM LegacyImplements == Spec => LegacyImplementsFolder
<1>1. Init => Folder!FolderInit
  <2> SUFFICES ASSUME Init PROVE Folder!FolderInit
    OBVIOUS
  <2>1. \A u \in Uploads : Phase(u) = "new" /\ Place(u) = Nothing
                           /\ Needed(u) = {} /\ Got(u) = {}
    BY DEF Init, Phase, Place, Needed, Got, FileSteps
  <2>2. [p \in Places |-> shown[p.dir][p.name]] \in [Places -> {Nothing, Earlier}]
    BY DEF Init, Places
  <2> QED
    BY <2>1, <2>2 DEF Folder!FolderInit
<1>2. Spec => []BodiesOnce
  <2>1. Init => BodiesOnce
    BY DEF Init, BodiesOnce
  <2>2. TypeOK /\ BodiesOnce /\ [Next]_publishingVars => BodiesOnce'
    BY NextBodiesOnce
  <2> QED
    BY PublishingTypes, <2>1, <2>2, PTL DEF Spec
<1>3. PublishingInv /\ BodiesOnce /\ [Next]_publishingVars
        => [Folder!FolderNext]_(Folder!folderVars)
  BY NextFolderStep DEF FolderStep
<1> QED
  BY PublishingInvHolds, <1>1, <1>2, <1>3, PTL
     DEF Spec, LegacyImplementsFolder, Folder!FolderSpec
=============================================================================

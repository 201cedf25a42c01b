----------------------------- MODULE Publishing -----------------------------
(***************************************************************************)
(* How a file gets its name and its picture: handleLegacyUpload and        *)
(* handleThumbnail of internal/server/handler.go, thumb.Generate.          *)
(*                                                                         *)
(* A legacy upload asks for the shared folder twice, once for the name the *)
(* file shall have and once for its temporary file; a settings request may *)
(* come in between.  Temporary files of uploads have random names, those   *)
(* of thumbnails do not: two uploads of one name write the same one.       *)
(* Complete in upload_sessions.go calls thumb.Generate like the legacy     *)
(* upload does; what comes before is UploadManager.                        *)
(***************************************************************************)
EXTENDS Naturals

CONSTANTS
  Uploads,   \* requests to upload a file; each stands for its contents, too
  Viewers,   \* requests for a thumbnail
  Dirs, Names,
  Pictures,  \* names with the extension of a picture
  Faults,    \* the operations that may fail by themselves
  Earlier,   \* contents from earlier on
  Nothing    \* no file, no contents

ASSUME PublishingAssumption ==
  /\ Pictures \subseteq Names
  /\ Faults \subseteq {"open", "cross", "rename", "unlink", "decode", "create", "encode"}
  /\ {Earlier, Nothing} \cap Uploads = {} /\ Earlier # Nothing

VARIABLES
  root,        \* share.Manager.root
  pc, name,    \* next step of each upload, cleanName
  target,      \* the folder of its destination
  tempDir,     \* the folder of its temporary file
  shown,       \* contents under each name of each folder
  temps,       \* temporary files of uploads, as pairs of folder and upload
  thumb,       \* file under each name of the cache, named by its creator
  thumbTmp,    \* file under each name with ".tmp"
  text,        \* first and second part of what was written to these files
  fd,          \* the file a thumbnail is written to
  source,      \* the contents it is made from
  view,        \* state of each request for a thumbnail
  whole,       \* uploads received completely
  overlapped,  \* uploads that made their thumbnail along with another one
  unpictured   \* contents whose thumbnail was not made

request == <<name, target, tempDir>>
folder  == <<shown, temps, whole>>
cache   == <<thumb, thumbTmp, text>>
maker   == <<fd, source, overlapped, unpictured>>
publishingVars == <<root, pc, request, folder, cache, maker, view>>

-----------------------------------------------------------------------------
Contents == Uploads \cup {Earlier}
MakeSteps == {"create", "head", "tail", "thumb_rename", "thumb_displace", "thumb_again"}
FileSteps == {"temp", "stream", "rename", "displace", "rename_again"}
Steps == {"new", "open_src", "done", "failed"} \cup FileSteps \cup MakeSteps
Blank == [head |-> Nothing, tail |-> Nothing]

Init ==
  /\ root \in Dirs
  /\ pc = [u \in Uploads |-> "new"] /\ name \in [Uploads -> Names]
  /\ target = [u \in Uploads |-> root] /\ tempDir = [u \in Uploads |-> root]
  /\ shown \in [Dirs -> [Names -> {Earlier, Nothing}]] /\ temps = {}
  /\ thumb = [n \in Names |-> Nothing] /\ thumbTmp = [n \in Names |-> Nothing]
  /\ text = [u \in Uploads |-> Blank]
  /\ fd = [u \in Uploads |-> Nothing] /\ source = [u \in Uploads |-> Nothing]
  /\ view = [v \in Viewers |-> [step |-> "idle", file |-> Nothing, seen |-> Blank]]
  /\ whole = {} /\ overlapped = {} /\ unpictured = {}

Goto(u, step) == pc' = [pc EXCEPT ![u] = step]

\* PUT /api/admin/settings with another folder, at any time.
SetRoot(d) ==
  /\ d # root /\ root' = d
  /\ UNCHANGED <<pc, request, folder, cache, maker, view>>

-----------------------------------------------------------------------------
(* POST /upload/.                                                          *)

\* The part named "file": Join gives its destination.
Join(u) ==
  /\ pc[u] = "new"
  /\ target' = [target EXCEPT ![u] = root]
  /\ Goto(u, "temp")
  /\ UNCHANGED <<root, name, tempDir, folder, cache, maker, view>>

\* The folder of the temporary file is asked for again.
OpenTemp(u) ==
  /\ pc[u] = "temp"
  /\ tempDir' = [tempDir EXCEPT ![u] = root]
  /\ temps' = temps \cup {<<root, u>>}
  /\ Goto(u, "stream")
  /\ UNCHANGED <<root, name, target, shown, whole, cache, maker, view>>

OpenTempFails(u) ==
  /\ pc[u] = "temp" /\ "open" \in Faults
  /\ Goto(u, "failed")
  /\ UNCHANGED <<root, request, folder, cache, maker, view>>

BugAccepted(size) == TRUE
Accepted(size) == size = "fits"

\* What was copied is at most one byte more than the limit.
Stream(u, size) ==
  /\ pc[u] = "stream" /\ Accepted(size)
  /\ whole' = IF size = "fits" THEN whole \cup {u} ELSE whole
  /\ Goto(u, "rename")
  /\ UNCHANGED <<root, request, shown, temps, cache, maker, view>>

BugDiscarded(u) == temps
Discarded(u) == temps \ {<<tempDir[u], u>>}

\* The client is gone, the disk is full or the file too large.
StreamFails(u) ==
  /\ pc[u] = "stream"
  /\ temps' = Discarded(u)
  /\ Goto(u, "failed")
  /\ UNCHANGED <<root, request, shown, whole, cache, maker, view>>

BugCanRename(u) == FALSE
CanRename(u) == tempDir[u] = target[u] \/ "cross" \notin Faults

Show(u, contents) == shown' = [shown EXCEPT ![target[u]][name[u]] = contents]

\* replaceFile, whose first call of os.Rename nearly always does it.
Rename(u) ==
  /\ pc[u] \in {"rename", "rename_again"} /\ CanRename(u)
  /\ Show(u, u)
  /\ temps' = temps \ {<<tempDir[u], u>>}
  /\ Goto(u, "open_src")
  /\ UNCHANGED <<root, request, whole, cache, maker, view>>

RenameFails(u) ==
  /\ pc[u] = "rename" /\ (~CanRename(u) \/ "rename" \in Faults)
  /\ Goto(u, "displace")
  /\ UNCHANGED <<root, request, folder, cache, maker, view>>

Displace(u) ==
  /\ pc[u] = "displace"
  /\ Show(u, Nothing)
  /\ Goto(u, "rename_again")
  /\ UNCHANGED <<root, request, temps, whole, cache, maker, view>>

\* The handler removes the temporary file of a replaceFile that failed.
ReplaceFails(u) ==
  /\ \/ pc[u] = "displace" /\ "unlink" \in Faults
     \/ pc[u] = "rename_again" /\ (~CanRename(u) \/ "rename" \in Faults)
  /\ temps' = Discarded(u)
  /\ Goto(u, "failed")
  /\ UNCHANGED <<root, request, shown, whole, cache, maker, view>>

-----------------------------------------------------------------------------
(* thumb.Generate; its errors are ignored.                                 *)

Making(n) == {u \in Uploads : pc[u] \in MakeSteps /\ name[u] = n}

\* The picture is made from what has the name by now.
BugPicture(u) == u
Picture(u) == shown[target[u]][name[u]]

OpenSource(u) ==
  /\ pc[u] = "open_src" /\ name[u] \in Pictures /\ shown[target[u]][name[u]] # Nothing
  /\ source' = [source EXCEPT ![u] = Picture(u)]
  /\ overlapped' = IF Making(name[u]) = {} THEN overlapped
                   ELSE overlapped \cup Making(name[u]) \cup {u}
  /\ Goto(u, "create")
  /\ UNCHANGED <<root, request, folder, cache, fd, unpictured, view>>

NoPicture(u) ==
  /\ pc[u] = "open_src"
  /\ name[u] \notin Pictures \/ shown[target[u]][name[u]] = Nothing \/ "decode" \in Faults
  /\ unpictured' = unpictured \cup {shown[target[u]][name[u]]}
  /\ Goto(u, "done")
  /\ UNCHANGED <<root, request, folder, cache, fd, source, overlapped, view>>

\* os.Create: a new file, or the one that has the name already, emptied.
BugCreated(u) == thumbTmp[name[u]]
Created(u) == IF thumbTmp[name[u]] = Nothing THEN u ELSE thumbTmp[name[u]]

CreateThumb(u) ==
  /\ pc[u] = "create"
  /\ thumbTmp' = [thumbTmp EXCEPT ![name[u]] = Created(u)]
  /\ text' = [text EXCEPT ![Created(u)] = Blank]
  /\ fd' = [fd EXCEPT ![u] = Created(u)]
  /\ Goto(u, "head")
  /\ UNCHANGED <<root, request, folder, thumb, source, overlapped, unpictured, view>>

\* jpeg.Encode writes a few kilobytes at a time, at its own offset.
EncodeHead(u) ==
  /\ pc[u] = "head"
  /\ text' = [text EXCEPT ![fd[u]].head = source[u]]
  /\ Goto(u, "tail")
  /\ UNCHANGED <<root, request, folder, thumb, thumbTmp, maker, view>>

EncodeTail(u) ==
  /\ pc[u] = "tail"
  /\ text' = [text EXCEPT ![fd[u]].tail = source[u]]
  /\ Goto(u, "thumb_rename")
  /\ UNCHANGED <<root, request, folder, thumb, thumbTmp, maker, view>>

\* Every error after os.Create removes the temporary file by its name.
DropThumb(u) ==
  /\ thumbTmp' = [thumbTmp EXCEPT ![name[u]] = Nothing]
  /\ unpictured' = unpictured \cup {source[u]}
  /\ Goto(u, "done")
  /\ UNCHANGED <<root, request, folder, thumb, text, fd, source, overlapped, view>>

BugEncodeFails(u) ==
  /\ pc[u] \in {"head", "tail"} /\ "encode" \in Faults
  /\ Goto(u, "thumb_rename")
  /\ UNCHANGED <<root, request, folder, cache, maker, view>>
EncodeFails(u) ==
  /\ pc[u] \in {"head", "tail"} /\ "encode" \in Faults
  /\ DropThumb(u)

ThumbFails(u) ==
  /\ \/ pc[u] = "thumb_displace" /\ "unlink" \in Faults
     \/ pc[u] = "thumb_again" /\ (thumbTmp[name[u]] = Nothing \/ "rename" \in Faults)
  /\ DropThumb(u)

CreateFails(u) ==
  /\ pc[u] = "create" /\ "create" \in Faults
  /\ unpictured' = unpictured \cup {source[u]}
  /\ Goto(u, "done")
  /\ UNCHANGED <<root, request, folder, cache, fd, source, overlapped, view>>

\* The temporary file may be another one by now, or gone.
RenameThumb(u) ==
  /\ pc[u] \in {"thumb_rename", "thumb_again"} /\ thumbTmp[name[u]] # Nothing
  /\ thumb' = [thumb EXCEPT ![name[u]] = thumbTmp[name[u]]]
  /\ thumbTmp' = [thumbTmp EXCEPT ![name[u]] = Nothing]
  /\ Goto(u, "done")
  /\ UNCHANGED <<root, request, folder, text, maker, view>>

RenameThumbFails(u) ==
  /\ pc[u] = "thumb_rename" /\ (thumbTmp[name[u]] = Nothing \/ "rename" \in Faults)
  /\ Goto(u, "thumb_displace")
  /\ UNCHANGED <<root, request, folder, cache, maker, view>>

DisplaceThumb(u) ==
  /\ pc[u] = "thumb_displace"
  /\ thumb' = [thumb EXCEPT ![name[u]] = Nothing]
  /\ Goto(u, "thumb_again")
  /\ UNCHANGED <<root, request, folder, thumbTmp, text, maker, view>>

-----------------------------------------------------------------------------
(* GET /thumbnails/: the file is opened once and sent piece by piece.      *)

View(v, step, file, seen) ==
  /\ view' = [view EXCEPT ![v] = [step |-> step, file |-> file, seen |-> seen]]
  /\ UNCHANGED <<root, pc, request, folder, cache, maker>>

OpenView(v, n) ==
  /\ view[v].step = "idle" /\ thumb[n] # Nothing
  /\ View(v, "head", thumb[n], Blank)

SendHead(v) ==
  LET file == view[v].file IN
  /\ view[v].step = "head"
  /\ View(v, "tail", file, [Blank EXCEPT !.head = text[file].head])

SendTail(v) ==
  LET file == view[v].file IN
  /\ view[v].step = "tail"
  /\ View(v, "idle", file, [view[v].seen EXCEPT !.tail = text[file].tail])

-----------------------------------------------------------------------------
Upload(u) ==
  \/ Join(u) \/ OpenTemp(u) \/ OpenTempFails(u)
  \/ (\E size \in {"fits", "over"} : Stream(u, size)) \/ StreamFails(u)
  \/ Rename(u) \/ RenameFails(u) \/ Displace(u) \/ ReplaceFails(u)

Generate(u) ==
  \/ OpenSource(u) \/ NoPicture(u) \/ CreateThumb(u) \/ CreateFails(u)
  \/ EncodeHead(u) \/ EncodeTail(u) \/ EncodeFails(u)
  \/ RenameThumb(u) \/ RenameThumbFails(u) \/ DisplaceThumb(u) \/ ThumbFails(u)

Thumbnail(v) == (\E n \in Names : OpenView(v, n)) \/ SendHead(v) \/ SendTail(v)

Next ==
  \/ \E u \in Uploads : Upload(u) \/ Generate(u)
  \/ \E v \in Viewers : Thumbnail(v)
  \/ \E d \in Dirs : SetRoot(d)

Spec == Init /\ [][Next]_publishingVars

-----------------------------------------------------------------------------
Parts == [head : Contents \cup {Nothing}, tail : Contents \cup {Nothing}]

TypeOK ==
  /\ root \in Dirs /\ pc \in [Uploads -> Steps] /\ name \in [Uploads -> Names]
  /\ target \in [Uploads -> Dirs] /\ tempDir \in [Uploads -> Dirs]
  /\ shown \in [Dirs -> [Names -> Contents \cup {Nothing}]]
  /\ temps \subseteq Dirs \X Uploads
  /\ thumb \in [Names -> Uploads \cup {Nothing}]
  /\ thumbTmp \in [Names -> Uploads \cup {Nothing}]
  /\ text \in [Uploads -> Parts]
  /\ fd \in [Uploads -> Uploads \cup {Nothing}]
  /\ \A u \in Uploads : pc[u] \in {"head", "tail"} => fd[u] # Nothing
  /\ source \in [Uploads -> Contents \cup {Nothing}]
  /\ view \in [Viewers -> [step : {"idle", "head", "tail"},
                           file : Uploads \cup {Nothing}, seen : Parts]]
  /\ whole \subseteq Uploads /\ overlapped \subseteq Uploads
  /\ unpictured \subseteq Contents \cup {Nothing}

\* A name of the shared folder never shows a legacy upload that was cut off
\* by the limit or by its client.
ShownWhole ==
  \A d \in Dirs, n \in Names : shown[d][n] \in Uploads => shown[d][n] \in whole

\* A temporary file belongs to a request under way, also when the folder was
\* changed meanwhile and when replaceFile has failed.
TempsOwned ==
  \A t \in temps : /\ pc[t[2]] \in FileSteps \ {"temp"}
                   /\ t[1] = tempDir[t[2]]

\* Without an os.Rename that fails by itself, the only way for a file to
\* vanish is a settings request between the two questions for the folder.
FileKept ==
  [][\A d \in Dirs, n \in Names :
       shown[d][n] # Nothing /\ shown'[d][n] = Nothing =>
         \/ "rename" \in Faults
         \/ \E u \in Uploads : pc[u] = "displace" /\ tempDir[u] # target[u]]_publishingVars

\* A thumbnail is sent in one piece, unless it was made along with another
\* one of that name.
SentWhole ==
  \A v \in Viewers :
    view[v].step = "idle" /\ view[v].file \notin overlapped \cup {Nothing} =>
      view[v].seen.head = view[v].seen.tail /\ view[v].seen # Blank

\* With no upload of the name under way, the thumbnail shows what the shared
\* folder has under that name, although the file may have been replaced while
\* the thumbnail was made; except after two were made at once, when the last
\* one was not made, or when it was made for a file of another folder: the
\* cache knows names only and stays when the folder is changed.
ThumbFresh ==
  \A n \in Names :
    LET file == thumb[n]  now == shown[root][n] IN
      /\ file \notin overlapped \cup {Nothing} /\ target[file] = root
      /\ \A u \in Uploads : name[u] = n => pc[u] \notin MakeSteps \cup {"open_src"}
      => now \in unpictured \cup {Nothing} \/ text[file] = [head |-> now, tail |-> now]

-----------------------------------------------------------------------------
(* The strengthening that makes the first of them inductive.               *)

\* What is about to get its name has been received, and what is removed
\* before the second rename stands in the way of a rename that had to fail.
RenameGuards ==
  \A u \in Uploads :
    /\ pc[u] \in {"rename", "displace", "rename_again"} => u \in whole
    /\ pc[u] = "displace" => tempDir[u] # target[u] \/ "rename" \in Faults

ViewsOpen == \A v \in Viewers : view[v].step # "idle" => view[v].file # Nothing

PublishingInv == TypeOK /\ ShownWhole /\ TempsOwned /\ RenameGuards /\ ViewsOpen

(* What SentWhole and ThumbFresh need besides: the way of a thumbnail that *)
(* is made alone, from its maker to its name and to those who look at it.  *)

\* Uploads whose thumbnails nobody else was making at the same time.
Alone == Uploads \ overlapped
Even(contents) == [head |-> contents, tail |-> contents]

\* One of these is the only one at work on the thumbnails of its name.
MakersAlone ==
  \A u \in Alone, w \in Uploads :
    pc[u] \in MakeSteps /\ pc[w] \in MakeSteps /\ name[u] = name[w] => u = w

\* A temporary file stands there as long as somebody is to rename it.
TempsMade ==
  \A n \in Names :
    /\ thumbTmp[n] # Nothing => \E w \in Making(n) : pc[w] # "create"
    /\ thumbTmp[n] \in Alone => thumbTmp[n] \in Making(n) /\ pc[thumbTmp[n]] # "create"

\* A maker writes what it has read, and nobody into the file of one alone.
MakersWrite ==
  \A u \in Uploads :
    /\ pc[u] \in MakeSteps => source[u] \in Contents
    /\ pc[u] \in {"head", "tail"} => fd[u] \in overlapped \cup {u}
    /\ u \in Alone =>
         /\ pc[u] \in MakeSteps \ {"create"} => fd[u] = u /\ thumbTmp[name[u]] = u
         /\ pc[u] = "tail" => text[u].head = source[u]
         /\ pc[u] \in {"thumb_rename", "thumb_displace", "thumb_again"} =>
              text[u] = Even(source[u])

Finished(u) == pc[u] = "done" /\ \E contents \in Contents : text[u] = Even(contents)

\* What one of these made is complete by the time it is in the cache, and no
\* longer changes while it is sent.
CacheWhole ==
  /\ \A n \in Names : thumb[n] \in Alone => Finished(thumb[n])
  /\ \A v \in Viewers : view[v].file \in Alone =>
       /\ Finished(view[v].file)
       /\ view[v].step = "tail" => view[v].seen.head = text[view[v].file].head

\* Somebody is going to look at what stands there.
Awaited(d, n) == \E w \in Uploads : pc[w] = "open_src" /\ target[w] = d /\ name[w] = n

\* Whenever a file is replaced, somebody is still to make a thumbnail of it.
PicturesFollow ==
  /\ \A u \in Alone : pc[u] \in MakeSteps =>
       \/ Picture(u) \in unpictured \cup {Nothing, source[u]}
       \/ Awaited(target[u], name[u])
  /\ \A n \in Names : thumb[n] \in Alone =>
       LET file == thumb[n]  now == shown[target[file]][n] IN
         \/ now \in unpictured \cup {Nothing} \/ text[file] = Even(now)
         \/ Awaited(target[file], n)
         \/ \E w \in Making(n) : target[w] = target[file] /\ source[w] = now

\* The inductive invariant from which the thumbnails sent are whole and those
\* that stay show the file of their name: a maker who is alone owns the shared
\* temporary file of thumb.Generate from its create to its rename, and whenever
\* replaceFile changes a file, a later Generate reads it.
CacheInv ==
  /\ PublishingInv
  /\ MakersAlone /\ TempsMade /\ MakersWrite /\ CacheWhole /\ SentWhole /\ PicturesFollow

-----------------------------------------------------------------------------
(* The same promise to somebody who looks at the shared folders as the     *)
(* chunked uploads make: a legacy upload is one of a single chunk, its     *)
(* body.                                                                   *)

Phase(u) ==
  CASE pc[u] = "new"        -> "new"
    [] pc[u] \in FileSteps  -> "partial"
    [] pc[u] = "failed"     -> "gone"
    [] OTHER                -> "stored"

Places == [dir : Dirs, name : Names]
Place(u) == IF pc[u] = "new" THEN Nothing ELSE [dir |-> target[u], name |-> name[u]]
Needed(u) == IF pc[u] = "new" THEN {} ELSE {"body"}
Got(u) == IF u \in whole /\ pc[u] # "failed" THEN {"body"} ELSE {}

Folder == INSTANCE ShareFolder WITH
  Chunks  <- {"body"},
  Older   <- Earlier,
  Nowhere <- Nothing,
  phase   <- [u \in Uploads |-> Phase(u)],
  target  <- [u \in Uploads |-> Place(u)],
  needs   <- [u \in Uploads |-> Needed(u)],
  got     <- [u \in Uploads |-> Got(u)],
  folder  <- [p \in Places |-> shown[p.dir][p.name]]

\* handleLegacyUpload (handler.go:222-319) and thumb.Generate, with folders
\* that change between their steps: every step is one of ShareFolder or one
\* that nobody sees in the shared folders.
LegacyImplementsFolder == Folder!FolderSpec
=============================================================================

------------------------- MODULE UploadFolderProofs -------------------------
(***************************************************************************)
(* UploadManager implements ShareFolder: every step of the handlers, of    *)
(* the janitor, of a shutdown, a crash or a power failure is, seen from    *)
(* the shared folders, a step of ShareFolder or none at all.               *)
(***************************************************************************)
EXTENDS UploadRecordsProofs

USE DEF vars, manager, session, disk, goroutine, history

-----------------------------------------------------------------------------
(* What the mapping needs besides SessionInv.                              *)

\* A drawn id has a place; the data of an upload are chunks it consists of.
Sized ==
  \A id \in UploadIDs :
    /\ upload[id].total # 0 => Place(id) \in Places
    /\ \A c \in Chunks : data[id][c] = "full" => c < upload[id].total

\* What an earlier process left behind is known to nobody, and a temporary
\* file is not a stored one.
LeftBehind ==
  /\ \A id \in orphans : upload[id].total # 0 /\ id \notin sessions
  /\ \A h \in Handlers : pc[h] \in ServingSteps => sid[h] \notin orphans
  /\ part \cap stored = {}
  /\ \A h \in Handlers : pc[h] \in FinalizeSteps \ {"forget"} => sid[h] \notin stored

\* The data of a chunk is full only after its body has been copied, and a
\* body is not copied over full data.
NotFullYet ==
  /\ \A id \in UploadIDs, c \in Chunks :
       /\ chunkState[id][c] = "pending"
       /\ id \in sessions \/ \E h \in Handlers : pc[h] \in ServingSteps /\ sid[h] = id
       => data[id][c] # "full"
  /\ \A h \in Handlers : pc[h] \in {"copy", "unmark"} => data[sid[h]][idx[h]] # "full"

FolderInv == Sized /\ LeftBehind /\ NotFullYet

\* Ids are drawn with a place, and data are copied chunk by chunk.
LEMMA NextSized ==
  ASSUME TypeOK, ServingSession, WriterClaims, Sized, [Next]_vars
  PROVE  Sized'
<1> USE HandlersAreProcs, OthersAreProcs
    DEF Sized, Place, Places, TypeOK, GoroutinesOK, WriteSteps
<1>1. ASSUME NEW h \in Handlers, NEW id \in UploadIDs, NEW n \in Names,
            NEW k \in 1 .. MaxChunks, InitBegin(h, id, n, k)
      PROVE  Sized'
  <2>1. ASSUME NEW u \in UploadIDs, upload'[u].total # 0 PROVE Place(u)' \in Places
    BY <1>1, <2>1 DEF InitBegin
  <2>2. ASSUME NEW u \in UploadIDs, NEW c \in Chunks, data'[u][c] = "full"
        PROVE  c < upload'[u].total
    <3>1. u # id
      BY <1>1, <2>2 DEF InitBegin, Chunks
    <3> QED
      BY <1>1, <2>2, <3>1 DEF InitBegin
  <2> QED
    BY <2>1, <2>2
<1>2. ASSUME NEW h \in Handlers, NEW id \in UploadIDs, NEW c \in Chunks, WriteGet(h, id, c)
      PROVE  Sized'
  BY <1>2 DEF WriteGet, Start
<1>3. ASSUME NEW h \in Handlers, NEW id \in UploadIDs, CompleteGet(h, id) PROVE Sized'
  BY <1>3 DEF CompleteGet, Start
<1>4. ASSUME NEW h \in Handlers, NEW id \in UploadIDs, Abort(h, id) PROVE Sized'
  BY <1>4 DEF Abort, Evict, Remaining, Evicted
<1>5. ASSUME NEW h \in Handlers, NEW r \in Roots, UpdateStorage(h, r) PROVE Sized'
  BY <1>5 DEF UpdateStorage, Evict, EvictedByStorage, InitUnderWay, Remaining, Evicted
<1>6. ASSUME NEW h \in Handlers, InitCreate(h) PROVE Sized'
  BY <1>6 DEF InitCreate, Goto
<1>7. ASSUME NEW h \in Handlers, InitCreateFails(h) PROVE Sized'
  BY <1>7 DEF InitCreateFails, Discarded, Reply
<1>8. ASSUME NEW h \in Handlers, InitRegister(h) PROVE Sized'
  BY <1>8 DEF InitRegister, Reply
<1>9. ASSUME NEW h \in Handlers, Claim(h) PROVE Sized'
  BY <1>9 DEF Claim, Claimable, SetChunk, Goto
<1>10. ASSUME NEW h \in Handlers, ClaimDuplicate(h) PROVE Sized'
  BY <1>10 DEF ClaimDuplicate, Reply
<1>11. ASSUME NEW h \in Handlers, ClaimRefused(h) PROVE Sized'
  BY <1>11 DEF ClaimRefused, Reply
<1>12. ASSUME NEW h \in Handlers, Copy(h) PROVE Sized'
  <2>1. sid[h] \in UploadIDs /\ idx[h] \in Chunks /\ idx[h] < upload[sid[h]].total
    BY <1>12 DEF Copy, ServingSession, ServingSteps, WriterClaims
  <2> QED
    BY <1>12, <2>1 DEF Copy, Contents, Goto
<1>13. ASSUME NEW h \in Handlers, CopyFails(h) PROVE Sized'
  <2>0. \A u \in UploadIDs, c \in Chunks : data'[u][c] = "full" => data[u][c] = "full"
    <3>1. CASE data' = [data EXCEPT ![sid[h]][idx[h]] = "torn"]
      BY <3>1
    <3>2. CASE data' = data
      BY <3>2
    <3> QED
      BY <1>13, <3>1, <3>2 DEF CopyFails, Contents
  <2> QED
    BY <1>13, <2>0 DEF CopyFails, Goto
<1>14. ASSUME NEW h \in Handlers, Mark(h) PROVE Sized'
  BY <1>14 DEF Mark, SetChunk, Reply
<1>15. ASSUME NEW h \in Handlers, Unmark(h) PROVE Sized'
  BY <1>15 DEF Unmark, SetChunk, AfterFailure, Reply
<1>16. ASSUME NEW h \in Handlers, Seal(h) PROVE Sized'
  BY <1>16 DEF Seal, Sealable, Goto, AllReceived
<1>17. ASSUME NEW h \in Handlers, SealedAlready(h) PROVE Sized'
  BY <1>17 DEF SealedAlready, Reply
<1>18. ASSUME NEW h \in Handlers, SealIncomplete(h) PROVE Sized'
  BY <1>18 DEF SealIncomplete, AllReceived, Reply
<1>19. ASSUME NEW h \in Handlers, Sync(h) PROVE Sized'
  BY <1>19 DEF Sync, Synced, Goto
<1>20. ASSUME NEW h \in Handlers, SyncFails(h) PROVE Sized'
  BY <1>20 DEF SyncFails, Reply
<1>21. ASSUME NEW h \in Handlers, Close(h) PROVE Sized'
  BY <1>21 DEF Close, Goto
<1>22. ASSUME NEW h \in Handlers, CloseFails(h) PROVE Sized'
  BY <1>22 DEF CloseFails, Reply
<1>23. ASSUME NEW h \in Handlers, Rename(h) PROVE Sized'
  BY <1>23 DEF Rename, RenameStep, Stand, Goto
<1>24. ASSUME NEW h \in Handlers, RenameFails(h) PROVE Sized'
  BY <1>24 DEF RenameFails, CannotRename, Goto
<1>25. ASSUME NEW h \in Handlers, Displace(h) PROVE Sized'
  BY <1>25 DEF Displace, Stand, Goto
<1>26. ASSUME NEW h \in Handlers, DisplaceFails(h) PROVE Sized'
  BY <1>26 DEF DisplaceFails, Reply
<1>27. ASSUME NEW h \in Handlers, RenameAgain(h) PROVE Sized'
  BY <1>27 DEF RenameAgain, RenameStep, Stand, Goto
<1>28. ASSUME NEW h \in Handlers, RenameAgainFails(h) PROVE Sized'
  BY <1>28 DEF RenameAgainFails, CannotRename, Reply
<1>29. ASSUME NEW h \in Handlers, Forget(h) PROVE Sized'
  BY <1>29 DEF Forget, Reply
<1>30. ASSUME NEW p \in Procs, NEW id \in UploadIDs, CleanupClose(p, id) PROVE Sized'
  BY <1>30 DEF CleanupClose
<1>31. ASSUME NEW p \in Procs, CleanupUnlink(p) PROVE Sized'
  BY <1>31 DEF CleanupUnlink, Unlinked
<1>32. ASSUME NEW p \in Procs, CleanupDone(p) PROVE Sized'
  BY <1>32 DEF CleanupDone, Goto, AfterCleanup
<1>33. CASE Expire
  BY <1>33 DEF Expire, Evict, Remaining, Evicted
<1>34. CASE JanitorExit
  BY <1>34 DEF JanitorExit, Goto
<1>35. CASE CloseSignal
  BY <1>35 DEF CloseSignal, Goto
<1>36. CASE CloseGrab
  BY <1>36 DEF CloseGrab, Evict, Remaining, Evicted
<1>37. CASE Shutdown
  BY <1>37 DEF Shutdown, Goto
<1>38. ASSUME NEW id \in UploadIDs, Age(id) PROVE Sized'
  BY <1>38 DEF Age
<1>39. CASE ProcessStops
  BY <1>39 DEF ProcessStops, Restart, Blank
<1>40. CASE PowerFails
  BY <1>40 DEF PowerFails, Restart, Blank
<1>41. CASE UNCHANGED vars
  BY <1>41
<1> QED
  BY <1>1, <1>2, <1>3, <1>4, <1>5, <1>6, <1>7, <1>8, <1>9, <1>10, <1>11, <1>12,
     <1>13, <1>14, <1>15, <1>16, <1>17, <1>18, <1>19, <1>20, <1>21, <1>22,
     <1>23, <1>24, <1>25, <1>26, <1>27, <1>28, <1>29, <1>30, <1>31, <1>32,
     <1>33, <1>34, <1>35, <1>36, <1>37, <1>38, <1>39, <1>40, <1>41
     DEF Next, Request, Handle, Cleanup, JanitorStep, MainStep, Exited

\* Only the end of a process leaves a file behind, and only a rename stores one.
LEMMA NextLeftBehind ==
  ASSUME TypeOK, PartAccounted, UndrawnUnknown, InitAlone, ServingSession, OneFinalizer,
         StoredSettled, LeftBehind, [Next]_vars
  PROVE  LeftBehind'
<1> USE HandlersAreProcs, OthersAreProcs
    DEF LeftBehind, TypeOK, GoroutinesOK, ServingSession, ServingSteps, InitSteps, WriteSteps,
        FinalizeSteps, CleanupSteps
<1>1. ASSUME NEW h \in Handlers, NEW id \in UploadIDs, NEW n \in Names,
            NEW k \in 1 .. MaxChunks, InitBegin(h, id, n, k)
      PROVE  LeftBehind'
  BY <1>1 DEF InitBegin, Start
<1>2. ASSUME NEW h \in Handlers, NEW id \in UploadIDs, NEW c \in Chunks, WriteGet(h, id, c)
      PROVE  LeftBehind'
  BY <1>2 DEF WriteGet, Start
<1>3. ASSUME NEW h \in Handlers, NEW id \in UploadIDs, CompleteGet(h, id) PROVE LeftBehind'
  BY <1>3 DEF CompleteGet, Start
<1>4. ASSUME NEW h \in Handlers, NEW id \in UploadIDs, Abort(h, id) PROVE LeftBehind'
  BY <1>4 DEF Abort, Evict, Remaining, Evicted
<1>5. ASSUME NEW h \in Handlers, NEW r \in Roots, UpdateStorage(h, r) PROVE LeftBehind'
  BY <1>5 DEF UpdateStorage, Evict, EvictedByStorage, InitUnderWay, Remaining, Evicted
<1>6. ASSUME NEW h \in Handlers, InitCreate(h) PROVE LeftBehind'
  <2> USE <1>6 DEF InitCreate, Goto
  <2>1. (\A id \in orphans : upload[id].total # 0 /\ id \notin sessions)'
    OBVIOUS
  <2>2. (\A g \in Handlers : pc[g] \in ServingSteps => sid[g] \notin orphans)'
    OBVIOUS
  <2>3. (part \cap stored = {})'
    BY DEF InitAlone
  <2>4. (\A g \in Handlers : pc[g] \in FinalizeSteps \ {"forget"} => sid[g] \notin stored)'
    OBVIOUS
  <2> QED
    BY <2>1, <2>2, <2>3, <2>4
<1>7. ASSUME NEW h \in Handlers, InitCreateFails(h) PROVE LeftBehind'
  BY <1>7 DEF InitCreateFails, Discarded, Reply
<1>8. ASSUME NEW h \in Handlers, InitRegister(h) PROVE LeftBehind'
  BY <1>8 DEF InitRegister, Reply
<1>9. ASSUME NEW h \in Handlers, Claim(h) PROVE LeftBehind'
  BY <1>9 DEF Claim, Claimable, SetChunk, Goto
<1>10. ASSUME NEW h \in Handlers, ClaimDuplicate(h) PROVE LeftBehind'
  BY <1>10 DEF ClaimDuplicate, Reply
<1>11. ASSUME NEW h \in Handlers, ClaimRefused(h) PROVE LeftBehind'
  BY <1>11 DEF ClaimRefused, Reply
<1>12. ASSUME NEW h \in Handlers, Copy(h) PROVE LeftBehind'
  BY <1>12 DEF Copy, Contents, Goto
<1>13. ASSUME NEW h \in Handlers, CopyFails(h) PROVE LeftBehind'
  BY <1>13 DEF CopyFails, Contents, Goto
<1>14. ASSUME NEW h \in Handlers, Mark(h) PROVE LeftBehind'
  BY <1>14 DEF Mark, SetChunk, Reply
<1>15. ASSUME NEW h \in Handlers, Unmark(h) PROVE LeftBehind'
  BY <1>15 DEF Unmark, SetChunk, AfterFailure, Reply
<1>16. ASSUME NEW h \in Handlers, Seal(h) PROVE LeftBehind'
  <2> USE <1>16 DEF Seal, Sealable, Goto, AllReceived
  <2>1. (\A id \in orphans : upload[id].total # 0 /\ id \notin sessions)'
    OBVIOUS
  <2>2. (\A g \in Handlers : pc[g] \in ServingSteps => sid[g] \notin orphans)'
    OBVIOUS
  <2>3. (part \cap stored = {})'
    OBVIOUS
  <2>4. (\A g \in Handlers : pc[g] \in FinalizeSteps \ {"forget"} => sid[g] \notin stored)'
    BY DEF StoredSettled
  <2> QED
    BY <2>1, <2>2, <2>3, <2>4
<1>17. ASSUME NEW h \in Handlers, SealedAlready(h) PROVE LeftBehind'
  BY <1>17 DEF SealedAlready, Reply
<1>18. ASSUME NEW h \in Handlers, SealIncomplete(h) PROVE LeftBehind'
  BY <1>18 DEF SealIncomplete, AllReceived, Reply
<1>19. ASSUME NEW h \in Handlers, Sync(h) PROVE LeftBehind'
  BY <1>19 DEF Sync, Synced, Goto
<1>20. ASSUME NEW h \in Handlers, SyncFails(h) PROVE LeftBehind'
  BY <1>20 DEF SyncFails, Reply
<1>21. ASSUME NEW h \in Handlers, Close(h) PROVE LeftBehind'
  BY <1>21 DEF Close, Goto
<1>22. ASSUME NEW h \in Handlers, CloseFails(h) PROVE LeftBehind'
  BY <1>22 DEF CloseFails, Reply
<1>23. ASSUME NEW h \in Handlers, Rename(h) PROVE LeftBehind'
  <2> USE <1>23 DEF Rename, RenameStep, Stand, Goto
  <2>1. (\A id \in orphans : upload[id].total # 0 /\ id \notin sessions)'
    OBVIOUS
  <2>2. (\A g \in Handlers : pc[g] \in ServingSteps => sid[g] \notin orphans)'
    OBVIOUS
  <2>3. (part \cap stored = {})'
    OBVIOUS
  <2>4. (\A g \in Handlers : pc[g] \in FinalizeSteps \ {"forget"} => sid[g] \notin stored)'
    BY DEF OneFinalizer
  <2> QED
    BY <2>1, <2>2, <2>3, <2>4
<1>24. ASSUME NEW h \in Handlers, RenameFails(h) PROVE LeftBehind'
  BY <1>24 DEF RenameFails, CannotRename, Goto
<1>25. ASSUME NEW h \in Handlers, Displace(h) PROVE LeftBehind'
  BY <1>25 DEF Displace, Stand, Goto
<1>26. ASSUME NEW h \in Handlers, DisplaceFails(h) PROVE LeftBehind'
  BY <1>26 DEF DisplaceFails, Reply
<1>27. ASSUME NEW h \in Handlers, RenameAgain(h) PROVE LeftBehind'
  <2> USE <1>27 DEF RenameAgain, RenameStep, Stand, Goto
  <2>1. (\A id \in orphans : upload[id].total # 0 /\ id \notin sessions)'
    OBVIOUS
  <2>2. (\A g \in Handlers : pc[g] \in ServingSteps => sid[g] \notin orphans)'
    OBVIOUS
  <2>3. (part \cap stored = {})'
    OBVIOUS
  <2>4. (\A g \in Handlers : pc[g] \in FinalizeSteps \ {"forget"} => sid[g] \notin stored)'
    BY DEF OneFinalizer
  <2> QED
    BY <2>1, <2>2, <2>3, <2>4
<1>28. ASSUME NEW h \in Handlers, RenameAgainFails(h) PROVE LeftBehind'
  BY <1>28 DEF RenameAgainFails, CannotRename, Reply
<1>29. ASSUME NEW h \in Handlers, Forget(h) PROVE LeftBehind'
  BY <1>29 DEF Forget, Reply
<1>30. ASSUME NEW p \in Procs, NEW id \in UploadIDs, CleanupClose(p, id) PROVE LeftBehind'
  BY <1>30 DEF CleanupClose
<1>31. ASSUME NEW p \in Procs, CleanupUnlink(p) PROVE LeftBehind'
  BY <1>31 DEF CleanupUnlink, Unlinked
<1>32. ASSUME NEW p \in Procs, CleanupDone(p) PROVE LeftBehind'
  BY <1>32 DEF CleanupDone, Goto, AfterCleanup
<1>33. CASE Expire
  BY <1>33 DEF Expire, Evict, Remaining, Evicted
<1>34. CASE JanitorExit
  BY <1>34 DEF JanitorExit, Goto
<1>35. CASE CloseSignal
  BY <1>35 DEF CloseSignal, Goto
<1>36. CASE CloseGrab
  BY <1>36 DEF CloseGrab, Evict, Remaining, Evicted
<1>37. CASE Shutdown
  BY <1>37 DEF Shutdown, Goto
<1>38. ASSUME NEW id \in UploadIDs, Age(id) PROVE LeftBehind'
  BY <1>38 DEF Age
<1>39. CASE ProcessStops
  <2> USE <1>39 DEF ProcessStops, Restart, Blank
  <2>1. (\A id \in orphans : upload[id].total # 0 /\ id \notin sessions)'
    BY DEF PartAccounted
  <2>2. (\A g \in Handlers : pc[g] \in ServingSteps => sid[g] \notin orphans)'
    OBVIOUS
  <2>3. (part \cap stored = {})'
    OBVIOUS
  <2>4. (\A g \in Handlers : pc[g] \in FinalizeSteps \ {"forget"} => sid[g] \notin stored)'
    OBVIOUS
  <2> QED
    BY <2>1, <2>2, <2>3, <2>4
<1>40. CASE PowerFails
  <2> USE <1>40 DEF PowerFails, Restart, Blank
  <2>1. (\A id \in orphans : upload[id].total # 0 /\ id \notin sessions)'
    BY DEF PartAccounted
  <2>2. (\A g \in Handlers : pc[g] \in ServingSteps => sid[g] \notin orphans)'
    OBVIOUS
  <2>3. (part \cap stored = {})'
    OBVIOUS
  <2>4. (\A g \in Handlers : pc[g] \in FinalizeSteps \ {"forget"} => sid[g] \notin stored)'
    OBVIOUS
  <2> QED
    BY <2>1, <2>2, <2>3, <2>4
<1>41. CASE UNCHANGED vars
  BY <1>41
<1> QED
  BY <1>1, <1>2, <1>3, <1>4, <1>5, <1>6, <1>7, <1>8, <1>9, <1>10, <1>11, <1>12,
     <1>13, <1>14, <1>15, <1>16, <1>17, <1>18, <1>19, <1>20, <1>21, <1>22,
     <1>23, <1>24, <1>25, <1>26, <1>27, <1>28, <1>29, <1>30, <1>31, <1>32,
     <1>33, <1>34, <1>35, <1>36, <1>37, <1>38, <1>39, <1>40, <1>41
     DEF Next, Request, Handle, Cleanup, JanitorStep, MainStep, Exited

\* A chunk is full from its Copy on, and is pending before its Claim only.
LEMMA NextNotFull ==
  ASSUME TypeOK, UndrawnUnknown, InitAlone, ServingSession, WriterClaims, Sized, NotFullYet, [Next]_vars
  PROVE  NotFullYet'
<1> USE HandlersAreProcs, OthersAreProcs
    DEF NotFullYet, TypeOK, GoroutinesOK, ServingSession, ServingSteps, InitSteps, WriteSteps,
        FinalizeSteps, CleanupSteps
<1>1. ASSUME NEW h \in Handlers, NEW id \in UploadIDs, NEW n \in Names,
            NEW k \in 1 .. MaxChunks, InitBegin(h, id, n, k)
      PROVE  NotFullYet'
  <2> USE <1>1 DEF InitBegin, Start
  <2>1. (\A u \in UploadIDs, c \in Chunks :
           /\ chunkState[u][c] = "pending"
           /\ u \in sessions \/ \E g \in Handlers : pc[g] \in ServingSteps /\ sid[g] = u
           => data[u][c] # "full")'
    BY DEF Sized, Chunks
  <2>2. (\A g \in Handlers : pc[g] \in {"copy", "unmark"} => data[sid[g]][idx[g]] # "full")'
    OBVIOUS
  <2> QED
    BY <2>1, <2>2
<1>2. ASSUME NEW h \in Handlers, NEW id \in UploadIDs, NEW c \in Chunks, WriteGet(h, id, c)
      PROVE  NotFullYet'
  BY <1>2 DEF WriteGet, Start
<1>3. ASSUME NEW h \in Handlers, NEW id \in UploadIDs, CompleteGet(h, id) PROVE NotFullYet'
  BY <1>3 DEF CompleteGet, Start
<1>4. ASSUME NEW h \in Handlers, NEW id \in UploadIDs, Abort(h, id) PROVE NotFullYet'
  BY <1>4 DEF Abort, Evict, Remaining, Evicted
<1>5. ASSUME NEW h \in Handlers, NEW r \in Roots, UpdateStorage(h, r) PROVE NotFullYet'
  BY <1>5 DEF UpdateStorage, Evict, EvictedByStorage, InitUnderWay, Remaining, Evicted
<1>6. ASSUME NEW h \in Handlers, InitCreate(h) PROVE NotFullYet'
  BY <1>6 DEF InitCreate, Goto
<1>7. ASSUME NEW h \in Handlers, InitCreateFails(h) PROVE NotFullYet'
  BY <1>7 DEF InitCreateFails, Discarded, Reply
<1>8. ASSUME NEW h \in Handlers, InitRegister(h) PROVE NotFullYet'
  BY <1>8 DEF InitRegister, Reply
<1>9. ASSUME NEW h \in Handlers, Claim(h) PROVE NotFullYet'
  BY <1>9 DEF Claim, Claimable, SetChunk, Goto
<1>10. ASSUME NEW h \in Handlers, ClaimDuplicate(h) PROVE NotFullYet'
  BY <1>10 DEF ClaimDuplicate, Reply
<1>11. ASSUME NEW h \in Handlers, ClaimRefused(h) PROVE NotFullYet'
  BY <1>11 DEF ClaimRefused, Reply
<1>12. ASSUME NEW h \in Handlers, Copy(h) PROVE NotFullYet'
  <2> USE <1>12 DEF Copy, Contents, Goto
  <2>1. (\A u \in UploadIDs, c \in Chunks :
           /\ chunkState[u][c] = "pending"
           /\ u \in sessions \/ \E g \in Handlers : pc[g] \in ServingSteps /\ sid[g] = u
           => data[u][c] # "full")'
    BY DEF WriterClaims
  <2>2. (\A g \in Handlers : pc[g] \in {"copy", "unmark"} => data[sid[g]][idx[g]] # "full")'
    BY DEF WriterClaims
  <2> QED
    BY <2>1, <2>2
<1>13. ASSUME NEW h \in Handlers, CopyFails(h) PROVE NotFullYet'
  <2>0. \A u \in UploadIDs, c \in Chunks : data'[u][c] = "full" => data[u][c] = "full"
    <3>1. CASE data' = [data EXCEPT ![sid[h]][idx[h]] = "torn"]
      BY <3>1
    <3>2. CASE data' = data
      BY <3>2
    <3> QED
      BY <1>13, <3>1, <3>2 DEF CopyFails, Contents
  <2> USE <1>13 DEF CopyFails, Goto
  <2>1. (\A u \in UploadIDs, c \in Chunks :
           /\ chunkState[u][c] = "pending"
           /\ u \in sessions \/ \E g \in Handlers : pc[g] \in ServingSteps /\ sid[g] = u
           => data[u][c] # "full")'
    BY <2>0
  <2>2. (\A g \in Handlers : pc[g] \in {"copy", "unmark"} => data[sid[g]][idx[g]] # "full")'
    BY DEF WriterClaims, Contents
  <2> QED
    BY <2>1, <2>2
<1>14. ASSUME NEW h \in Handlers, Mark(h) PROVE NotFullYet'
  BY <1>14 DEF Mark, SetChunk, Reply
<1>15. ASSUME NEW h \in Handlers, Unmark(h) PROVE NotFullYet'
  BY <1>15 DEF Unmark, SetChunk, AfterFailure, Reply
<1>16. ASSUME NEW h \in Handlers, Seal(h) PROVE NotFullYet'
  BY <1>16 DEF Seal, Sealable, Goto, AllReceived
<1>17. ASSUME NEW h \in Handlers, SealedAlready(h) PROVE NotFullYet'
  BY <1>17 DEF SealedAlready, Reply
<1>18. ASSUME NEW h \in Handlers, SealIncomplete(h) PROVE NotFullYet'
  BY <1>18 DEF SealIncomplete, AllReceived, Reply
<1>19. ASSUME NEW h \in Handlers, Sync(h) PROVE NotFullYet'
  BY <1>19 DEF Sync, Synced, Goto
<1>20. ASSUME NEW h \in Handlers, SyncFails(h) PROVE NotFullYet'
  BY <1>20 DEF SyncFails, Reply
<1>21. ASSUME NEW h \in Handlers, Close(h) PROVE NotFullYet'
  BY <1>21 DEF Close, Goto
<1>22. ASSUME NEW h \in Handlers, CloseFails(h) PROVE NotFullYet'
  BY <1>22 DEF CloseFails, Reply
<1>23. ASSUME NEW h \in Handlers, Rename(h) PROVE NotFullYet'
  BY <1>23 DEF Rename, RenameStep, Stand, Goto
<1>24. ASSUME NEW h \in Handlers, RenameFails(h) PROVE NotFullYet'
  BY <1>24 DEF RenameFails, CannotRename, Goto
<1>25. ASSUME NEW h \in Handlers, Displace(h) PROVE NotFullYet'
  BY <1>25 DEF Displace, Stand, Goto
<1>26. ASSUME NEW h \in Handlers, DisplaceFails(h) PROVE NotFullYet'
  BY <1>26 DEF DisplaceFails, Reply
<1>27. ASSUME NEW h \in Handlers, RenameAgain(h) PROVE NotFullYet'
  BY <1>27 DEF RenameAgain, RenameStep, Stand, Goto
<1>28. ASSUME NEW h \in Handlers, RenameAgainFails(h) PROVE NotFullYet'
  BY <1>28 DEF RenameAgainFails, CannotRename, Reply
<1>29. ASSUME NEW h \in Handlers, Forget(h) PROVE NotFullYet'
  BY <1>29 DEF Forget, Reply
<1>30. ASSUME NEW p \in Procs, NEW id \in UploadIDs, CleanupClose(p, id) PROVE NotFullYet'
  BY <1>30 DEF CleanupClose
<1>31. ASSUME NEW p \in Procs, CleanupUnlink(p) PROVE NotFullYet'
  BY <1>31 DEF CleanupUnlink, Unlinked
<1>32. ASSUME NEW p \in Procs, CleanupDone(p) PROVE NotFullYet'
  BY <1>32 DEF CleanupDone, Goto, AfterCleanup
<1>33. CASE Expire
  BY <1>33 DEF Expire, Evict, Remaining, Evicted
<1>34. CASE JanitorExit
  BY <1>34 DEF JanitorExit, Goto
<1>35. CASE CloseSignal
  BY <1>35 DEF CloseSignal, Goto
<1>36. CASE CloseGrab
  BY <1>36 DEF CloseGrab, Evict, Remaining, Evicted
<1>37. CASE Shutdown
  BY <1>37 DEF Shutdown, Goto
<1>38. ASSUME NEW id \in UploadIDs, Age(id) PROVE NotFullYet'
  BY <1>38 DEF Age
<1>39. CASE ProcessStops
  BY <1>39 DEF ProcessStops, Restart, Blank
<1>40. CASE PowerFails
  BY <1>40 DEF PowerFails, Restart, Blank
<1>41. CASE UNCHANGED vars
  BY <1>41
<1> QED
  BY <1>1, <1>2, <1>3, <1>4, <1>5, <1>6, <1>7, <1>8, <1>9, <1>10, <1>11, <1>12,
     <1>13, <1>14, <1>15, <1>16, <1>17, <1>18, <1>19, <1>20, <1>21, <1>22,
     <1>23, <1>24, <1>25, <1>26, <1>27, <1>28, <1>29, <1>30, <1>31, <1>32,
     <1>33, <1>34, <1>35, <1>36, <1>37, <1>38, <1>39, <1>40, <1>41
     DEF Next, Request, Handle, Cleanup, JanitorStep, MainStep, Exited

-----------------------------------------------------------------------------
(* Steps as somebody sees them who looks at the shared folders.            *)

FolderStep == [Folder!FolderNext]_(Folder!folderVars)

\* Phases and gathered chunks are the same: nothing is to be seen.
LEMMA NothingSeen ==
  ASSUME upload' = upload, dest' = dest,
         \A id \in UploadIDs : Phase(id)' = Phase(id) /\ Got(id)' = Got(id)
  PROVE  FolderStep
  BY DEF FolderStep, Folder!folderVars, Place, Needed

\* So it is where neither files nor Inits change.
LEMMA FilesKept ==
  ASSUME upload' = upload, stored' = stored, part' = part, orphans' = orphans,
         data' = data, dest' = dest, \A id \in UploadIDs : Opening(id)' <=> Opening(id)
  PROVE  FolderStep
<1>1. \A id \in UploadIDs : Phase(id)' = Phase(id)
  BY DEF Phase
<1>2. \A id \in UploadIDs : Got(id)' = Got(id)
  BY <1>1 DEF Got
<1> QED
  BY <1>1, <1>2, NothingSeen

\* What happens to a final name happens at the place of the upload.
LEMMA StandSeen ==
  ASSUME TypeOK, NEW id \in UploadIDs, Place(id) \in Places, NEW file, Stand(id, file)
  PROVE  [p \in Places |-> dest[p.dir][p.name]]'
           = [[p \in Places |-> dest[p.dir][p.name]] EXCEPT ![Place(id)] = file]
<1>1. upload[id].dir \in Roots /\ upload[id].name \in Names
  BY DEF Place, Places
<1>2. ASSUME NEW p \in Places
      PROVE  dest'[p.dir][p.name] = IF p = Place(id) THEN file ELSE dest[p.dir][p.name]
  <2>1. p.dir \in Roots /\ p.name \in Names
        /\ (p = Place(id) <=> p.dir = upload[id].dir /\ p.name = upload[id].name)
    BY DEF Place, Places
  <2> QED
    BY <1>1, <2>1 DEF Stand, TypeOK
<1> QED
  BY <1>2

\* An upload with nothing missing takes its place.
LEMMA FileStored ==
  ASSUME TypeOK, upload' = upload, NEW id \in UploadIDs, Place(id) \in Places, Stand(id, id),
         Phase(id) = "partial", Phase(id)' = "stored",
         Got(id) = Needed(id), \A u \in UploadIDs : Got(u)' = Got(u),
         \A u \in UploadIDs \ {id} : Phase(u)' = Phase(u)
  PROVE  FolderStep
<1>1. \A u \in UploadIDs : Place(u)' = Place(u) /\ Needed(u)' = Needed(u)
  BY DEF Place, Needed
<1>2. [p \in Places |-> dest[p.dir][p.name]]'
        = [[p \in Places |-> dest[p.dir][p.name]] EXCEPT ![Place(id)] = id]
  BY StandSeen
<1>3. /\ [u \in UploadIDs |-> Phase(u)]' = [[u \in UploadIDs |-> Phase(u)] EXCEPT ![id] = "stored"]
      /\ [u \in UploadIDs |-> Got(u)]' = [u \in UploadIDs |-> Got(u)]
      /\ [u \in UploadIDs |-> Place(u)]' = [u \in UploadIDs |-> Place(u)]
      /\ [u \in UploadIDs |-> Needed(u)]' = [u \in UploadIDs |-> Needed(u)]
  BY <1>1
<1>4. Folder!Store(id)
  BY <1>2, <1>3 DEF Folder!Store
<1> QED
  BY <1>4 DEF FolderStep, Folder!FolderNext

\* An upload that is not stored vacates the place it is meant for.
LEMMA PlaceVacated ==
  ASSUME TypeOK, upload' = upload, NEW id \in UploadIDs, Place(id) \in Places, Stand(id, NoFile),
         Phase(id) \in {"partial", "gone"},
         \A u \in UploadIDs : Phase(u)' = Phase(u) /\ Got(u)' = Got(u)
  PROVE  FolderStep
<1>1. \A u \in UploadIDs : Place(u)' = Place(u) /\ Needed(u)' = Needed(u)
  BY DEF Place, Needed
<1>2. [p \in Places |-> dest[p.dir][p.name]]'
        = [[p \in Places |-> dest[p.dir][p.name]] EXCEPT ![Place(id)] = NoFile]
  BY StandSeen
<1>3. Folder!Vacate(id)
  BY <1>1, <1>2 DEF Folder!Vacate
<1> QED
  BY <1>3 DEF FolderStep, Folder!FolderNext

\* Partial uploads that are gone after the step have been dropped.
LEMMA UploadsDropped ==
  ASSUME upload' = upload, dest' = dest,
         NEW us \in SUBSET UploadIDs,
         \A id \in us : Phase(id) = "partial" /\ Phase(id)' = "gone",
         \A id \in UploadIDs \ us : Phase(id)' = Phase(id) /\ Got(id)' = Got(id)
  PROVE  FolderStep
<1>1. CASE us = {}
  BY <1>1, NothingSeen
<1>2. CASE us # {}
  <2>1. \A id \in us : Got(id)' = {}
    BY DEF Got
  <2>2. Folder!Drop(us)
    BY <1>2, <2>1 DEF Folder!Drop, Place, Needed
  <2> QED
    BY <2>2 DEF FolderStep, Folder!FolderNext
<1> QED
  BY <1>1, <1>2

\* Every step of the server is a step of the shared folders, or none.
LEMMA NextFolderStep ==
  ASSUME SessionInv, FolderInv, [Next]_vars
  PROVE  FolderStep
<1>0. /\ TypeOK /\ GoroutinesOK /\ UndrawnUnknown /\ InitAlone /\ ServingSession
      /\ WriterClaims /\ CompleteChunksFull /\ SealedQuiet /\ FinalizerSealed
      /\ StoredSettled /\ VictimsOffMap /\ Sized /\ LeftBehind /\ NotFullYet
  BY DEF SessionInv, IndInv, TypeOK, Protocol, Records, FolderInv
<1> USE <1>0, HandlersAreProcs, OthersAreProcs DEF TypeOK, GoroutinesOK, Opening, InitSteps
<1>1. ASSUME NEW h \in Handlers, NEW id \in UploadIDs, NEW n \in Names,
            NEW k \in 1 .. MaxChunks, InitBegin(h, id, n, k)
      PROVE  FolderStep
  <2> DEFINE place == [dir |-> root, name |-> n]  cs == {c \in Chunks : c < k}
  <2> USE <1>1 DEF InitBegin, Start
  <2>1. cs # {} /\ cs \in SUBSET Chunks /\ place \in Places
    BY ZeroChunk DEF Places
  <2>2. Phase(id) = "new" /\ Got(id) = {}
    BY DEF Phase, Got
  <2>3. Phase(id)' = "partial"
    BY DEF Phase, UndrawnUnknown
  <2>4. Place(id)' = place /\ Needed(id)' = cs /\ Got(id)' = {}
    <3>1. \A c \in Chunks : data'[id][c] # "full"
      BY DEF Sized, Chunks
    <3>2. upload'[id] = [name |-> n, dir |-> root, total |-> k]
      OBVIOUS
    <3> QED
      BY <3>1, <3>2 DEF Place, Needed, Got
  <2>5. ASSUME NEW u \in UploadIDs, u # id
        PROVE  /\ Phase(u)' = Phase(u) /\ Got(u)' = Got(u)
               /\ Place(u)' = Place(u) /\ Needed(u)' = Needed(u)
    <3>1. Opening(u)' <=> Opening(u)
      BY <2>5
    <3>2. Phase(u)' = Phase(u)
      BY <2>5, <3>1 DEF Phase
    <3> QED
      BY <2>5, <3>2 DEF Got, Place, Needed
  <2>6. Folder!Open(id, place, cs)
    BY <2>1, <2>2, <2>3, <2>4, <2>5 DEF Folder!Open
  <2> QED
    BY <2>1, <2>6 DEF FolderStep, Folder!FolderNext
<1>2. ASSUME NEW h \in Handlers, NEW id \in UploadIDs, NEW c \in Chunks, WriteGet(h, id, c)
      PROVE  FolderStep
  BY <1>2, FilesKept DEF WriteGet, Start
<1>3. ASSUME NEW h \in Handlers, NEW id \in UploadIDs, CompleteGet(h, id) PROVE FolderStep
  BY <1>3, FilesKept DEF CompleteGet, Start
<1>4. ASSUME NEW h \in Handlers, NEW id \in UploadIDs, Abort(h, id) PROVE FolderStep
  BY <1>4, FilesKept DEF Abort, Evict, Remaining, Evicted
<1>5. ASSUME NEW h \in Handlers, NEW r \in Roots, UpdateStorage(h, r) PROVE FolderStep
  BY <1>5, FilesKept DEF UpdateStorage, Evict, EvictedByStorage, InitUnderWay, Remaining, Evicted
<1>6. ASSUME NEW h \in Handlers, InitCreate(h) PROVE FolderStep
  <2> USE <1>6 DEF InitCreate, Goto
  <2>0. PICK id \in UploadIDs : id = sid[h]
    BY DEF ServingSession, ServingSteps, FinalizeSteps
  <2> USE <2>0
  <2>1. upload[id].total # 0 /\ id \notin orphans \cup stored
    BY DEF ServingSession, ServingSteps, UndrawnUnknown, InitAlone, LeftBehind
  <2>2. ASSUME NEW u \in UploadIDs, u # id PROVE Phase(u)' = Phase(u) /\ Got(u)' = Got(u)
    <3>1. Opening(u)' <=> Opening(u)
      BY <2>2
    <3>2. Phase(u)' = Phase(u)
      BY <2>2, <3>1 DEF Phase
    <3> QED
      BY <2>2, <3>2 DEF Got
  <2>3. Phase(id) = "partial" /\ Phase(id)' = "partial"
    BY <2>1 DEF Phase
  <2>4. Got(id)' = Got(id)
    BY <2>3 DEF Got
  <2> QED
    BY <2>2, <2>3, <2>4, NothingSeen
<1>7. ASSUME NEW h \in Handlers, InitCreateFails(h) PROVE FolderStep
  <2> USE <1>7 DEF InitCreateFails, Discarded, Reply
  <2>0. PICK id \in UploadIDs : id = sid[h]
    BY DEF ServingSession, ServingSteps, FinalizeSteps
  <2> USE <2>0
  <2>1. upload[id].total # 0 /\ id \notin orphans \cup stored
    BY DEF ServingSession, ServingSteps, UndrawnUnknown, InitAlone, LeftBehind
  <2>2. ASSUME NEW u \in UploadIDs, u # id PROVE Phase(u)' = Phase(u) /\ Got(u)' = Got(u)
    <3>1. Opening(u)' <=> Opening(u)
      BY <2>2
    <3>2. Phase(u)' = Phase(u)
      BY <2>2, <3>1 DEF Phase
    <3> QED
      BY <2>2, <3>2 DEF Got
  <2>3. ~Opening(id)'
    BY DEF InitAlone, ServingSteps
  <2>4. Phase(id) = "partial" /\ Phase(id)' = "gone"
    BY <2>1, <2>3 DEF Phase
  <2> DEFINE us == {u \in UploadIDs : u = id}
  <2>5. \A u \in us : Phase(u) = "partial" /\ Phase(u)' = "gone"
    BY <2>4
  <2>6. \A u \in UploadIDs \ us : Phase(u)' = Phase(u) /\ Got(u)' = Got(u)
    BY <2>2
  <2>7. us \in SUBSET UploadIDs /\ upload' = upload /\ dest' = dest
    OBVIOUS
  <2> HIDE DEF us
  <2> QED
    BY <2>5, <2>6, <2>7, UploadsDropped
<1>8. ASSUME NEW h \in Handlers, InitRegister(h) PROVE FolderStep
  BY <1>8, FilesKept DEF InitRegister, Reply
<1>9. ASSUME NEW h \in Handlers, Claim(h) PROVE FolderStep
  BY <1>9, FilesKept DEF Claim, Claimable, SetChunk, Goto
<1>10. ASSUME NEW h \in Handlers, ClaimDuplicate(h) PROVE FolderStep
  BY <1>10, FilesKept DEF ClaimDuplicate, Reply
<1>11. ASSUME NEW h \in Handlers, ClaimRefused(h) PROVE FolderStep
  BY <1>11, FilesKept DEF ClaimRefused, Reply
<1>12. ASSUME NEW h \in Handlers, Copy(h) PROVE FolderStep
  <2> USE <1>12 DEF Copy, Contents, Goto
  <2>0. PICK id \in UploadIDs, c \in Chunks : id = sid[h] /\ c = idx[h]
    BY DEF ServingSession, ServingSteps, WriteSteps
  <2> USE <2>0
  <2>1. c \in Needed(id) /\ data[id][c] # "full"
    BY DEF ServingSession, ServingSteps, WriterClaims, WriteSteps, Needed, NotFullYet
  <2>2. \A u \in UploadIDs : Phase(u)' = Phase(u)
    BY DEF Phase
  <2>3. \A u \in UploadIDs \ {id} : Got(u)' = Got(u)
    BY <2>2 DEF Got
  <2>4. Phase(id) # "stored"
    BY <2>1 DEF Phase, StoredSettled, Whole, Needed
  <2>5. CASE Phase(id) = "partial"
    <3>1. c \in Needed(id) \ Got(id) /\ Got(id)' = Got(id) \cup {c}
      BY <2>1, <2>2, <2>5 DEF Got
    <3>2. Folder!Receive(id, c)
      BY <2>1, <2>2, <2>3, <2>5, <3>1 DEF Folder!Receive, Place, Needed
    <3> QED
      BY <2>1, <3>2 DEF FolderStep, Folder!FolderNext
  <2>6. CASE Phase(id) # "partial"
    <3>1. Got(id)' = Got(id)
      BY <2>1, <2>2, <2>4, <2>6 DEF Got
    <3> QED
      BY <2>2, <2>3, <3>1, NothingSeen
  <2> QED
    BY <2>5, <2>6
<1>13. ASSUME NEW h \in Handlers, CopyFails(h) PROVE FolderStep
  <2> DEFINE id == sid[h]  c == idx[h]
  <2>1. id \in UploadIDs /\ c \in Chunks /\ data[id][c] # "full"
    BY <1>13 DEF CopyFails, ServingSession, ServingSteps, WriteSteps, NotFullYet
  <2>2. \A u \in UploadIDs, d \in Chunks : data'[u][d] = "full" <=> data[u][d] = "full"
    <3>1. CASE data' = [data EXCEPT ![id][c] = "torn"]
      BY <2>1, <3>1
    <3>2. CASE data' = data
      BY <3>2
    <3> QED
      BY <1>13, <3>1, <3>2 DEF CopyFails, Contents
  <2>3. \A u \in UploadIDs : Phase(u)' = Phase(u)
    BY <1>13 DEF CopyFails, Goto, Phase
  <2>4. \A u \in UploadIDs : Got(u)' = Got(u)
    BY <2>2, <2>3 DEF Got
  <2> QED
    BY <1>13, <2>3, <2>4, NothingSeen DEF CopyFails
<1>14. ASSUME NEW h \in Handlers, Mark(h) PROVE FolderStep
  BY <1>14, FilesKept DEF Mark, SetChunk, Reply
<1>15. ASSUME NEW h \in Handlers, Unmark(h) PROVE FolderStep
  BY <1>15, FilesKept DEF Unmark, SetChunk, AfterFailure, Reply
<1>16. ASSUME NEW h \in Handlers, Seal(h) PROVE FolderStep
  BY <1>16, FilesKept DEF Seal, Sealable, Goto, AllReceived
<1>17. ASSUME NEW h \in Handlers, SealedAlready(h) PROVE FolderStep
  BY <1>17, FilesKept DEF SealedAlready, Reply
<1>18. ASSUME NEW h \in Handlers, SealIncomplete(h) PROVE FolderStep
  BY <1>18, FilesKept DEF SealIncomplete, AllReceived, Reply
<1>19. ASSUME NEW h \in Handlers, Sync(h) PROVE FolderStep
  BY <1>19, FilesKept DEF Sync, Synced, Goto
<1>20. ASSUME NEW h \in Handlers, SyncFails(h) PROVE FolderStep
  BY <1>20, FilesKept DEF SyncFails, Reply
<1>21. ASSUME NEW h \in Handlers, Close(h) PROVE FolderStep
  BY <1>21, FilesKept DEF Close, Goto
<1>22. ASSUME NEW h \in Handlers, CloseFails(h) PROVE FolderStep
  BY <1>22, FilesKept DEF CloseFails, Reply
<1>23. ASSUME NEW h \in Handlers, Rename(h) PROVE FolderStep
  <2> USE <1>23 DEF Rename, RenameStep, Goto
  <2>0. PICK id \in UploadIDs : id = sid[h]
    BY DEF ServingSession, ServingSteps, FinalizeSteps
  <2> USE <2>0
  <2>1. /\ upload[id].total # 0 /\ id \notin orphans \cup stored
        /\ completed[id]
    BY DEF ServingSession, ServingSteps, UndrawnUnknown, LeftBehind, FinalizeSteps, FinalizerSealed
  <2>2. \A u \in UploadIDs : Opening(u)' <=> Opening(u)
    OBVIOUS
  <2>3. ASSUME NEW u \in UploadIDs, u # id PROVE Phase(u)' = Phase(u) /\ Got(u)' = Got(u)
    <3>1. Phase(u)' = Phase(u)
      BY <2>2, <2>3 DEF Phase
    <3> QED
      BY <2>3, <3>1 DEF Got
  <2>4. Phase(id) = "partial" /\ Phase(id)' = "stored"
    BY <2>1 DEF Phase
  <2>5. Got(id) = Needed(id)
    BY <2>1, <2>4 DEF Got, Needed, Sized, SealedQuiet, CompleteChunksFull
  <2>6. Got(id)' = Got(id)
    BY <2>4 DEF Got
  <2>7. Place(id) \in Places /\ Stand(id, id)
    BY <2>1 DEF Sized
  <2> QED
    BY <2>3, <2>4, <2>5, <2>6, <2>7, FileStored
<1>24. ASSUME NEW h \in Handlers, RenameFails(h) PROVE FolderStep
  BY <1>24, FilesKept DEF RenameFails, CannotRename, Goto
<1>25. ASSUME NEW h \in Handlers, Displace(h) PROVE FolderStep
  <2> USE <1>25 DEF Displace, Goto
  <2>0. PICK id \in UploadIDs : id = sid[h]
    BY DEF ServingSession, ServingSteps, FinalizeSteps
  <2> USE <2>0
  <2>1. upload[id].total # 0 /\ id \notin stored
    BY DEF ServingSession, ServingSteps, UndrawnUnknown, LeftBehind, FinalizeSteps
  <2>2. Phase(id) \in {"partial", "gone"}
    BY <2>1 DEF Phase
  <2>3. \A u \in UploadIDs : Phase(u)' = Phase(u)
    BY DEF Phase, Opening
  <2>4. \A u \in UploadIDs : Got(u)' = Got(u)
    BY <2>3 DEF Got
  <2>5. Place(id) \in Places /\ Stand(id, NoFile)
    BY <2>1 DEF Sized
  <2> QED
    BY <2>2, <2>3, <2>4, <2>5, PlaceVacated
<1>26. ASSUME NEW h \in Handlers, DisplaceFails(h) PROVE FolderStep
  BY <1>26, FilesKept DEF DisplaceFails, Reply
<1>27. ASSUME NEW h \in Handlers, RenameAgain(h) PROVE FolderStep
  <2> USE <1>27 DEF RenameAgain, RenameStep, Goto
  <2>0. PICK id \in UploadIDs : id = sid[h]
    BY DEF ServingSession, ServingSteps, FinalizeSteps
  <2> USE <2>0
  <2>1. /\ upload[id].total # 0 /\ id \notin orphans \cup stored
        /\ completed[id]
    BY DEF ServingSession, ServingSteps, UndrawnUnknown, LeftBehind, FinalizeSteps, FinalizerSealed
  <2>2. \A u \in UploadIDs : Opening(u)' <=> Opening(u)
    OBVIOUS
  <2>3. ASSUME NEW u \in UploadIDs, u # id PROVE Phase(u)' = Phase(u) /\ Got(u)' = Got(u)
    <3>1. Phase(u)' = Phase(u)
      BY <2>2, <2>3 DEF Phase
    <3> QED
      BY <2>3, <3>1 DEF Got
  <2>4. Phase(id) = "partial" /\ Phase(id)' = "stored"
    BY <2>1 DEF Phase
  <2>5. Got(id) = Needed(id)
    BY <2>1, <2>4 DEF Got, Needed, Sized, SealedQuiet, CompleteChunksFull
  <2>6. Got(id)' = Got(id)
    BY <2>4 DEF Got
  <2>7. Place(id) \in Places /\ Stand(id, id)
    BY <2>1 DEF Sized
  <2> QED
    BY <2>3, <2>4, <2>5, <2>6, <2>7, FileStored
<1>28. ASSUME NEW h \in Handlers, RenameAgainFails(h) PROVE FolderStep
  BY <1>28, FilesKept DEF RenameAgainFails, CannotRename, Reply
<1>29. ASSUME NEW h \in Handlers, Forget(h) PROVE FolderStep
  BY <1>29, FilesKept DEF Forget, Reply
<1>30. ASSUME NEW p \in Procs, NEW id \in UploadIDs, CleanupClose(p, id) PROVE FolderStep
  BY <1>30, FilesKept DEF CleanupClose
<1>31. ASSUME NEW p \in Procs, CleanupUnlink(p) PROVE FolderStep
  <2> USE <1>31 DEF CleanupUnlink, Unlinked
  <2>0. PICK id \in UploadIDs : id = sid[p]
    BY DEF VictimsOffMap
  <2> USE <2>0
  <2> DEFINE us == {u \in {id} : Phase(u) = "partial"}
  <2>1. id \in victims[p] /\ upload[id].total # 0
    BY DEF VictimsOffMap
  <2>2. \A u \in UploadIDs : Opening(u)' <=> Opening(u)
    OBVIOUS
  <2>3. ~Opening(id)'
    BY <2>1, <2>2 DEF VictimsOffMap, Opening
  <2>4. \A u \in us : Phase(u) = "partial" /\ Phase(u)' = "gone"
    BY <2>3 DEF Phase
  <2>5. ASSUME NEW u \in UploadIDs \ us PROVE Phase(u)' = Phase(u)
    BY <2>2, <2>3 DEF Phase
  <2>6. \A u \in UploadIDs \ us : Got(u)' = Got(u)
    BY <2>5 DEF Got
  <2> QED
    BY <2>1, <2>4, <2>5, <2>6, UploadsDropped
<1>32. ASSUME NEW p \in Procs, CleanupDone(p) PROVE FolderStep
  BY <1>32, FilesKept DEF CleanupDone, Goto, AfterCleanup
<1>33. CASE Expire
  BY <1>33, FilesKept DEF Expire, Evict, Remaining, Evicted
<1>34. CASE JanitorExit
  BY <1>34, FilesKept DEF JanitorExit, Goto
<1>35. CASE CloseSignal
  BY <1>35, FilesKept DEF CloseSignal, Goto
<1>36. CASE CloseGrab
  BY <1>36, FilesKept DEF CloseGrab, Evict, Remaining, Evicted
<1>37. CASE Shutdown
  BY <1>37, FilesKept DEF Shutdown, Goto
<1>38. ASSUME NEW id \in UploadIDs, Age(id) PROVE FolderStep
  BY <1>38, FilesKept DEF Age
<1>39. CASE ProcessStops
  <2> DEFINE us == {u \in UploadIDs : Phase(u) = "partial"}
  <2>1. \A u \in UploadIDs : ~Opening(u)'
    BY <1>39 DEF ProcessStops, Restart, Blank, Opening
  <2>2. \A u \in us : Phase(u) = "partial" /\ Phase(u)' = "gone"
    BY <1>39, <2>1 DEF ProcessStops, Restart, Blank, Phase
  <2>3. \A u \in UploadIDs \ us : Phase(u)' = Phase(u)
    BY <1>39, <2>1 DEF ProcessStops, Restart, Blank, Phase
  <2>4. ASSUME NEW u \in UploadIDs \ us PROVE Got(u)' = Got(u)
    <3>1. CASE Phase(u) = "stored"
      <4>1. u \in stored /\ u \in synced
        BY <3>1 DEF Phase, StoredSettled
      <4> QED
        BY <1>39, <2>3, <4>1 DEF ProcessStops, Restart, Blank, Got
    <3>2. CASE Phase(u) # "stored"
      BY <2>3, <3>2 DEF Got
    <3> QED
      BY <3>1, <3>2
  <2>5. upload' = upload /\ dest' = dest
    BY <1>39 DEF ProcessStops, Restart, Blank
  <2> QED
    BY <2>2, <2>3, <2>4, <2>5, UploadsDropped
<1>40. CASE PowerFails
  <2> DEFINE us == {u \in UploadIDs : Phase(u) = "partial"}
  <2>1. \A u \in UploadIDs : ~Opening(u)'
    BY <1>40 DEF PowerFails, Restart, Blank, Opening
  <2>2. \A u \in us : Phase(u) = "partial" /\ Phase(u)' = "gone"
    BY <1>40, <2>1 DEF PowerFails, Restart, Blank, Phase
  <2>3. \A u \in UploadIDs \ us : Phase(u)' = Phase(u)
    BY <1>40, <2>1 DEF PowerFails, Restart, Blank, Phase
  <2>4. ASSUME NEW u \in UploadIDs \ us PROVE Got(u)' = Got(u)
    <3>1. CASE Phase(u) = "stored"
      <4>1. u \in stored /\ u \in synced
        BY <3>1 DEF Phase, StoredSettled
      <4> QED
        BY <1>40, <2>3, <4>1 DEF PowerFails, Restart, Blank, Got
    <3>2. CASE Phase(u) # "stored"
      BY <2>3, <3>2 DEF Got
    <3> QED
      BY <3>1, <3>2
  <2>5. upload' = upload /\ dest' = dest
    BY <1>40 DEF PowerFails, Restart, Blank
  <2> QED
    BY <2>2, <2>3, <2>4, <2>5, UploadsDropped
<1>41. CASE UNCHANGED vars
  BY <1>41, FilesKept
<1> QED
  BY <1>1, <1>2, <1>3, <1>4, <1>5, <1>6, <1>7, <1>8, <1>9, <1>10, <1>11, <1>12,
     <1>13, <1>14, <1>15, <1>16, <1>17, <1>18, <1>19, <1>20, <1>21, <1>22,
     <1>23, <1>24, <1>25, <1>26, <1>27, <1>28, <1>29, <1>30, <1>31, <1>32,
     <1>33, <1>34, <1>35, <1>36, <1>37, <1>38, <1>39, <1>40, <1>41
     DEF Next, Request, Handle, Cleanup, JanitorStep, MainStep, Exited

-----------------------------------------------------------------------------
\* Before the first request nothing is known of any upload.
LEMMA InitFolder == Init => Folder!FolderInit /\ FolderInv
<1> SUFFICES ASSUME Init PROVE Folder!FolderInit /\ FolderInv
  OBVIOUS
<1>1. \A id \in UploadIDs : upload[id] = [name |-> NoFile, dir |-> NoFile, total |-> 0]
  BY DEF Init
<1>2. \A id \in UploadIDs : Phase(id) = "new" /\ Place(id) = [dir |-> NoFile, name |-> NoFile]
                             /\ Needed(id) = {} /\ Got(id) = {}
  BY <1>1 DEF Phase, Place, Needed, Got, Chunks
<1>3. [p \in Places |-> dest[p.dir][p.name]] \in [Places -> {NoFile, Older}]
  BY DEF Init, Places
<1>4. Folder!FolderInit
  BY <1>2, <1>3 DEF Folder!FolderInit
<1>5. Sized /\ NotFullYet
  <2>1. \A id \in UploadIDs, c \in Chunks : data[id][c] # "full"
    BY DEF Init, Blank
  <2>2. \A h \in Handlers : pc[h] = "idle"
    BY HandlersAreProcs DEF Init
  <2> QED
    BY <1>1, <2>1, <2>2 DEF Sized, NotFullYet
<1>6. LeftBehind
  BY HandlersAreProcs
     DEF Init, LeftBehind, FinalizeSteps, ServingSteps, InitSteps, WriteSteps
<1> QED
  BY <1>4, <1>5, <1>6 DEF FolderInv

\* UploadManager implements ShareFolder: a file appears in a shared folder in
\* one step, whole and under the name of its Init; uploads that ended stay
\* ended; and the file to be replaced is lost only by an upload that fails at
\* the very end (upload_sessions.go:128-469).
THEOREM UploadsImplementFolder == Spec => ImplementsShareFolder
<1>1. SessionInv /\ FolderInv /\ [Next]_vars => FolderInv'
  BY NextSized, NextLeftBehind, NextNotFull
     DEF FolderInv, SessionInv, IndInv, Protocol
<1>2. Spec => []FolderInv
  BY SessionInvHolds, InitFolder, <1>1, PTL DEF Spec
<1>3. SessionInv /\ FolderInv /\ [Next]_vars => [Folder!FolderNext]_(Folder!folderVars)
  BY NextFolderStep DEF FolderStep
<1> QED
  BY SessionInvHolds, InitFolder, <1>2, <1>3, PTL
     DEF Spec, ImplementsShareFolder, Folder!FolderSpec
=============================================================================

------------------------ MODULE UploadRecordsProofs ------------------------
(***************************************************************************)
(* What the table of sessions, the temporary files and the answers say of  *)
(* each other.  PartAccounted is inductive relative to IndInv: no          *)
(* temporary file of a running server is forgotten.  Records is inductive  *)
(* relative to both: from it follow that a chunk being written has one     *)
(* writer, that sessions are on the folder in force, that what is answered *)
(* "Uploaded" is whole, and that the file to be replaced is given up only  *)
(* after an eviction.                                                      *)
(***************************************************************************)
EXTENDS UploadManagerProofs

USE DEF vars, manager, session, disk, goroutine, history

-----------------------------------------------------------------------------
(* Temporary files.                                                        *)

\* Nothing has to be cleaned up before the first request.
LEMMA InitPartAccounted == Init => PartAccounted
  BY DEF Init, PartAccounted, NoOrphanPart

\* Every step of every goroutine, and every crash, keeps the files accounted for.
LEMMA NextPartAccounted == IndInv /\ PartAccounted /\ [Next]_vars => PartAccounted'
<1> SUFFICES ASSUME IndInv, PartAccounted, [Next]_vars PROVE PartAccounted'
  OBVIOUS
<1>0. /\ TypeOK /\ GoroutinesOK /\ UndrawnUnknown /\ InitAlone /\ ServingSession
      /\ FinalizerSealed
  BY DEF IndInv, Protocol, TypeOK
<1> USE <1>0, HandlersAreProcs, OthersAreProcs
    DEF PartAccounted, NoOrphanPart, TypeOK, GoroutinesOK, CleanupSteps,
        InitSteps
<1>1. ASSUME NEW h \in Handlers, NEW id \in UploadIDs, NEW n \in Names,
            NEW k \in 1 .. MaxChunks, InitBegin(h, id, n, k)
      PROVE  PartAccounted'
  <2> USE <1>1 DEF InitBegin, Start
  <2>1. NoOrphanPart'
    BY ZenonT(40) DEF ServingSession, ServingSteps
  <2>2. (\A u \in UploadIDs : upload[u].total = 0 => u \notin part)'
    OBVIOUS
  <2>3. (\A g \in Handlers : pc[g] \in {"init_create", "forget"} => sid[g] \notin part)'
    OBVIOUS
  <2>4. (\A q \in Procs : pc[q] \notin CleanupSteps => victims[q] = {})'
    OBVIOUS
  <2> QED
    BY <2>1, <2>2, <2>3, <2>4
<1>2. ASSUME NEW h \in Handlers, NEW id \in UploadIDs, NEW c \in Chunks, WriteGet(h, id, c)
      PROVE  PartAccounted'
  BY <1>2 DEF WriteGet, Start
<1>3. ASSUME NEW h \in Handlers, NEW id \in UploadIDs, CompleteGet(h, id)
      PROVE  PartAccounted'
  BY <1>3, ZenonT(40) DEF CompleteGet, Start
<1>4. ASSUME NEW h \in Handlers, NEW id \in UploadIDs, Abort(h, id)
      PROVE  PartAccounted'
  BY <1>4 DEF Abort, Evict, Remaining, Evicted
<1>5. ASSUME NEW h \in Handlers, NEW r \in Roots, UpdateStorage(h, r)
      PROVE  PartAccounted'
  BY <1>5 DEF UpdateStorage, Evict, Remaining, Evicted, EvictedByStorage
<1>6. ASSUME NEW h \in Handlers, InitCreate(h) PROVE PartAccounted'
  BY <1>6 DEF InitCreate, Goto,
         UndrawnUnknown, InitAlone, ServingSession, ServingSteps, FinalizeSteps
<1>7. ASSUME NEW h \in Handlers, InitCreateFails(h) PROVE PartAccounted'
  <2> USE <1>7 DEF InitCreateFails, Discarded, Reply
  <2>1. NoOrphanPart'
    <3>1. \A u \in part : u # sid[h]
      OBVIOUS
    <3>2. ASSUME NEW u \in part, NEW g \in Handlers, pc[g] \in InitSteps, sid[g] = u
          PROVE  pc'[g] \in InitSteps /\ sid'[g] = u
      BY <3>1, <3>2
    <3> QED
      BY <3>1, <3>2
  <2>2. (\A u \in UploadIDs : upload[u].total = 0 => u \notin part)'
    OBVIOUS
  <2>3. (\A g \in Handlers : pc[g] \in {"init_create", "forget"} => sid[g] \notin part)'
    OBVIOUS
  <2>4. (\A q \in Procs : pc[q] \notin CleanupSteps => victims[q] = {})'
    OBVIOUS
  <2> QED
    BY <2>1, <2>2, <2>3, <2>4
<1>8. ASSUME NEW h \in Handlers, InitRegister(h) PROVE PartAccounted'
  <2> USE <1>8 DEF InitRegister, Reply
  <2>1. NoOrphanPart'
    BY DEF ServingSession, ServingSteps
  <2>2. (\A u \in UploadIDs : upload[u].total = 0 => u \notin part)'
    OBVIOUS
  <2>3. (\A g \in Handlers : pc[g] \in {"init_create", "forget"} => sid[g] \notin part)'
    OBVIOUS
  <2>4. (\A q \in Procs : pc[q] \notin CleanupSteps => victims[q] = {})'
    OBVIOUS
  <2> QED
    BY <2>1, <2>2, <2>3, <2>4
<1>9. ASSUME NEW h \in Handlers, Claim(h) PROVE PartAccounted'
  BY <1>9 DEF Claim, Goto
<1>10. ASSUME NEW h \in Handlers, ClaimDuplicate(h) PROVE PartAccounted'
  BY <1>10, ZenonT(40) DEF ClaimDuplicate, Reply
<1>11. ASSUME NEW h \in Handlers, ClaimRefused(h) PROVE PartAccounted'
  BY <1>11, ZenonT(40) DEF ClaimRefused, Reply
<1>12. ASSUME NEW h \in Handlers, Copy(h) PROVE PartAccounted'
  BY <1>12 DEF Copy, Goto
<1>13. ASSUME NEW h \in Handlers, CopyFails(h) PROVE PartAccounted'
  BY <1>13 DEF CopyFails, Goto
<1>14. ASSUME NEW h \in Handlers, Mark(h) PROVE PartAccounted'
  BY <1>14, ZenonT(40) DEF Mark, Reply
<1>15. ASSUME NEW h \in Handlers, Unmark(h) PROVE PartAccounted'
  BY <1>15, ZenonT(40) DEF Unmark, Reply
<1>16. ASSUME NEW h \in Handlers, Seal(h) PROVE PartAccounted'
  BY <1>16 DEF Seal, Goto
<1>17. ASSUME NEW h \in Handlers, SealedAlready(h) PROVE PartAccounted'
  BY <1>17 DEF SealedAlready, Reply
<1>18. ASSUME NEW h \in Handlers, SealIncomplete(h) PROVE PartAccounted'
  BY <1>18 DEF SealIncomplete, Reply
<1>19. ASSUME NEW h \in Handlers, Sync(h) PROVE PartAccounted'
  BY <1>19 DEF Sync, Goto
<1>20. ASSUME NEW h \in Handlers, SyncFails(h) PROVE PartAccounted'
  BY <1>20 DEF SyncFails, Reply
<1>21. ASSUME NEW h \in Handlers, Close(h) PROVE PartAccounted'
  BY <1>21 DEF Close, Goto
<1>22. ASSUME NEW h \in Handlers, CloseFails(h) PROVE PartAccounted'
  BY <1>22, ZenonT(40) DEF CloseFails, Reply
<1>23. ASSUME NEW h \in Handlers, Rename(h) PROVE PartAccounted'
  <2> USE <1>23 DEF Rename, RenameStep, Goto
  <2>1. NoOrphanPart'
    OBVIOUS
  <2>2. (\A u \in UploadIDs : upload[u].total = 0 => u \notin part)'
    OBVIOUS
  <2>3. (\A g \in Handlers : pc[g] \in {"init_create", "forget"} => sid[g] \notin part)'
    OBVIOUS
  <2>4. (\A q \in Procs : pc[q] \notin CleanupSteps => victims[q] = {})'
    OBVIOUS
  <2> QED
    BY <2>1, <2>2, <2>3, <2>4
<1>24. ASSUME NEW h \in Handlers, RenameFails(h) PROVE PartAccounted'
  BY <1>24 DEF RenameFails, Goto
<1>25. ASSUME NEW h \in Handlers, Displace(h) PROVE PartAccounted'
  BY <1>25 DEF Displace, Goto
<1>26. ASSUME NEW h \in Handlers, DisplaceFails(h) PROVE PartAccounted'
  BY <1>26, ZenonT(40) DEF DisplaceFails, Reply
<1>27. ASSUME NEW h \in Handlers, RenameAgain(h) PROVE PartAccounted'
  <2> USE <1>27 DEF RenameAgain, RenameStep, Goto
  <2>1. NoOrphanPart'
    OBVIOUS
  <2>2. (\A u \in UploadIDs : upload[u].total = 0 => u \notin part)'
    OBVIOUS
  <2>3. (\A g \in Handlers : pc[g] \in {"init_create", "forget"} => sid[g] \notin part)'
    OBVIOUS
  <2>4. (\A q \in Procs : pc[q] \notin CleanupSteps => victims[q] = {})'
    OBVIOUS
  <2> QED
    BY <2>1, <2>2, <2>3, <2>4
<1>28. ASSUME NEW h \in Handlers, RenameAgainFails(h) PROVE PartAccounted'
  BY <1>28, ZenonT(40) DEF RenameAgainFails, Reply
<1>29. ASSUME NEW h \in Handlers, Forget(h) PROVE PartAccounted'
  <2> USE <1>29 DEF Forget, Reply
  <2>1. NoOrphanPart'
    <3>1. \A u \in part : u # sid[h]
      OBVIOUS
    <3>2. ASSUME NEW u \in part, NEW g \in Handlers, pc[g] \in InitSteps, sid[g] = u
          PROVE  pc'[g] \in InitSteps /\ sid'[g] = u
      BY <3>1, <3>2
    <3> QED
      BY <3>1, <3>2
  <2>2. (\A u \in UploadIDs : upload[u].total = 0 => u \notin part)'
    OBVIOUS
  <2>3. (\A g \in Handlers : pc[g] \in {"init_create", "forget"} => sid[g] \notin part)'
    OBVIOUS
  <2>4. (\A q \in Procs : pc[q] \notin CleanupSteps => victims[q] = {})'
    OBVIOUS
  <2> QED
    BY <2>1, <2>2, <2>3, <2>4
<1>30. ASSUME NEW p \in Procs, NEW id \in UploadIDs, CleanupClose(p, id)
      PROVE  PartAccounted'
  BY <1>30 DEF CleanupClose
<1>31. ASSUME NEW p \in Procs, CleanupUnlink(p) PROVE PartAccounted'
  <2> USE <1>31 DEF CleanupUnlink, Unlinked
  <2>1. NoOrphanPart'
    OBVIOUS
  <2>2. (\A u \in UploadIDs : upload[u].total = 0 => u \notin part)'
    OBVIOUS
  <2>3. (\A g \in Handlers : pc[g] \in {"init_create", "forget"} => sid[g] \notin part)'
    OBVIOUS
  <2>4. (\A q \in Procs : pc[q] \notin CleanupSteps => victims[q] = {})'
    OBVIOUS
  <2> QED
    BY <2>1, <2>2, <2>3, <2>4
<1>32. ASSUME NEW p \in Procs, CleanupDone(p) PROVE PartAccounted'
  BY <1>32 DEF CleanupDone, AfterCleanup, Goto
<1>33. CASE Expire
  BY <1>33, ZenonT(40) DEF Expire, Evict, Remaining, Evicted
<1>34. CASE JanitorExit
  BY <1>34 DEF JanitorExit, Goto
<1>35. CASE CloseSignal
  BY <1>35 DEF CloseSignal, Goto
<1>36. CASE CloseGrab
  BY <1>36, ZenonT(40) DEF CloseGrab, Evict, Remaining, Evicted
<1>37. CASE Shutdown
  BY <1>37 DEF Shutdown, Goto
<1>38. ASSUME NEW id \in UploadIDs, Age(id) PROVE PartAccounted'
  BY <1>38 DEF Age
<1>39. CASE ProcessStops
  BY <1>39 DEF ProcessStops, Restart
<1>40. CASE PowerFails
  BY <1>40 DEF PowerFails, Restart
<1>41. CASE UNCHANGED vars
  BY <1>41
<1> QED
  BY <1>1, <1>2, <1>3, <1>4, <1>5, <1>6, <1>7, <1>8, <1>9, <1>10, <1>11,
     <1>12, <1>13, <1>14, <1>15, <1>16, <1>17, <1>18, <1>19, <1>20, <1>21,
     <1>22, <1>23, <1>24, <1>25, <1>26, <1>27, <1>28, <1>29, <1>30, <1>31,
     <1>32, <1>33, <1>34, <1>35, <1>36, <1>37, <1>38, <1>39, <1>40, <1>41
     DEF Next, Request, Handle, Cleanup, JanitorStep, MainStep, Exited

\* So do all their sequences (upload_sessions.go:128-427).
THEOREM PartAccountedHolds == Spec => []PartAccounted
  BY IndInvHolds, InitPartAccounted, NextPartAccounted, PTL DEF Spec

\* A temporary file is always somebody's to remove, or was left behind by an
\* earlier process: no order of aborts, expiries, storage changes, failed
\* finalizations and shutdowns loses one.
THEOREM NoPartForgotten == Spec => []NoOrphanPart
<1>1. PartAccounted => NoOrphanPart
  BY DEF PartAccounted
<1> QED
  BY PartAccountedHolds, <1>1, PTL

-----------------------------------------------------------------------------
(* Chunks in state "writing".                                              *)

\* Every handler that is in WriteChunk stays on its chunk.
WritersStay ==
  \A g \in Handlers : pc[g] \in WriteSteps =>
    pc'[g] \in WriteSteps /\ sid'[g] = sid[g] /\ idx'[g] = idx[g]

\* A step that leaves the chunks alone and the writers where they are keeps
\* the owners.
LEMMA OwnersKept ==
  ASSUME WritersOwn, chunkState' = chunkState, WritersStay
  PROVE  WritersOwn'
  BY DEF WritersOwn, WritersStay

\* Whoever claims a chunk keeps it or gives it back.
LEMMA NextWritersOwn ==
  ASSUME TypeOK, WriterClaims, ServingSession, WritersOwn, [Next]_vars
  PROVE  WritersOwn'
<1> USE HandlersAreProcs, OthersAreProcs
    DEF TypeOK, GoroutinesOK, WriteSteps, CleanupSteps
<1>1. ASSUME NEW h \in Handlers, NEW id \in UploadIDs, NEW n \in Names,
            NEW k \in 1 .. MaxChunks, InitBegin(h, id, n, k)
      PROVE  WritersOwn'
  BY <1>1, OwnersKept DEF WritersStay, InitBegin, Start
<1>2. ASSUME NEW h \in Handlers, NEW id \in UploadIDs, NEW c \in Chunks, WriteGet(h, id, c)
      PROVE  WritersOwn'
  BY <1>2, OwnersKept DEF WritersStay, WriteGet, Start
<1>3. ASSUME NEW h \in Handlers, NEW id \in UploadIDs, CompleteGet(h, id) PROVE WritersOwn'
  BY <1>3, OwnersKept DEF WritersStay, CompleteGet, Start
<1>4. ASSUME NEW h \in Handlers, NEW id \in UploadIDs, Abort(h, id) PROVE WritersOwn'
  BY <1>4, OwnersKept DEF WritersStay, Abort, Evict, Remaining, Evicted
<1>5. ASSUME NEW h \in Handlers, NEW r \in Roots, UpdateStorage(h, r) PROVE WritersOwn'
  BY <1>5, OwnersKept DEF WritersStay, UpdateStorage, Evict, EvictedByStorage, InitUnderWay, Remaining, Evicted
<1>6. ASSUME NEW h \in Handlers, InitCreate(h) PROVE WritersOwn'
  BY <1>6, OwnersKept DEF WritersStay, InitCreate, Goto
<1>7. ASSUME NEW h \in Handlers, InitCreateFails(h) PROVE WritersOwn'
  BY <1>7, OwnersKept DEF WritersStay, InitCreateFails, Discarded, Reply
<1>8. ASSUME NEW h \in Handlers, InitRegister(h) PROVE WritersOwn'
  BY <1>8, OwnersKept DEF WritersStay, InitRegister, Reply
<1>9. ASSUME NEW h \in Handlers, Claim(h) PROVE WritersOwn'
  BY <1>9 DEF WritersOwn, Claim, Claimable, SetChunk, Goto
<1>10. ASSUME NEW h \in Handlers, ClaimDuplicate(h) PROVE WritersOwn'
  BY <1>10, OwnersKept DEF WritersStay, ClaimDuplicate, Reply
<1>11. ASSUME NEW h \in Handlers, ClaimRefused(h) PROVE WritersOwn'
  BY <1>11, OwnersKept DEF WritersStay, ClaimRefused, Reply
<1>12. ASSUME NEW h \in Handlers, Copy(h) PROVE WritersOwn'
  BY <1>12, OwnersKept DEF WritersStay, Copy, Contents, Goto
<1>13. ASSUME NEW h \in Handlers, CopyFails(h) PROVE WritersOwn'
  BY <1>13, OwnersKept DEF WritersStay, CopyFails, Contents, Goto
<1>14. ASSUME NEW h \in Handlers, Mark(h) PROVE WritersOwn'
  <2>1. \A g \in Handlers : g # h => pc'[g] = pc[g] /\ sid'[g] = sid[g] /\ idx'[g] = idx[g]
    BY <1>14 DEF Mark, SetChunk, Reply
  <2>2. \A id \in UploadIDs, c \in Chunks : chunkState'[id][c] = "writing" =>
          chunkState[id][c] = "writing" /\ ~(sid[h] = id /\ idx[h] = c)
    BY <1>14 DEF Mark, SetChunk, Reply
  <2>3. ASSUME NEW id \in UploadIDs, NEW c \in Chunks, chunkState'[id][c] = "writing"
        PROVE  \E g \in Handlers : pc'[g] \in WriteSteps /\ sid'[g] = id /\ idx'[g] = c
    <3>1. PICK g \in Handlers : pc[g] \in WriteSteps /\ sid[g] = id /\ idx[g] = c
      BY <2>2, <2>3 DEF WritersOwn
    <3>2. g # h
      BY <2>2, <2>3, <3>1
    <3> QED
      BY <2>1, <3>1, <3>2
  <2> QED
    BY <2>3 DEF WritersOwn
<1>15. ASSUME NEW h \in Handlers, Unmark(h) PROVE WritersOwn'
  <2>1. \A g \in Handlers : g # h => pc'[g] = pc[g] /\ sid'[g] = sid[g] /\ idx'[g] = idx[g]
    BY <1>15 DEF Unmark, SetChunk, AfterFailure, Reply
  <2>2. \A id \in UploadIDs, c \in Chunks : chunkState'[id][c] = "writing" =>
          chunkState[id][c] = "writing" /\ ~(sid[h] = id /\ idx[h] = c)
    BY <1>15 DEF Unmark, SetChunk, AfterFailure, Reply
  <2>3. ASSUME NEW id \in UploadIDs, NEW c \in Chunks, chunkState'[id][c] = "writing"
        PROVE  \E g \in Handlers : pc'[g] \in WriteSteps /\ sid'[g] = id /\ idx'[g] = c
    <3>1. PICK g \in Handlers : pc[g] \in WriteSteps /\ sid[g] = id /\ idx[g] = c
      BY <2>2, <2>3 DEF WritersOwn
    <3>2. g # h
      BY <2>2, <2>3, <3>1
    <3> QED
      BY <2>1, <3>1, <3>2
  <2> QED
    BY <2>3 DEF WritersOwn
<1>16. ASSUME NEW h \in Handlers, Seal(h) PROVE WritersOwn'
  BY <1>16, OwnersKept DEF WritersStay, Seal, Sealable, Goto, AllReceived
<1>17. ASSUME NEW h \in Handlers, SealedAlready(h) PROVE WritersOwn'
  BY <1>17, OwnersKept DEF WritersStay, SealedAlready, Reply
<1>18. ASSUME NEW h \in Handlers, SealIncomplete(h) PROVE WritersOwn'
  BY <1>18, OwnersKept DEF WritersStay, SealIncomplete, AllReceived, Reply
<1>19. ASSUME NEW h \in Handlers, Sync(h) PROVE WritersOwn'
  BY <1>19, OwnersKept DEF WritersStay, Sync, Synced, Goto
<1>20. ASSUME NEW h \in Handlers, SyncFails(h) PROVE WritersOwn'
  BY <1>20, OwnersKept DEF WritersStay, SyncFails, Reply
<1>21. ASSUME NEW h \in Handlers, Close(h) PROVE WritersOwn'
  BY <1>21, OwnersKept DEF WritersStay, Close, Goto
<1>22. ASSUME NEW h \in Handlers, CloseFails(h) PROVE WritersOwn'
  BY <1>22, OwnersKept DEF WritersStay, CloseFails, Reply
<1>23. ASSUME NEW h \in Handlers, Rename(h) PROVE WritersOwn'
  BY <1>23, OwnersKept DEF WritersStay, Rename, RenameStep, Stand, Goto
<1>24. ASSUME NEW h \in Handlers, RenameFails(h) PROVE WritersOwn'
  BY <1>24, OwnersKept DEF WritersStay, RenameFails, CannotRename, Goto
<1>25. ASSUME NEW h \in Handlers, Displace(h) PROVE WritersOwn'
  BY <1>25, OwnersKept DEF WritersStay, Displace, Stand, Goto
<1>26. ASSUME NEW h \in Handlers, DisplaceFails(h) PROVE WritersOwn'
  BY <1>26, OwnersKept DEF WritersStay, DisplaceFails, Reply
<1>27. ASSUME NEW h \in Handlers, RenameAgain(h) PROVE WritersOwn'
  BY <1>27, OwnersKept DEF WritersStay, RenameAgain, RenameStep, Stand, Goto
<1>28. ASSUME NEW h \in Handlers, RenameAgainFails(h) PROVE WritersOwn'
  BY <1>28, OwnersKept DEF WritersStay, RenameAgainFails, CannotRename, Reply
<1>29. ASSUME NEW h \in Handlers, Forget(h) PROVE WritersOwn'
  BY <1>29, OwnersKept DEF WritersStay, Forget, Reply
<1>30. ASSUME NEW p \in Procs, NEW id \in UploadIDs, CleanupClose(p, id) PROVE WritersOwn'
  BY <1>30, OwnersKept DEF WritersStay, CleanupClose
<1>31. ASSUME NEW p \in Procs, CleanupUnlink(p) PROVE WritersOwn'
  BY <1>31, OwnersKept DEF WritersStay, CleanupUnlink, Unlinked
<1>32. ASSUME NEW p \in Procs, CleanupDone(p) PROVE WritersOwn'
  BY <1>32, OwnersKept DEF WritersStay, CleanupDone, Goto, AfterCleanup
<1>33. CASE Expire
  BY <1>33, OwnersKept DEF WritersStay, Expire, Evict, Remaining, Evicted
<1>34. CASE JanitorExit
  BY <1>34, OwnersKept DEF WritersStay, JanitorExit, Goto
<1>35. CASE CloseSignal
  BY <1>35, OwnersKept DEF WritersStay, CloseSignal, Goto
<1>36. CASE CloseGrab
  BY <1>36, OwnersKept DEF WritersStay, CloseGrab, Evict, Remaining, Evicted
<1>37. CASE Shutdown
  BY <1>37, OwnersKept DEF WritersStay, Shutdown, Goto
<1>38. ASSUME NEW id \in UploadIDs, Age(id) PROVE WritersOwn'
  BY <1>38, OwnersKept DEF WritersStay, Age
<1>39. CASE ProcessStops
  BY <1>39 DEF WritersOwn, ProcessStops, Restart, Blank
<1>40. CASE PowerFails
  BY <1>40 DEF WritersOwn, PowerFails, Restart, Blank
<1>41. CASE UNCHANGED vars
  BY <1>41, OwnersKept DEF WritersStay
<1> QED
  BY <1>1, <1>2, <1>3, <1>4, <1>5, <1>6, <1>7, <1>8, <1>9, <1>10, <1>11, <1>12,
     <1>13, <1>14, <1>15, <1>16, <1>17, <1>18, <1>19, <1>20, <1>21, <1>22,
     <1>23, <1>24, <1>25, <1>26, <1>27, <1>28, <1>29, <1>30, <1>31, <1>32,
     <1>33, <1>34, <1>35, <1>36, <1>37, <1>38, <1>39, <1>40, <1>41
     DEF Next, Request, Handle, Cleanup, JanitorStep, MainStep, Exited

\* A storage change evicts every session of the old folder, or notes its Init.
LEMMA NextOnRoot ==
  ASSUME TypeOK, UndrawnUnknown, ServingSession, SessionsOnCurrentRoot, InitOnRoot, [Next]_vars
  PROVE  (SessionsOnCurrentRoot /\ InitOnRoot)'
<1> USE HandlersAreProcs, OthersAreProcs
    DEF SessionsOnCurrentRoot, InitOnRoot, TypeOK, GoroutinesOK, InitSteps, ServingSession, ServingSteps
<1>1. ASSUME NEW h \in Handlers, NEW id \in UploadIDs, NEW n \in Names,
            NEW k \in 1 .. MaxChunks, InitBegin(h, id, n, k)
      PROVE  (SessionsOnCurrentRoot /\ InitOnRoot)'
  BY <1>1 DEF InitBegin, Start
<1>2. ASSUME NEW h \in Handlers, NEW id \in UploadIDs, NEW c \in Chunks, WriteGet(h, id, c)
      PROVE  (SessionsOnCurrentRoot /\ InitOnRoot)'
  BY <1>2 DEF WriteGet, Start
<1>3. ASSUME NEW h \in Handlers, NEW id \in UploadIDs, CompleteGet(h, id)
      PROVE  (SessionsOnCurrentRoot /\ InitOnRoot)'
  BY <1>3 DEF CompleteGet, Start
<1>4. ASSUME NEW h \in Handlers, NEW id \in UploadIDs, Abort(h, id)
      PROVE  (SessionsOnCurrentRoot /\ InitOnRoot)'
  BY <1>4 DEF Abort, Evict, Remaining, Evicted
<1>5. ASSUME NEW h \in Handlers, NEW r \in Roots, UpdateStorage(h, r)
      PROVE  (SessionsOnCurrentRoot /\ InitOnRoot)'
  BY <1>5 DEF UpdateStorage, Evict, EvictedByStorage, InitUnderWay, Remaining, Evicted
<1>6. ASSUME NEW h \in Handlers, InitCreate(h) PROVE (SessionsOnCurrentRoot /\ InitOnRoot)'
  BY <1>6 DEF InitCreate, Goto
<1>7. ASSUME NEW h \in Handlers, InitCreateFails(h) PROVE (SessionsOnCurrentRoot /\ InitOnRoot)'
  BY <1>7 DEF InitCreateFails, Discarded, Reply
<1>8. ASSUME NEW h \in Handlers, InitRegister(h) PROVE (SessionsOnCurrentRoot /\ InitOnRoot)'
  BY <1>8 DEF InitRegister, Reply
<1>9. ASSUME NEW h \in Handlers, Claim(h) PROVE (SessionsOnCurrentRoot /\ InitOnRoot)'
  BY <1>9 DEF Claim, Claimable, SetChunk, Goto
<1>10. ASSUME NEW h \in Handlers, ClaimDuplicate(h) PROVE (SessionsOnCurrentRoot /\ InitOnRoot)'
  BY <1>10 DEF ClaimDuplicate, Reply
<1>11. ASSUME NEW h \in Handlers, ClaimRefused(h) PROVE (SessionsOnCurrentRoot /\ InitOnRoot)'
  BY <1>11 DEF ClaimRefused, Reply
<1>12. ASSUME NEW h \in Handlers, Copy(h) PROVE (SessionsOnCurrentRoot /\ InitOnRoot)'
  BY <1>12 DEF Copy, Contents, Goto
<1>13. ASSUME NEW h \in Handlers, CopyFails(h) PROVE (SessionsOnCurrentRoot /\ InitOnRoot)'
  BY <1>13 DEF CopyFails, Contents, Goto
<1>14. ASSUME NEW h \in Handlers, Mark(h) PROVE (SessionsOnCurrentRoot /\ InitOnRoot)'
  BY <1>14 DEF Mark, SetChunk, Reply
<1>15. ASSUME NEW h \in Handlers, Unmark(h) PROVE (SessionsOnCurrentRoot /\ InitOnRoot)'
  BY <1>15 DEF Unmark, SetChunk, AfterFailure, Reply
<1>16. ASSUME NEW h \in Handlers, Seal(h) PROVE (SessionsOnCurrentRoot /\ InitOnRoot)'
  BY <1>16 DEF Seal, Sealable, Goto, AllReceived
<1>17. ASSUME NEW h \in Handlers, SealedAlready(h) PROVE (SessionsOnCurrentRoot /\ InitOnRoot)'
  BY <1>17 DEF SealedAlready, Reply
<1>18. ASSUME NEW h \in Handlers, SealIncomplete(h) PROVE (SessionsOnCurrentRoot /\ InitOnRoot)'
  BY <1>18 DEF SealIncomplete, AllReceived, Reply
<1>19. ASSUME NEW h \in Handlers, Sync(h) PROVE (SessionsOnCurrentRoot /\ InitOnRoot)'
  BY <1>19 DEF Sync, Synced, Goto
<1>20. ASSUME NEW h \in Handlers, SyncFails(h) PROVE (SessionsOnCurrentRoot /\ InitOnRoot)'
  BY <1>20 DEF SyncFails, Reply
<1>21. ASSUME NEW h \in Handlers, Close(h) PROVE (SessionsOnCurrentRoot /\ InitOnRoot)'
  BY <1>21 DEF Close, Goto
<1>22. ASSUME NEW h \in Handlers, CloseFails(h) PROVE (SessionsOnCurrentRoot /\ InitOnRoot)'
  BY <1>22 DEF CloseFails, Reply
<1>23. ASSUME NEW h \in Handlers, Rename(h) PROVE (SessionsOnCurrentRoot /\ InitOnRoot)'
  BY <1>23 DEF Rename, RenameStep, Stand, Goto
<1>24. ASSUME NEW h \in Handlers, RenameFails(h) PROVE (SessionsOnCurrentRoot /\ InitOnRoot)'
  BY <1>24 DEF RenameFails, CannotRename, Goto
<1>25. ASSUME NEW h \in Handlers, Displace(h) PROVE (SessionsOnCurrentRoot /\ InitOnRoot)'
  BY <1>25 DEF Displace, Stand, Goto
<1>26. ASSUME NEW h \in Handlers, DisplaceFails(h) PROVE (SessionsOnCurrentRoot /\ InitOnRoot)'
  BY <1>26 DEF DisplaceFails, Reply
<1>27. ASSUME NEW h \in Handlers, RenameAgain(h) PROVE (SessionsOnCurrentRoot /\ InitOnRoot)'
  BY <1>27 DEF RenameAgain, RenameStep, Stand, Goto
<1>28. ASSUME NEW h \in Handlers, RenameAgainFails(h)
      PROVE  (SessionsOnCurrentRoot /\ InitOnRoot)'
  BY <1>28 DEF RenameAgainFails, CannotRename, Reply
<1>29. ASSUME NEW h \in Handlers, Forget(h) PROVE (SessionsOnCurrentRoot /\ InitOnRoot)'
  BY <1>29 DEF Forget, Reply
<1>30. ASSUME NEW p \in Procs, NEW id \in UploadIDs, CleanupClose(p, id)
      PROVE  (SessionsOnCurrentRoot /\ InitOnRoot)'
  BY <1>30 DEF CleanupClose
<1>31. ASSUME NEW p \in Procs, CleanupUnlink(p) PROVE (SessionsOnCurrentRoot /\ InitOnRoot)'
  BY <1>31 DEF CleanupUnlink, Unlinked
<1>32. ASSUME NEW p \in Procs, CleanupDone(p) PROVE (SessionsOnCurrentRoot /\ InitOnRoot)'
  BY <1>32 DEF CleanupDone, Goto, AfterCleanup
<1>33. CASE Expire
  BY <1>33 DEF Expire, Evict, Remaining, Evicted
<1>34. CASE JanitorExit
  BY <1>34 DEF JanitorExit, Goto
<1>35. CASE CloseSignal
  BY <1>35 DEF CloseSignal, Goto
<1>36. CASE CloseGrab
  BY <1>36 DEF CloseGrab, Evict, Remaining, Evicted
<1>37. CASE Shutdown
  BY <1>37 DEF Shutdown, Goto
<1>38. ASSUME NEW id \in UploadIDs, Age(id) PROVE (SessionsOnCurrentRoot /\ InitOnRoot)'
  BY <1>38 DEF Age
<1>39. CASE ProcessStops
  BY <1>39 DEF ProcessStops, Restart, Blank
<1>40. CASE PowerFails
  BY <1>40 DEF PowerFails, Restart, Blank
<1>41. CASE UNCHANGED vars
  BY <1>41
<1> QED
  BY <1>1, <1>2, <1>3, <1>4, <1>5, <1>6, <1>7, <1>8, <1>9, <1>10, <1>11, <1>12,
     <1>13, <1>14, <1>15, <1>16, <1>17, <1>18, <1>19, <1>20, <1>21, <1>22,
     <1>23, <1>24, <1>25, <1>26, <1>27, <1>28, <1>29, <1>30, <1>31, <1>32,
     <1>33, <1>34, <1>35, <1>36, <1>37, <1>38, <1>39, <1>40, <1>41
     DEF Next, Request, Handle, Cleanup, JanitorStep, MainStep, Exited

\* A temporary file goes only after its session.
LEMMA NextPartsKept ==
  ASSUME TypeOK, UndrawnUnknown, InitAlone, ServingSession, OneFinalizer, PartAccounted, SessionsHaveParts, VictimsOffMap, [Next]_vars
  PROVE  (SessionsHaveParts /\ VictimsOffMap)'
<1> USE HandlersAreProcs, OthersAreProcs
    DEF SessionsHaveParts, VictimsOffMap, TypeOK, GoroutinesOK, InitSteps
<1>1. ASSUME NEW h \in Handlers, NEW id \in UploadIDs, NEW n \in Names,
            NEW k \in 1 .. MaxChunks, InitBegin(h, id, n, k)
      PROVE  (SessionsHaveParts /\ VictimsOffMap)'
  BY <1>1 DEF InitBegin, Start
<1>2. ASSUME NEW h \in Handlers, NEW id \in UploadIDs, NEW c \in Chunks, WriteGet(h, id, c)
      PROVE  (SessionsHaveParts /\ VictimsOffMap)'
  BY <1>2 DEF WriteGet, Start
<1>3. ASSUME NEW h \in Handlers, NEW id \in UploadIDs, CompleteGet(h, id)
      PROVE  (SessionsHaveParts /\ VictimsOffMap)'
  BY <1>3 DEF CompleteGet, Start
<1>4. ASSUME NEW h \in Handlers, NEW id \in UploadIDs, Abort(h, id)
      PROVE  (SessionsHaveParts /\ VictimsOffMap)'
  <2>1. SessionsHaveParts'
    BY <1>4 DEF Abort, Evict, Remaining, Evicted
  <2>2. VictimsOffMap'
    BY <1>4 DEF UndrawnUnknown, InitAlone, ServingSession, ServingSteps, FinalizeSteps, Abort, Evict, Remaining, Evicted
  <2> QED
    BY <2>1, <2>2
<1>5. ASSUME NEW h \in Handlers, NEW r \in Roots, UpdateStorage(h, r)
      PROVE  (SessionsHaveParts /\ VictimsOffMap)'
  <2>1. SessionsHaveParts'
    BY <1>5 DEF UpdateStorage, Evict, EvictedByStorage, InitUnderWay, Remaining, Evicted
  <2>2. VictimsOffMap'
    BY <1>5 DEF UndrawnUnknown, InitAlone, ServingSession, ServingSteps, FinalizeSteps, UpdateStorage, Evict, EvictedByStorage, InitUnderWay, Remaining, Evicted
  <2> QED
    BY <2>1, <2>2
<1>6. ASSUME NEW h \in Handlers, InitCreate(h) PROVE (SessionsHaveParts /\ VictimsOffMap)'
  BY <1>6 DEF InitCreate, Goto
<1>7. ASSUME NEW h \in Handlers, InitCreateFails(h) PROVE (SessionsHaveParts /\ VictimsOffMap)'
  <2>1. SessionsHaveParts'
    BY <1>7 DEF UndrawnUnknown, InitAlone, ServingSession, ServingSteps, FinalizeSteps, InitCreateFails, Discarded, Reply
  <2>2. VictimsOffMap'
    BY <1>7 DEF InitCreateFails, Discarded, Reply
  <2> QED
    BY <2>1, <2>2
<1>8. ASSUME NEW h \in Handlers, InitRegister(h) PROVE (SessionsHaveParts /\ VictimsOffMap)'
  BY <1>8 DEF InitRegister, Reply
<1>9. ASSUME NEW h \in Handlers, Claim(h) PROVE (SessionsHaveParts /\ VictimsOffMap)'
  BY <1>9 DEF Claim, Claimable, SetChunk, Goto
<1>10. ASSUME NEW h \in Handlers, ClaimDuplicate(h) PROVE (SessionsHaveParts /\ VictimsOffMap)'
  BY <1>10 DEF ClaimDuplicate, Reply
<1>11. ASSUME NEW h \in Handlers, ClaimRefused(h) PROVE (SessionsHaveParts /\ VictimsOffMap)'
  BY <1>11 DEF ClaimRefused, Reply
<1>12. ASSUME NEW h \in Handlers, Copy(h) PROVE (SessionsHaveParts /\ VictimsOffMap)'
  BY <1>12 DEF Copy, Contents, Goto
<1>13. ASSUME NEW h \in Handlers, CopyFails(h) PROVE (SessionsHaveParts /\ VictimsOffMap)'
  BY <1>13 DEF CopyFails, Contents, Goto
<1>14. ASSUME NEW h \in Handlers, Mark(h) PROVE (SessionsHaveParts /\ VictimsOffMap)'
  BY <1>14 DEF Mark, SetChunk, Reply
<1>15. ASSUME NEW h \in Handlers, Unmark(h) PROVE (SessionsHaveParts /\ VictimsOffMap)'
  BY <1>15 DEF Unmark, SetChunk, AfterFailure, Reply
<1>16. ASSUME NEW h \in Handlers, Seal(h) PROVE (SessionsHaveParts /\ VictimsOffMap)'
  BY <1>16 DEF Seal, Sealable, Goto, AllReceived
<1>17. ASSUME NEW h \in Handlers, SealedAlready(h) PROVE (SessionsHaveParts /\ VictimsOffMap)'
  BY <1>17 DEF SealedAlready, Reply
<1>18. ASSUME NEW h \in Handlers, SealIncomplete(h) PROVE (SessionsHaveParts /\ VictimsOffMap)'
  BY <1>18 DEF SealIncomplete, AllReceived, Reply
<1>19. ASSUME NEW h \in Handlers, Sync(h) PROVE (SessionsHaveParts /\ VictimsOffMap)'
  BY <1>19 DEF Sync, Synced, Goto
<1>20. ASSUME NEW h \in Handlers, SyncFails(h) PROVE (SessionsHaveParts /\ VictimsOffMap)'
  BY <1>20 DEF SyncFails, Reply
<1>21. ASSUME NEW h \in Handlers, Close(h) PROVE (SessionsHaveParts /\ VictimsOffMap)'
  BY <1>21 DEF Close, Goto
<1>22. ASSUME NEW h \in Handlers, CloseFails(h) PROVE (SessionsHaveParts /\ VictimsOffMap)'
  BY <1>22 DEF CloseFails, Reply
<1>23. ASSUME NEW h \in Handlers, Rename(h) PROVE (SessionsHaveParts /\ VictimsOffMap)'
  <2>1. SessionsHaveParts'
    <3>1. \A id \in sessions' \ part' : id \in sessions \ part \/ id = sid[h]
      BY <1>23 DEF Rename, RenameStep, Stand, Goto
    <3>2. pc'[h] = "forget" /\ sid'[h] = sid[h]
      BY <1>23 DEF Rename, RenameStep, Stand, Goto
    <3>3. ASSUME NEW g \in Handlers, pc[g] = "forget" PROVE pc'[g] = "forget" /\ sid'[g] = sid[g]
      BY <1>23, <3>3 DEF Rename, RenameStep, Stand, Goto
    <3>4. ASSUME NEW g \in Handlers, pc'[g] = "init_register" PROVE sid'[g] \in part'
      BY <1>23, <3>4 DEF UndrawnUnknown, InitAlone, ServingSession, ServingSteps, FinalizeSteps, Rename, RenameStep, Stand, Goto
    <3> QED
      BY <3>1, <3>2, <3>3, <3>4 DEF SessionsHaveParts
  <2>2. VictimsOffMap'
    BY <1>23 DEF Rename, RenameStep, Stand, Goto
  <2> QED
    BY <2>1, <2>2
<1>24. ASSUME NEW h \in Handlers, RenameFails(h) PROVE (SessionsHaveParts /\ VictimsOffMap)'
  BY <1>24 DEF RenameFails, CannotRename, Goto
<1>25. ASSUME NEW h \in Handlers, Displace(h) PROVE (SessionsHaveParts /\ VictimsOffMap)'
  BY <1>25 DEF Displace, Stand, Goto
<1>26. ASSUME NEW h \in Handlers, DisplaceFails(h) PROVE (SessionsHaveParts /\ VictimsOffMap)'
  BY <1>26 DEF DisplaceFails, Reply
<1>27. ASSUME NEW h \in Handlers, RenameAgain(h) PROVE (SessionsHaveParts /\ VictimsOffMap)'
  <2>1. SessionsHaveParts'
    <3>1. \A id \in sessions' \ part' : id \in sessions \ part \/ id = sid[h]
      BY <1>27 DEF RenameAgain, RenameStep, Stand, Goto
    <3>2. pc'[h] = "forget" /\ sid'[h] = sid[h]
      BY <1>27 DEF RenameAgain, RenameStep, Stand, Goto
    <3>3. ASSUME NEW g \in Handlers, pc[g] = "forget" PROVE pc'[g] = "forget" /\ sid'[g] = sid[g]
      BY <1>27, <3>3 DEF RenameAgain, RenameStep, Stand, Goto
    <3>4. ASSUME NEW g \in Handlers, pc'[g] = "init_register" PROVE sid'[g] \in part'
      BY <1>27, <3>4 DEF UndrawnUnknown, InitAlone, ServingSession, ServingSteps, FinalizeSteps, RenameAgain, RenameStep, Stand, Goto
    <3> QED
      BY <3>1, <3>2, <3>3, <3>4 DEF SessionsHaveParts
  <2>2. VictimsOffMap'
    BY <1>27 DEF RenameAgain, RenameStep, Stand, Goto
  <2> QED
    BY <2>1, <2>2
<1>28. ASSUME NEW h \in Handlers, RenameAgainFails(h)
      PROVE  (SessionsHaveParts /\ VictimsOffMap)'
  BY <1>28 DEF RenameAgainFails, CannotRename, Reply
<1>29. ASSUME NEW h \in Handlers, Forget(h) PROVE (SessionsHaveParts /\ VictimsOffMap)'
  BY <1>29 DEF Forget, Reply
<1>30. ASSUME NEW p \in Procs, NEW id \in UploadIDs, CleanupClose(p, id)
      PROVE  (SessionsHaveParts /\ VictimsOffMap)'
  BY <1>30 DEF CleanupClose
<1>31. ASSUME NEW p \in Procs, CleanupUnlink(p) PROVE (SessionsHaveParts /\ VictimsOffMap)'
  BY <1>31 DEF CleanupUnlink, Unlinked
<1>32. ASSUME NEW p \in Procs, CleanupDone(p) PROVE (SessionsHaveParts /\ VictimsOffMap)'
  BY <1>32 DEF CleanupDone, Goto, AfterCleanup
<1>33. CASE Expire
  <2>1. SessionsHaveParts'
    BY <1>33 DEF Expire, Evict, Remaining, Evicted
  <2>2. VictimsOffMap'
    BY <1>33 DEF UndrawnUnknown, InitAlone, ServingSession, ServingSteps, FinalizeSteps, Expire, Evict, Remaining, Evicted
  <2> QED
    BY <2>1, <2>2
<1>34. CASE JanitorExit
  BY <1>34 DEF JanitorExit, Goto
<1>35. CASE CloseSignal
  BY <1>35 DEF CloseSignal, Goto
<1>36. CASE CloseGrab
  <2>1. SessionsHaveParts'
    BY <1>36 DEF CloseGrab, Evict, Remaining, Evicted
  <2>2. VictimsOffMap'
    BY <1>36 DEF UndrawnUnknown, InitAlone, ServingSession, ServingSteps, FinalizeSteps, CloseGrab, Evict, Remaining, Evicted
  <2> QED
    BY <2>1, <2>2
<1>37. CASE Shutdown
  BY <1>37 DEF Shutdown, Goto
<1>38. ASSUME NEW id \in UploadIDs, Age(id) PROVE (SessionsHaveParts /\ VictimsOffMap)'
  BY <1>38 DEF Age
<1>39. CASE ProcessStops
  BY <1>39 DEF ProcessStops, Restart, Blank
<1>40. CASE PowerFails
  BY <1>40 DEF PowerFails, Restart, Blank
<1>41. CASE UNCHANGED vars
  BY <1>41
<1> QED
  BY <1>1, <1>2, <1>3, <1>4, <1>5, <1>6, <1>7, <1>8, <1>9, <1>10, <1>11, <1>12,
     <1>13, <1>14, <1>15, <1>16, <1>17, <1>18, <1>19, <1>20, <1>21, <1>22,
     <1>23, <1>24, <1>25, <1>26, <1>27, <1>28, <1>29, <1>30, <1>31, <1>32,
     <1>33, <1>34, <1>35, <1>36, <1>37, <1>38, <1>39, <1>40, <1>41
     DEF Next, Request, Handle, Cleanup, JanitorStep, MainStep, Exited

\* "Uploaded" is answered for sealed sessions, which stay sealed.
LEMMA NextAckedSealed ==
  ASSUME TypeOK, UndrawnUnknown, InitAlone, ServingSession, FinalizerSealed, AckedSealed, [Next]_vars
  PROVE  AckedSealed'
<1> USE HandlersAreProcs, OthersAreProcs
    DEF AckedSealed, TypeOK, GoroutinesOK, InitSteps
<1>1. ASSUME NEW h \in Handlers, NEW id \in UploadIDs, NEW n \in Names,
            NEW k \in 1 .. MaxChunks, InitBegin(h, id, n, k)
      PROVE  AckedSealed'
  BY <1>1 DEF InitBegin, Start
<1>2. ASSUME NEW h \in Handlers, NEW id \in UploadIDs, NEW c \in Chunks, WriteGet(h, id, c)
      PROVE  AckedSealed'
  BY <1>2 DEF WriteGet, Start
<1>3. ASSUME NEW h \in Handlers, NEW id \in UploadIDs, CompleteGet(h, id) PROVE AckedSealed'
  BY <1>3 DEF CompleteGet, Start
<1>4. ASSUME NEW h \in Handlers, NEW id \in UploadIDs, Abort(h, id) PROVE AckedSealed'
  BY <1>4 DEF Abort, Evict, Remaining, Evicted
<1>5. ASSUME NEW h \in Handlers, NEW r \in Roots, UpdateStorage(h, r) PROVE AckedSealed'
  BY <1>5 DEF UpdateStorage, Evict, EvictedByStorage, InitUnderWay, Remaining, Evicted
<1>6. ASSUME NEW h \in Handlers, InitCreate(h) PROVE AckedSealed'
  BY <1>6 DEF InitCreate, Goto
<1>7. ASSUME NEW h \in Handlers, InitCreateFails(h) PROVE AckedSealed'
  BY <1>7 DEF InitCreateFails, Discarded, Reply
<1>8. ASSUME NEW h \in Handlers, InitRegister(h) PROVE AckedSealed'
  BY <1>8 DEF InitRegister, Reply
<1>9. ASSUME NEW h \in Handlers, Claim(h) PROVE AckedSealed'
  BY <1>9 DEF Claim, Claimable, SetChunk, Goto
<1>10. ASSUME NEW h \in Handlers, ClaimDuplicate(h) PROVE AckedSealed'
  BY <1>10 DEF ClaimDuplicate, Reply
<1>11. ASSUME NEW h \in Handlers, ClaimRefused(h) PROVE AckedSealed'
  BY <1>11 DEF ClaimRefused, Reply
<1>12. ASSUME NEW h \in Handlers, Copy(h) PROVE AckedSealed'
  BY <1>12 DEF Copy, Contents, Goto
<1>13. ASSUME NEW h \in Handlers, CopyFails(h) PROVE AckedSealed'
  BY <1>13 DEF CopyFails, Contents, Goto
<1>14. ASSUME NEW h \in Handlers, Mark(h) PROVE AckedSealed'
  BY <1>14 DEF Mark, SetChunk, Reply
<1>15. ASSUME NEW h \in Handlers, Unmark(h) PROVE AckedSealed'
  BY <1>15 DEF Unmark, SetChunk, AfterFailure, Reply
<1>16. ASSUME NEW h \in Handlers, Seal(h) PROVE AckedSealed'
  BY <1>16 DEF Seal, Sealable, Goto, AllReceived
<1>17. ASSUME NEW h \in Handlers, SealedAlready(h) PROVE AckedSealed'
  BY <1>17 DEF UndrawnUnknown, InitAlone, ServingSession, ServingSteps, FinalizerSealed, FinalizeSteps, SealedAlready, Reply
<1>18. ASSUME NEW h \in Handlers, SealIncomplete(h) PROVE AckedSealed'
  BY <1>18 DEF SealIncomplete, AllReceived, Reply
<1>19. ASSUME NEW h \in Handlers, Sync(h) PROVE AckedSealed'
  BY <1>19 DEF Sync, Synced, Goto
<1>20. ASSUME NEW h \in Handlers, SyncFails(h) PROVE AckedSealed'
  BY <1>20 DEF SyncFails, Reply
<1>21. ASSUME NEW h \in Handlers, Close(h) PROVE AckedSealed'
  BY <1>21 DEF Close, Goto
<1>22. ASSUME NEW h \in Handlers, CloseFails(h) PROVE AckedSealed'
  BY <1>22 DEF CloseFails, Reply
<1>23. ASSUME NEW h \in Handlers, Rename(h) PROVE AckedSealed'
  BY <1>23 DEF Rename, RenameStep, Stand, Goto
<1>24. ASSUME NEW h \in Handlers, RenameFails(h) PROVE AckedSealed'
  BY <1>24 DEF RenameFails, CannotRename, Goto
<1>25. ASSUME NEW h \in Handlers, Displace(h) PROVE AckedSealed'
  BY <1>25 DEF Displace, Stand, Goto
<1>26. ASSUME NEW h \in Handlers, DisplaceFails(h) PROVE AckedSealed'
  BY <1>26 DEF DisplaceFails, Reply
<1>27. ASSUME NEW h \in Handlers, RenameAgain(h) PROVE AckedSealed'
  BY <1>27 DEF RenameAgain, RenameStep, Stand, Goto
<1>28. ASSUME NEW h \in Handlers, RenameAgainFails(h) PROVE AckedSealed'
  BY <1>28 DEF RenameAgainFails, CannotRename, Reply
<1>29. ASSUME NEW h \in Handlers, Forget(h) PROVE AckedSealed'
  BY <1>29 DEF UndrawnUnknown, InitAlone, ServingSession, ServingSteps, FinalizerSealed, FinalizeSteps, Forget, Reply
<1>30. ASSUME NEW p \in Procs, NEW id \in UploadIDs, CleanupClose(p, id) PROVE AckedSealed'
  BY <1>30 DEF CleanupClose
<1>31. ASSUME NEW p \in Procs, CleanupUnlink(p) PROVE AckedSealed'
  BY <1>31 DEF CleanupUnlink, Unlinked
<1>32. ASSUME NEW p \in Procs, CleanupDone(p) PROVE AckedSealed'
  BY <1>32 DEF CleanupDone, Goto, AfterCleanup
<1>33. CASE Expire
  BY <1>33 DEF Expire, Evict, Remaining, Evicted
<1>34. CASE JanitorExit
  BY <1>34 DEF JanitorExit, Goto
<1>35. CASE CloseSignal
  BY <1>35 DEF CloseSignal, Goto
<1>36. CASE CloseGrab
  BY <1>36 DEF CloseGrab, Evict, Remaining, Evicted
<1>37. CASE Shutdown
  BY <1>37 DEF Shutdown, Goto
<1>38. ASSUME NEW id \in UploadIDs, Age(id) PROVE AckedSealed'
  BY <1>38 DEF Age
<1>39. CASE ProcessStops
  BY <1>39 DEF ProcessStops, Restart, Blank
<1>40. CASE PowerFails
  BY <1>40 DEF PowerFails, Restart, Blank
<1>41. CASE UNCHANGED vars
  BY <1>41
<1> QED
  BY <1>1, <1>2, <1>3, <1>4, <1>5, <1>6, <1>7, <1>8, <1>9, <1>10, <1>11, <1>12,
     <1>13, <1>14, <1>15, <1>16, <1>17, <1>18, <1>19, <1>20, <1>21, <1>22,
     <1>23, <1>24, <1>25, <1>26, <1>27, <1>28, <1>29, <1>30, <1>31, <1>32,
     <1>33, <1>34, <1>35, <1>36, <1>37, <1>38, <1>39, <1>40, <1>41
     DEF Next, Request, Handle, Cleanup, JanitorStep, MainStep, Exited

-----------------------------------------------------------------------------
\* The table is empty before the first request.
LEMMA InitRecords == Init => Records
  BY HandlersAreProcs
     DEF Init, Blank, Records, WritersOwn, SessionsOnCurrentRoot, InitOnRoot,
         SessionsHaveParts, VictimsOffMap, AckedSealed, InitSteps

\* The four lemmas above together.
LEMMA NextRecords == IndInv /\ PartAccounted /\ Records /\ [Next]_vars => Records'
  BY NextWritersOwn, NextOnRoot, NextPartsKept, NextAckedSealed
     DEF IndInv, Protocol, Records

\* The inductive invariant of the sessions, of their temporary files and of
\* what was answered about them (upload_sessions.go:128-427).
THEOREM SessionInvHolds == Spec => []SessionInv
  BY IndInvHolds, PartAccountedHolds, InitRecords, NextRecords, PTL DEF Spec, SessionInv

\* A chunk is in state "writing" exactly while one handler copies into it: no
\* two bodies get into one chunk, and no error path leaves it claimed
\* (upload_sessions.go:188-260).
THEOREM WritingOwned == Spec => []WritingHasOwner
<1>1. SessionInv => WritingHasOwner
  <2> SUFFICES ASSUME SessionInv, NEW id \in UploadIDs, NEW c \in Chunks
               PROVE  LET owners == {h \in Handlers : pc[h] \in WriteSteps
                                                      /\ sid[h] = id /\ idx[h] = c}
                      IN  IF chunkState[id][c] = "writing"
                          THEN Cardinality(owners) = 1 ELSE owners = {}
    BY DEF WritingHasOwner
  <2> DEFINE owners == {h \in Handlers : pc[h] \in WriteSteps /\ sid[h] = id /\ idx[h] = c}
  <2>1. WriterClaims /\ WritersOwn
    BY DEF SessionInv, IndInv, Protocol, Records
  <2>2. CASE chunkState[id][c] = "writing"
    <3>1. PICK h \in Handlers : pc[h] \in WriteSteps /\ sid[h] = id /\ idx[h] = c
      BY <2>1, <2>2 DEF WritersOwn
    <3>2. owners = {h}
      BY <2>1, <3>1 DEF WriterClaims
    <3> QED
      BY <2>2, <3>2, FS_Singleton
  <2>3. CASE chunkState[id][c] # "writing"
    <3>1. owners = {}
      BY <2>1, <2>3 DEF WriterClaims
    <3> QED
      BY <2>3, <3>1
  <2> QED
    BY <2>2, <2>3
<1> QED
  BY SessionInvHolds, <1>1, PTL

\* After UpdateStorage no session stores its file in the old folder, except
\* one whose Init was under way just then (upload_sessions.go:93-109).
THEOREM SessionsFollowRoot == Spec => []SessionsOnCurrentRoot
<1>1. SessionInv => SessionsOnCurrentRoot
  BY DEF SessionInv, Records
<1> QED
  BY SessionInvHolds, <1>1, PTL

\* "Uploaded" is answered only for an upload whose every chunk has arrived,
\* also to a second Complete that comes while the first one is at work
\* (upload_sessions.go:262-304).
THEOREM AckedWhole == Spec => []AckedUploadsWhole
<1>1. SessionInv => AckedUploadsWhole
  <2> SUFFICES ASSUME SessionInv, NEW id \in acked, id \in stored \cup (part \ orphans)
               PROVE  Whole(id)
    BY DEF AckedUploadsWhole
  <2>1. /\ StoredSettled /\ AckedSealed /\ SealedQuiet /\ CompleteChunksFull
        /\ id \in UploadIDs
    BY DEF SessionInv, IndInv, TypeOK, Protocol, Records
  <2>2. CASE id \in stored
    BY <2>1, <2>2 DEF StoredSettled
  <2>3. CASE id \in part \ orphans
    BY <2>1, <2>3 DEF AckedSealed, SealedQuiet, CompleteChunksFull, Whole
  <2> QED
    BY <2>2, <2>3
<1> QED
  BY SessionInvHolds, <1>1, PTL

-----------------------------------------------------------------------------
(* replaceFile (upload_sessions.go:453-469).                               *)

\* Where renames do not fail by themselves, the first one fails only for want of
\* the temporary file, which a session on the map has.
LEMMA NextFallback ==
  ASSUME TypeOK, UndrawnUnknown, InitAlone, ServingSession, OneFinalizer, SessionsHaveParts,
         "rename" \notin Faults, FallbackOnlyAfterEviction, [Next]_vars
  PROVE  FallbackOnlyAfterEviction'
<1> USE HandlersAreProcs, OthersAreProcs
    DEF FallbackOnlyAfterEviction, TypeOK, GoroutinesOK, InitSteps, CleanupSteps
<1>1. ASSUME NEW h \in Handlers, NEW id \in UploadIDs, NEW n \in Names,
            NEW k \in 1 .. MaxChunks, InitBegin(h, id, n, k)
      PROVE  FallbackOnlyAfterEviction'
  BY <1>1 DEF InitBegin, Start
<1>2. ASSUME NEW h \in Handlers, NEW id \in UploadIDs, NEW c \in Chunks, WriteGet(h, id, c)
      PROVE  FallbackOnlyAfterEviction'
  BY <1>2 DEF WriteGet, Start
<1>3. ASSUME NEW h \in Handlers, NEW id \in UploadIDs, CompleteGet(h, id)
      PROVE  FallbackOnlyAfterEviction'
  BY <1>3 DEF CompleteGet, Start
<1>4. ASSUME NEW h \in Handlers, NEW id \in UploadIDs, Abort(h, id)
      PROVE  FallbackOnlyAfterEviction'
  BY <1>4 DEF Abort, Evict, Remaining, Evicted
<1>5. ASSUME NEW h \in Handlers, NEW r \in Roots, UpdateStorage(h, r)
      PROVE  FallbackOnlyAfterEviction'
  BY <1>5 DEF UpdateStorage, Evict, EvictedByStorage, InitUnderWay, Remaining, Evicted
<1>6. ASSUME NEW h \in Handlers, InitCreate(h) PROVE FallbackOnlyAfterEviction'
  BY <1>6 DEF InitCreate, Goto
<1>7. ASSUME NEW h \in Handlers, InitCreateFails(h) PROVE FallbackOnlyAfterEviction'
  BY <1>7 DEF InitCreateFails, Discarded, Reply
<1>8. ASSUME NEW h \in Handlers, InitRegister(h) PROVE FallbackOnlyAfterEviction'
  BY <1>8 DEF UndrawnUnknown, InitAlone, ServingSession, ServingSteps, FinalizeSteps, OneFinalizer, SessionsHaveParts, InitRegister, Reply
<1>9. ASSUME NEW h \in Handlers, Claim(h) PROVE FallbackOnlyAfterEviction'
  BY <1>9 DEF Claim, Claimable, SetChunk, Goto
<1>10. ASSUME NEW h \in Handlers, ClaimDuplicate(h) PROVE FallbackOnlyAfterEviction'
  BY <1>10 DEF ClaimDuplicate, Reply
<1>11. ASSUME NEW h \in Handlers, ClaimRefused(h) PROVE FallbackOnlyAfterEviction'
  BY <1>11 DEF ClaimRefused, Reply
<1>12. ASSUME NEW h \in Handlers, Copy(h) PROVE FallbackOnlyAfterEviction'
  BY <1>12 DEF Copy, Contents, Goto
<1>13. ASSUME NEW h \in Handlers, CopyFails(h) PROVE FallbackOnlyAfterEviction'
  BY <1>13 DEF CopyFails, Contents, Goto
<1>14. ASSUME NEW h \in Handlers, Mark(h) PROVE FallbackOnlyAfterEviction'
  BY <1>14 DEF Mark, SetChunk, Reply
<1>15. ASSUME NEW h \in Handlers, Unmark(h) PROVE FallbackOnlyAfterEviction'
  BY <1>15 DEF Unmark, SetChunk, AfterFailure, Reply
<1>16. ASSUME NEW h \in Handlers, Seal(h) PROVE FallbackOnlyAfterEviction'
  BY <1>16 DEF Seal, Sealable, Goto, AllReceived
<1>17. ASSUME NEW h \in Handlers, SealedAlready(h) PROVE FallbackOnlyAfterEviction'
  BY <1>17 DEF SealedAlready, Reply
<1>18. ASSUME NEW h \in Handlers, SealIncomplete(h) PROVE FallbackOnlyAfterEviction'
  BY <1>18 DEF SealIncomplete, AllReceived, Reply
<1>19. ASSUME NEW h \in Handlers, Sync(h) PROVE FallbackOnlyAfterEviction'
  BY <1>19 DEF Sync, Synced, Goto
<1>20. ASSUME NEW h \in Handlers, SyncFails(h) PROVE FallbackOnlyAfterEviction'
  BY <1>20 DEF SyncFails, Reply
<1>21. ASSUME NEW h \in Handlers, Close(h) PROVE FallbackOnlyAfterEviction'
  BY <1>21 DEF Close, Goto
<1>22. ASSUME NEW h \in Handlers, CloseFails(h) PROVE FallbackOnlyAfterEviction'
  BY <1>22 DEF CloseFails, Reply
<1>23. ASSUME NEW h \in Handlers, Rename(h) PROVE FallbackOnlyAfterEviction'
  BY <1>23 DEF Rename, RenameStep, Stand, Goto
<1>24. ASSUME NEW h \in Handlers, RenameFails(h) PROVE FallbackOnlyAfterEviction'
  BY <1>24 DEF UndrawnUnknown, InitAlone, ServingSession, ServingSteps, FinalizeSteps, OneFinalizer, SessionsHaveParts, RenameFails, CannotRename, Goto
<1>25. ASSUME NEW h \in Handlers, Displace(h) PROVE FallbackOnlyAfterEviction'
  BY <1>25 DEF Displace, Stand, Goto
<1>26. ASSUME NEW h \in Handlers, DisplaceFails(h) PROVE FallbackOnlyAfterEviction'
  BY <1>26 DEF DisplaceFails, Reply
<1>27. ASSUME NEW h \in Handlers, RenameAgain(h) PROVE FallbackOnlyAfterEviction'
  BY <1>27 DEF RenameAgain, RenameStep, Stand, Goto
<1>28. ASSUME NEW h \in Handlers, RenameAgainFails(h) PROVE FallbackOnlyAfterEviction'
  BY <1>28 DEF RenameAgainFails, CannotRename, Reply
<1>29. ASSUME NEW h \in Handlers, Forget(h) PROVE FallbackOnlyAfterEviction'
  BY <1>29 DEF Forget, Reply
<1>30. ASSUME NEW p \in Procs, NEW id \in UploadIDs, CleanupClose(p, id)
      PROVE  FallbackOnlyAfterEviction'
  BY <1>30 DEF CleanupClose
<1>31. ASSUME NEW p \in Procs, CleanupUnlink(p) PROVE FallbackOnlyAfterEviction'
  BY <1>31 DEF CleanupUnlink, Unlinked
<1>32. ASSUME NEW p \in Procs, CleanupDone(p) PROVE FallbackOnlyAfterEviction'
  BY <1>32 DEF CleanupDone, Goto, AfterCleanup
<1>33. CASE Expire
  BY <1>33 DEF Expire, Evict, Remaining, Evicted
<1>34. CASE JanitorExit
  BY <1>34 DEF JanitorExit, Goto
<1>35. CASE CloseSignal
  BY <1>35 DEF CloseSignal, Goto
<1>36. CASE CloseGrab
  BY <1>36 DEF CloseGrab, Evict, Remaining, Evicted
<1>37. CASE Shutdown
  BY <1>37 DEF Shutdown, Goto
<1>38. ASSUME NEW id \in UploadIDs, Age(id) PROVE FallbackOnlyAfterEviction'
  BY <1>38 DEF Age
<1>39. CASE ProcessStops
  BY <1>39 DEF ProcessStops, Restart, Blank
<1>40. CASE PowerFails
  BY <1>40 DEF PowerFails, Restart, Blank
<1>41. CASE UNCHANGED vars
  BY <1>41
<1> QED
  BY <1>1, <1>2, <1>3, <1>4, <1>5, <1>6, <1>7, <1>8, <1>9, <1>10, <1>11, <1>12,
     <1>13, <1>14, <1>15, <1>16, <1>17, <1>18, <1>19, <1>20, <1>21, <1>22,
     <1>23, <1>24, <1>25, <1>26, <1>27, <1>28, <1>29, <1>30, <1>31, <1>32,
     <1>33, <1>34, <1>35, <1>36, <1>37, <1>38, <1>39, <1>40, <1>41
     DEF Next, Request, Handle, Cleanup, JanitorStep, MainStep, Exited

\* Complete alone never gives up the file it is to replace: it does so only
\* when an abort, an expiry or a storage change has taken its temporary file.
THEOREM FallbackAfterEviction ==
  ASSUME "rename" \notin Faults
  PROVE  Spec => []FallbackOnlyAfterEviction
<1>1. Init => FallbackOnlyAfterEviction
  BY HandlersAreProcs DEF Init, FallbackOnlyAfterEviction
<1>2. SessionInv /\ FallbackOnlyAfterEviction /\ [Next]_vars => FallbackOnlyAfterEviction'
  BY NextFallback DEF SessionInv, IndInv, Protocol, Records
<1> QED
  BY SessionInvHolds, <1>1, <1>2, PTL DEF Spec
=============================================================================

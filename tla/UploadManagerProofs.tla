------------------------ MODULE UploadManagerProofs ------------------------
(***************************************************************************)
(* What chunked uploading guarantees for every number of uploads, chunks,  *)
(* handlers, folders, faults and crashes.  IndInv, which the run           *)
(* "sessions" checks on a small instance, is shown to be inductive: one    *)
(* step per action, and under it TypeOK, ReceivedExact and Protocol.       *)
(***************************************************************************)
EXTENDS UploadManager, FiniteSetTheorems, TLAPS

USE DEF vars, manager, session, disk, goroutine, history

-----------------------------------------------------------------------------
(* Goroutines: every way of moving on keeps their types.                   *)

\* Every upload has room for a chunk 0, the index of a handler at rest.
LEMMA ZeroChunk == 0 \in Chunks
  BY ConstantsAssumption DEF Chunks

\* A handler is neither the janitor nor main.
LEMMA HandlersAreProcs ==
  \A h \in Handlers : h \in Procs /\ h # Main /\ h # Janitor /\ StepsOf(h) = HandlerSteps
  BY ConstantsAssumption DEF Procs, StepsOf

\* The janitor and main are goroutines with steps of their own.
LEMMA OthersAreProcs ==
  /\ Janitor \in Procs /\ StepsOf(Janitor) = JanitorSteps
  /\ Main \in Procs /\ StepsOf(Main) = MainSteps
  BY ConstantsAssumption DEF Procs, StepsOf

\* Cleaning up is a step of every goroutine.
LEMMA AllCleanUp == \A p \in Procs : CleanupSteps \subseteq StepsOf(p)
  BY DEF StepsOf, HandlerSteps, JanitorSteps, MainSteps, CleanupSteps

\* Moving on to one of its steps keeps a goroutine well typed.
LEMMA GotoOK ==
  ASSUME GoroutinesOK, NEW p \in Procs, NEW step \in StepsOf(p), Goto(p, step)
  PROVE  GoroutinesOK'
  BY DEF GoroutinesOK, Goto, StepsOf

\* So does taking up a request ...
LEMMA StartOK ==
  ASSUME GoroutinesOK, NEW h \in Handlers, NEW step \in HandlerSteps,
         NEW id \in UploadIDs, NEW c \in Chunks, Start(h, step, id, c)
  PROVE  GoroutinesOK'
  BY HandlersAreProcs DEF GoroutinesOK, Start, StepsOf

\* ... and answering it ...
LEMMA ReplyOK ==
  ASSUME GoroutinesOK, NEW h \in Handlers, Reply(h)
  PROVE  GoroutinesOK'
  BY HandlersAreProcs, ZeroChunk DEF GoroutinesOK, Reply, StepsOf, HandlerSteps

\* ... and taking sessions off the map.
LEMMA EvictOK ==
  ASSUME GoroutinesOK, NEW p \in Procs, NEW ids \in SUBSET UploadIDs, Evict(p, ids)
  PROVE  GoroutinesOK'
  BY AllCleanUp DEF GoroutinesOK, Evict, Remaining, Evicted, StepsOf, HandlerSteps,
                    JanitorSteps, MainSteps, CleanupSteps

-----------------------------------------------------------------------------
(* Counting chunks.                                                        *)

CompleteIn(states) == {c \in Chunks : states[c] = "complete"}

\* There are MaxChunks chunk indices.
LEMMA ChunksFinite == IsFiniteSet(Chunks) /\ Cardinality(Chunks) = MaxChunks
<1> MaxChunks \in Nat \ {0}
  BY ConstantsAssumption
<1> QED
  BY FS_Interval, 0 \in Int, MaxChunks - 1 \in Int DEF Chunks

\* When receivedCount has reached totalChunks, no chunk is missing.
LEMMA AllReceivedComplete ==
  ASSUME TypeOK, CompleteChunksFull, ReceivedExact, NEW id \in UploadIDs, AllReceived(id)
  PROVE  \A c \in Chunks : c < upload[id].total => chunkState[id][c] = "complete"
<1> DEFINE needed == 0 .. upload[id].total - 1
<1>1. upload[id].total \in 0 .. MaxChunks /\ MaxChunks \in Nat
  BY ConstantsAssumption DEF TypeOK
<1>2. CompleteIn(chunkState[id]) \subseteq needed
  BY <1>1 DEF CompleteIn, CompleteChunksFull, Chunks
<1>3. IsFiniteSet(needed) /\ Cardinality(needed) = upload[id].total
  <2> /\ 0 \in Int /\ upload[id].total - 1 \in Int
      /\ (0 > upload[id].total - 1 <=> upload[id].total = 0)
      /\ upload[id].total - 1 - 0 + 1 = upload[id].total
    BY <1>1
  <2> QED
    BY FS_Interval
<1>4. Cardinality(CompleteIn(chunkState[id])) >= upload[id].total
  BY DEF ReceivedExact, AllReceived, CompleteIn
<1>5. CompleteIn(chunkState[id]) = needed
  <2> /\ Cardinality(CompleteIn(chunkState[id])) \in Nat
      /\ Cardinality(CompleteIn(chunkState[id])) <= upload[id].total
    BY <1>2, <1>3, FS_Subset, FS_CardinalityType
  <2> QED
    BY <1>1, <1>2, <1>3, <1>4, FS_Subset
<1> QED
  BY <1>1, <1>5 DEF CompleteIn, Chunks

\* A set of chunks has at most MaxChunks of them.
LEMMA ChunkSets ==
  ASSUME NEW S \in SUBSET Chunks
  PROVE  IsFiniteSet(S) /\ Cardinality(S) \in 0 .. MaxChunks
<1>1. IsFiniteSet(S) /\ Cardinality(S) \in Nat /\ Cardinality(S) <= MaxChunks
  BY ChunksFinite, FS_Subset, FS_CardinalityType
<1> QED
  BY <1>1, ConstantsAssumption

\* The count stays exact where neither it nor the complete chunks change.
LEMMA ReceivedKept ==
  ASSUME ReceivedExact, received' = received,
         \A id \in UploadIDs : CompleteIn(chunkState'[id]) = CompleteIn(chunkState[id])
  PROVE  ReceivedExact'
  BY DEF ReceivedExact, CompleteIn

\* Mark counts the chunk it completes, and the count stays in range.
LEMMA MarkCounts ==
  ASSUME TypeOK, ReceivedExact, Protocol, NEW h \in Handlers, Mark(h)
  PROVE  ReceivedExact' /\ received' \in [UploadIDs -> 0 .. MaxChunks]
<1> DEFINE u == sid[h]  c == idx[h]  before == CompleteIn(chunkState[u])
<1>1. u \in UploadIDs /\ c \in Chunks /\ chunkState[u][c] = "writing"
  BY HandlersAreProcs
     DEF Mark, Protocol, ServingSession, WriterClaims, TypeOK, GoroutinesOK,
         ServingSteps, WriteSteps
<1>2. /\ chunkState' = [chunkState EXCEPT ![u][c] = "complete"]
      /\ received' = [received EXCEPT ![u] = received[u] + 1]
  BY <1>1 DEF Mark, SetChunk
<1>3. /\ chunkState \in [UploadIDs -> [Chunks -> {"pending", "writing", "complete"}]]
      /\ received \in [UploadIDs -> 0 .. MaxChunks]
  BY DEF TypeOK
<1>4. \A d \in Chunks : chunkState'[u][d] = IF d = c THEN "complete" ELSE chunkState[u][d]
  BY <1>1, <1>2, <1>3
<1>5. CompleteIn(chunkState'[u]) = before \cup {c} /\ c \notin before
  BY <1>1, <1>4 DEF CompleteIn
<1>6. \A id \in UploadIDs : id # u => chunkState'[id] = chunkState[id]
  BY <1>1, <1>2, <1>3
<1>7. \A id \in UploadIDs : received[id] = Cardinality(CompleteIn(chunkState[id]))
  BY DEF ReceivedExact, CompleteIn
<1>8. IsFiniteSet(before)
  BY ChunkSets DEF CompleteIn
<1>9. Cardinality(CompleteIn(chunkState'[u])) = received[u] + 1
  BY <1>1, <1>5, <1>7, <1>8, FS_AddElement, ZenonT(40)
<1>10. ASSUME NEW id \in UploadIDs
       PROVE  received'[id] = Cardinality(CompleteIn(chunkState'[id]))
  <2>1. CASE id = u
    BY <2>1, <1>1, <1>2, <1>3, <1>9
  <2>2. CASE id # u
    BY <2>2, <1>1, <1>2, <1>3, <1>6, <1>7
  <2> QED
    BY <2>1, <2>2
<1>11. ASSUME NEW id \in UploadIDs PROVE received'[id] \in 0 .. MaxChunks
  BY <1>10, ChunkSets DEF CompleteIn
<1>12. ReceivedExact'
  BY <1>10 DEF ReceivedExact, CompleteIn
<1>13. received' \in [UploadIDs -> 0 .. MaxChunks]
  BY <1>1, <1>2, <1>3, <1>11
<1> QED
  BY <1>12, <1>13

\* A process that has just started counts nothing.
LEMMA NothingReceived ==
  ASSUME NEW f, f = Blank("pending")
  PROVE  \A id \in UploadIDs : Cardinality({c \in Chunks : f[id][c] = "complete"}) = 0
<1>1. \A id \in UploadIDs : {c \in Chunks : f[id][c] = "complete"} = {}
  BY DEF Blank
<1> QED
  BY <1>1, FS_EmptySet

-----------------------------------------------------------------------------
(* Restarts.                                                               *)

\* A restart leaves stored files and nobody who remembers a session.
LEMMA RestartProtocol ==
  ASSUME TypeOK, Protocol, Restart, synced' = synced,
         \A id \in synced : upload[id].total # 0 => data'[id] = data[id]
  PROVE  Protocol'
<1> USE DEF Restart, Protocol, ServingSteps, InitSteps, WriteSteps, FinalizeSteps
<1>1. \A h \in Handlers : pc'[h] = "idle"
  BY DEF Procs
<1>2. /\ UndrawnUnknown' /\ InitAlone' /\ ServingSession' /\ WriterClaims'
      /\ OneFinalizer' /\ FinalizerSealed'
  BY <1>1 DEF UndrawnUnknown, InitAlone, ServingSession, WriterClaims,
              OneFinalizer, FinalizerSealed
<1>3. CompleteChunksFull' /\ SealedQuiet'
  BY <1>1 DEF CompleteChunksFull, SealedQuiet, Blank
<1>4. OnlyStoredFiles'
  BY DEF OnlyStoredFiles
<1>5. StoredSettled'
  <2>1. ASSUME NEW id \in stored PROVE id \in synced /\ Whole(id) /\ data'[id] = data[id]
    BY DEF StoredSettled, UndrawnUnknown, TypeOK
  <2>2. \A id \in stored : Whole(id)'
    BY <2>1 DEF Whole
  <2> QED
    BY <1>1, <2>1, <2>2 DEF StoredSettled
<1> QED
  BY <1>2, <1>3, <1>4, <1>5

-----------------------------------------------------------------------------
(* The invariant.                                                          *)

\* It holds before the first request.
LEMMA InitIndInv == Init => IndInv
<1> SUFFICES ASSUME Init PROVE IndInv
  OBVIOUS
<1>1. TypeOK
  BY ZeroChunk, ConstantsAssumption
     DEF Init, TypeOK, GoroutinesOK, Blank, StepsOf, HandlerSteps, JanitorSteps,
         MainSteps
<1>2. ReceivedExact
  BY NothingReceived DEF Init, ReceivedExact
<1>3. Protocol
  BY HandlersAreProcs, ConstantsAssumption
     DEF Init, Protocol, UndrawnUnknown, InitAlone, ServingSession, WriterClaims,
         CompleteChunksFull, SealedQuiet, OneFinalizer, FinalizerSealed,
         StoredSettled, OnlyStoredFiles, Blank, Whole, ServingSteps, InitSteps,
         WriteSteps, FinalizeSteps
<1> QED
  BY <1>1, <1>2, <1>3 DEF IndInv

\* Every step of every goroutine, and every crash, keeps the invariant.
LEMMA NextIndInv == IndInv /\ [Next]_vars => IndInv'
<1> SUFFICES ASSUME TypeOK, ReceivedExact, Protocol, [Next]_vars PROVE IndInv'
  BY DEF IndInv
<1> USE HandlersAreProcs, OthersAreProcs
    DEF UndrawnUnknown, InitAlone, ServingSession, WriterClaims, CompleteChunksFull,
        SealedQuiet, OneFinalizer, FinalizerSealed, StoredSettled, OnlyStoredFiles,
        ServingSteps, InitSteps, WriteSteps, FinalizeSteps
<1>1. ASSUME NEW h \in Handlers, NEW id \in UploadIDs, NEW n \in Names,
            NEW k \in 1 .. MaxChunks, InitBegin(h, id, n, k)
      PROVE  IndInv'
  <2>1. TypeOK'
    BY <1>1, StartOK, ZeroChunk DEF InitBegin, TypeOK, HandlerSteps
  <2>2. ReceivedExact'
    BY <1>1 DEF InitBegin, ReceivedExact
  <2>3. Protocol'
    BY <1>1 DEF InitBegin, Start, Protocol, TypeOK, GoroutinesOK, Chunks, Whole
  <2> QED
    BY <2>1, <2>2, <2>3 DEF IndInv
<1>2. ASSUME NEW h \in Handlers, NEW id \in UploadIDs, NEW c \in Chunks, WriteGet(h, id, c)
      PROVE  IndInv'
  <2>1. TypeOK'
    BY <1>2, StartOK DEF WriteGet, TypeOK, HandlerSteps
  <2>2. ReceivedExact'
    BY <1>2 DEF WriteGet, ReceivedExact
  <2>3. Protocol'
    BY <1>2 DEF WriteGet, Start, Protocol, TypeOK, GoroutinesOK, Whole
  <2> QED
    BY <2>1, <2>2, <2>3 DEF IndInv
<1>3. ASSUME NEW h \in Handlers, NEW id \in UploadIDs, CompleteGet(h, id)
      PROVE  IndInv'
  <2>1. TypeOK'
    BY <1>3, StartOK, ZeroChunk DEF CompleteGet, TypeOK, HandlerSteps
  <2>2. ReceivedExact'
    BY <1>3 DEF CompleteGet, ReceivedExact
  <2>3. Protocol'
    BY <1>3 DEF CompleteGet, Start, Protocol, TypeOK, GoroutinesOK, Whole
  <2> QED
    BY <2>1, <2>2, <2>3 DEF IndInv
<1>4. ASSUME NEW h \in Handlers, NEW id \in UploadIDs, Abort(h, id)
      PROVE  IndInv'
  <2>1. TypeOK'
    <3>1. Evict(h, {id}) /\ {id} \in SUBSET UploadIDs
      BY <1>4 DEF Abort, TypeOK
    <3>2. GoroutinesOK'
      BY <3>1, EvictOK DEF TypeOK
    <3> QED
      BY <1>4, <3>2 DEF Abort, Evict, Remaining, TypeOK, Protocol
  <2>2. ReceivedExact'
    BY <1>4 DEF Abort, ReceivedExact
  <2>3. Protocol'
    BY <1>4 DEF Abort, Evicted, Evict, Remaining, Protocol, TypeOK, GoroutinesOK, Whole
  <2> QED
    BY <2>1, <2>2, <2>3 DEF IndInv
<1>5. ASSUME NEW h \in Handlers, NEW r \in Roots, UpdateStorage(h, r)
      PROVE  IndInv'
  <2>1. TypeOK'
    <3>1. Evict(h, sessions) /\ sessions \in SUBSET UploadIDs
      BY <1>5 DEF UpdateStorage, EvictedByStorage, TypeOK
    <3>2. GoroutinesOK'
      BY <3>1, EvictOK DEF TypeOK
    <3> QED
      BY <1>5, <3>2
         DEF UpdateStorage, EvictedByStorage, InitUnderWay, Evict, Remaining, TypeOK, Protocol
  <2>2. ReceivedExact'
    BY <1>5 DEF UpdateStorage, ReceivedExact
  <2>3. Protocol'
    BY <1>5
       DEF UpdateStorage, Evicted, EvictedByStorage, InitUnderWay, Evict, Remaining,
           Protocol, TypeOK, GoroutinesOK, Whole
  <2> QED
    BY <2>1, <2>2, <2>3 DEF IndInv
<1>6. ASSUME NEW h \in Handlers, InitCreate(h) PROVE IndInv'
  <2>1. TypeOK'
    BY <1>6, GotoOK DEF InitCreate, Protocol, TypeOK, HandlerSteps
  <2>2. ReceivedExact'
    BY <1>6 DEF InitCreate, ReceivedExact
  <2>3. Protocol'
    BY <1>6 DEF InitCreate, Goto, Protocol, TypeOK, GoroutinesOK, Whole
  <2> QED
    BY <2>1, <2>2, <2>3 DEF IndInv
<1>7. ASSUME NEW h \in Handlers, InitCreateFails(h) PROVE IndInv'
  <2>1. TypeOK'
    BY <1>7, ReplyOK DEF InitCreateFails, Discarded, TypeOK
  <2>2. ReceivedExact'
    BY <1>7 DEF InitCreateFails, Discarded, ReceivedExact
  <2>3. Protocol'
    BY <1>7 DEF InitCreateFails, Discarded, Reply, Protocol, TypeOK, GoroutinesOK, Whole
  <2> QED
    BY <2>1, <2>2, <2>3 DEF IndInv
<1>8. ASSUME NEW h \in Handlers, InitRegister(h) PROVE IndInv'
  <2>1. TypeOK'
    BY <1>8, ReplyOK DEF InitRegister, Protocol, TypeOK
  <2>2. ReceivedExact'
    BY <1>8 DEF InitRegister, ReceivedExact
  <2>3. Protocol'
    BY <1>8 DEF InitRegister, Reply, Protocol, TypeOK, GoroutinesOK, Whole
  <2> QED
    BY <2>1, <2>2, <2>3 DEF IndInv
<1>9. ASSUME NEW h \in Handlers, Claim(h) PROVE IndInv'
  <2>1. TypeOK'
    BY <1>9, GotoOK DEF Claim, Claimable, SetChunk, TypeOK, HandlerSteps
  <2>2. ReceivedExact'
    BY <1>9, ReceivedKept
       DEF Claim, Claimable, SetChunk, Goto, Reply, CompleteIn, Protocol, TypeOK,
           GoroutinesOK
  <2>3. Protocol'
    <3> USE <1>9 DEF Claim, Claimable, SetChunk, Goto, Protocol, TypeOK, GoroutinesOK
    <3>1. UndrawnUnknown' /\ InitAlone' /\ ServingSession'
      OBVIOUS
    <3>2. WriterClaims'
      OBVIOUS
    <3>3. CompleteChunksFull' /\ SealedQuiet'
      OBVIOUS
    <3>4. OneFinalizer' /\ FinalizerSealed' /\ OnlyStoredFiles'
      OBVIOUS
    <3>5. StoredSettled'
      BY DEF Whole
    <3> QED
      BY <3>1, <3>2, <3>3, <3>4, <3>5
  <2> QED
    BY <2>1, <2>2, <2>3 DEF IndInv
<1>10. ASSUME NEW h \in Handlers, ClaimDuplicate(h) PROVE IndInv'
  <2>1. TypeOK'
    BY <1>10, ReplyOK DEF ClaimDuplicate, TypeOK
  <2>2. ReceivedExact'
    BY <1>10 DEF ClaimDuplicate, ReceivedExact
  <2>3. Protocol'
    BY <1>10 DEF ClaimDuplicate, Reply, Protocol, TypeOK, GoroutinesOK, Whole
  <2> QED
    BY <2>1, <2>2, <2>3 DEF IndInv
<1>11. ASSUME NEW h \in Handlers, ClaimRefused(h) PROVE IndInv'
  <2>1. TypeOK'
    BY <1>11, ReplyOK DEF ClaimRefused, TypeOK
  <2>2. ReceivedExact'
    BY <1>11 DEF ClaimRefused, ReceivedExact
  <2>3. Protocol'
    BY <1>11 DEF ClaimRefused, Reply, Protocol, TypeOK, GoroutinesOK, Whole
  <2> QED
    BY <2>1, <2>2, <2>3 DEF IndInv
<1>12. ASSUME NEW h \in Handlers, Copy(h) PROVE IndInv'
  <2>1. TypeOK'
    BY <1>12, GotoOK DEF Copy, Contents, TypeOK, HandlerSteps
  <2>2. ReceivedExact'
    BY <1>12 DEF Copy, ReceivedExact
  <2>3. Protocol'
    <3> USE <1>12 DEF Copy, Contents, Goto, Protocol, TypeOK, GoroutinesOK
    <3>1. UndrawnUnknown' /\ InitAlone' /\ ServingSession'
      OBVIOUS
    <3>2. WriterClaims'
      OBVIOUS
    <3>3. CompleteChunksFull' /\ SealedQuiet'
      OBVIOUS
    <3>4. OneFinalizer' /\ FinalizerSealed' /\ OnlyStoredFiles'
      OBVIOUS
    <3>5. StoredSettled'
      BY DEF Whole
    <3> QED
      BY <3>1, <3>2, <3>3, <3>4, <3>5
  <2> QED
    BY <2>1, <2>2, <2>3 DEF IndInv
<1>13. ASSUME NEW h \in Handlers, CopyFails(h) PROVE IndInv'
  <2>1. TypeOK'
    <3>1. GoroutinesOK'
      BY <1>13, GotoOK DEF CopyFails, TypeOK, HandlerSteps
    <3>2. /\ data' \in [UploadIDs -> [Chunks -> {"missing", "torn", "full"}]]
          /\ synced' \subseteq UploadIDs
      <4>1. CASE Contents(sid[h], idx[h], "torn")
        BY <4>1 DEF Contents, TypeOK
      <4>2. CASE UNCHANGED <<data, synced>>
        BY <4>2 DEF TypeOK
      <4> QED
        BY <1>13, <4>1, <4>2 DEF CopyFails
    <3> QED
      BY <1>13, <3>1, <3>2 DEF CopyFails, TypeOK
  <2>2. ReceivedExact'
    BY <1>13 DEF CopyFails, ReceivedExact
  <2>3. Protocol'
    <3>1. CASE Contents(sid[h], idx[h], "torn")
      BY <1>13, <3>1 DEF CopyFails, Contents, Goto, Protocol, TypeOK, GoroutinesOK, Whole
    <3>2. CASE UNCHANGED <<data, synced>>
      BY <1>13, <3>2 DEF CopyFails, Goto, Protocol, TypeOK, GoroutinesOK, Whole
    <3> QED
      BY <1>13, <3>1, <3>2 DEF CopyFails
  <2> QED
    BY <2>1, <2>2, <2>3 DEF IndInv
<1>14. ASSUME NEW h \in Handlers, Mark(h) PROVE IndInv'
  <2>1. TypeOK'
    BY <1>14, MarkCounts, ReplyOK DEF Mark, SetChunk, TypeOK
  <2>2. ReceivedExact'
    BY <1>14, MarkCounts
  <2>3. Protocol'
    <3>1. (UndrawnUnknown /\ InitAlone /\ ServingSession)'
      BY <1>14 DEF Mark, SetChunk, Reply, Protocol, TypeOK, GoroutinesOK, Whole
    <3>2. (WriterClaims /\ CompleteChunksFull /\ SealedQuiet)'
      BY <1>14 DEF Mark, SetChunk, Reply, Protocol, TypeOK, GoroutinesOK, Whole
    <3>3. (OneFinalizer /\ FinalizerSealed /\ StoredSettled /\ OnlyStoredFiles)'
      BY <1>14 DEF Mark, SetChunk, Reply, Protocol, TypeOK, GoroutinesOK, Whole
    <3> QED
      BY <3>1, <3>2, <3>3 DEF Protocol
  <2> QED
    BY <2>1, <2>2, <2>3 DEF IndInv
<1>15. ASSUME NEW h \in Handlers, Unmark(h) PROVE IndInv'
  <2>1. TypeOK'
    BY <1>15, ReplyOK DEF Unmark, SetChunk, AfterFailure, TypeOK
  <2>2. ReceivedExact'
    BY <1>15, ReceivedKept
       DEF Unmark, SetChunk, AfterFailure, Goto, Reply, CompleteIn, Protocol,
           TypeOK, GoroutinesOK
  <2>3. Protocol'
    BY <1>15
       DEF Unmark, SetChunk, AfterFailure, Reply, Protocol, TypeOK, GoroutinesOK, Whole
  <2> QED
    BY <2>1, <2>2, <2>3 DEF IndInv
<1>16. ASSUME NEW h \in Handlers, Seal(h) PROVE IndInv'
  <2>1. TypeOK'
    BY <1>16, GotoOK DEF Seal, Sealable, TypeOK, HandlerSteps
  <2>2. ReceivedExact'
    BY <1>16 DEF Seal, ReceivedExact
  <2>3. Protocol'
    <3>1. \A c \in Chunks : c < upload[sid[h]].total => chunkState[sid[h]][c] = "complete"
      BY <1>16, AllReceivedComplete DEF Seal, Sealable, Protocol
    <3> QED
      <4> USE <1>16 DEF Seal, Sealable, Goto, Protocol, TypeOK, GoroutinesOK
      <4>1. UndrawnUnknown' /\ InitAlone' /\ ServingSession'
        OBVIOUS
      <4>2. WriterClaims' /\ SealedQuiet'
        BY <3>1
      <4>3. CompleteChunksFull' /\ OnlyStoredFiles'
        OBVIOUS
      <4>4. OneFinalizer' /\ FinalizerSealed'
        OBVIOUS
      <4>5. StoredSettled'
        BY DEF Whole
      <4> QED
        BY <4>1, <4>2, <4>3, <4>4, <4>5
  <2> QED
    BY <2>1, <2>2, <2>3 DEF IndInv
<1>17. ASSUME NEW h \in Handlers, SealedAlready(h) PROVE IndInv'
  <2>1. TypeOK'
    BY <1>17, ReplyOK DEF SealedAlready, Protocol, TypeOK
  <2>2. ReceivedExact'
    BY <1>17 DEF SealedAlready, ReceivedExact
  <2>3. Protocol'
    BY <1>17 DEF SealedAlready, Reply, Protocol, TypeOK, GoroutinesOK, Whole
  <2> QED
    BY <2>1, <2>2, <2>3 DEF IndInv
<1>18. ASSUME NEW h \in Handlers, SealIncomplete(h) PROVE IndInv'
  <2>1. TypeOK'
    BY <1>18, ReplyOK DEF SealIncomplete, TypeOK
  <2>2. ReceivedExact'
    BY <1>18 DEF SealIncomplete, ReceivedExact
  <2>3. Protocol'
    BY <1>18 DEF SealIncomplete, Reply, Protocol, TypeOK, GoroutinesOK, Whole
  <2> QED
    BY <2>1, <2>2, <2>3 DEF IndInv
<1>19. ASSUME NEW h \in Handlers, Sync(h) PROVE IndInv'
  <2>1. TypeOK'
    BY <1>19, GotoOK DEF Sync, Synced, TypeOK, HandlerSteps
  <2>2. ReceivedExact'
    BY <1>19 DEF Sync, ReceivedExact
  <2>3. Protocol'
    BY <1>19 DEF Sync, Synced, Goto, Protocol, TypeOK, GoroutinesOK, Whole
  <2> QED
    BY <2>1, <2>2, <2>3 DEF IndInv
<1>20. ASSUME NEW h \in Handlers, SyncFails(h) PROVE IndInv'
  <2>1. TypeOK'
    BY <1>20, ReplyOK DEF SyncFails, TypeOK
  <2>2. ReceivedExact'
    BY <1>20 DEF SyncFails, ReceivedExact
  <2>3. Protocol'
    BY <1>20 DEF SyncFails, Reply, Protocol, TypeOK, GoroutinesOK, Whole
  <2> QED
    BY <2>1, <2>2, <2>3 DEF IndInv
<1>21. ASSUME NEW h \in Handlers, Close(h) PROVE IndInv'
  <2>1. TypeOK'
    BY <1>21, GotoOK DEF Close, TypeOK, HandlerSteps
  <2>2. ReceivedExact'
    BY <1>21 DEF Close, ReceivedExact
  <2>3. Protocol'
    BY <1>21 DEF Close, Goto, Protocol, TypeOK, GoroutinesOK, Whole
  <2> QED
    BY <2>1, <2>2, <2>3 DEF IndInv
<1>22. ASSUME NEW h \in Handlers, CloseFails(h) PROVE IndInv'
  <2>1. TypeOK'
    BY <1>22, ReplyOK DEF CloseFails, TypeOK
  <2>2. ReceivedExact'
    BY <1>22 DEF CloseFails, ReceivedExact
  <2>3. Protocol'
    BY <1>22 DEF CloseFails, Reply, Protocol, TypeOK, GoroutinesOK, Whole
  <2> QED
    BY <2>1, <2>2, <2>3 DEF IndInv
<1>23. ASSUME NEW h \in Handlers, Rename(h) PROVE IndInv'
  <2>1. TypeOK'
    BY <1>23, GotoOK DEF Rename, RenameStep, Stand, TypeOK, HandlerSteps
  <2>2. ReceivedExact'
    BY <1>23 DEF Rename, RenameStep, ReceivedExact
  <2>3. Protocol'
    <3>1. (UndrawnUnknown /\ InitAlone /\ ServingSession)'
      BY <1>23 DEF Rename, RenameStep, Stand, Goto, Protocol, TypeOK, GoroutinesOK, Whole
    <3>2. (WriterClaims /\ CompleteChunksFull /\ SealedQuiet)'
      BY <1>23 DEF Rename, RenameStep, Stand, Goto, Protocol, TypeOK, GoroutinesOK, Whole
    <3>3. (OneFinalizer /\ FinalizerSealed)'
      BY <1>23 DEF Rename, RenameStep, Stand, Goto, Protocol, TypeOK, GoroutinesOK, Whole
    <3>4. StoredSettled'
      BY <1>23 DEF Rename, RenameStep, Stand, Goto, Protocol, TypeOK, GoroutinesOK, Whole
    <3>5. OnlyStoredFiles'
      BY <1>23 DEF Rename, RenameStep, Stand, Goto, Protocol, TypeOK, GoroutinesOK, Whole
    <3> QED
      BY <3>1, <3>2, <3>3, <3>4, <3>5 DEF Protocol
  <2> QED
    BY <2>1, <2>2, <2>3 DEF IndInv
<1>24. ASSUME NEW h \in Handlers, RenameFails(h) PROVE IndInv'
  <2>1. TypeOK'
    BY <1>24, GotoOK DEF RenameFails, TypeOK, HandlerSteps
  <2>2. ReceivedExact'
    BY <1>24 DEF RenameFails, ReceivedExact
  <2>3. Protocol'
    BY <1>24 DEF RenameFails, Goto, Protocol, TypeOK, GoroutinesOK, Whole
  <2> QED
    BY <2>1, <2>2, <2>3 DEF IndInv
<1>25. ASSUME NEW h \in Handlers, Displace(h) PROVE IndInv'
  <2>1. TypeOK'
    BY <1>25, GotoOK DEF Displace, Stand, TypeOK, HandlerSteps
  <2>2. ReceivedExact'
    BY <1>25 DEF Displace, ReceivedExact
  <2>3. Protocol'
    <3> USE <1>25 DEF Displace, Goto, Protocol, TypeOK, GoroutinesOK
    <3>1. OnlyStoredFiles'
      BY ConstantsAssumption DEF Stand
    <3>2. StoredSettled'
      BY DEF Whole
    <3>3. UndrawnUnknown' /\ InitAlone' /\ ServingSession'
      OBVIOUS
    <3>4. WriterClaims' /\ CompleteChunksFull' /\ SealedQuiet'
      OBVIOUS
    <3>5. OneFinalizer' /\ FinalizerSealed'
      OBVIOUS
    <3> QED
      BY <3>1, <3>2, <3>3, <3>4, <3>5
  <2> QED
    BY <2>1, <2>2, <2>3 DEF IndInv
<1>26. ASSUME NEW h \in Handlers, DisplaceFails(h) PROVE IndInv'
  <2>1. TypeOK'
    BY <1>26, ReplyOK DEF DisplaceFails, TypeOK
  <2>2. ReceivedExact'
    BY <1>26 DEF DisplaceFails, ReceivedExact
  <2>3. Protocol'
    BY <1>26 DEF DisplaceFails, Reply, Protocol, TypeOK, GoroutinesOK, Whole
  <2> QED
    BY <2>1, <2>2, <2>3 DEF IndInv
<1>27. ASSUME NEW h \in Handlers, RenameAgain(h) PROVE IndInv'
  <2>1. TypeOK'
    BY <1>27, GotoOK DEF RenameAgain, RenameStep, Stand, TypeOK, HandlerSteps
  <2>2. ReceivedExact'
    BY <1>27 DEF RenameAgain, RenameStep, ReceivedExact
  <2>3. Protocol'
    <3>1. (UndrawnUnknown /\ InitAlone /\ ServingSession)'
      BY <1>27 DEF RenameAgain, RenameStep, Stand, Goto, Protocol, TypeOK, GoroutinesOK, Whole
    <3>2. (WriterClaims /\ CompleteChunksFull /\ SealedQuiet)'
      BY <1>27 DEF RenameAgain, RenameStep, Stand, Goto, Protocol, TypeOK, GoroutinesOK, Whole
    <3>3. (OneFinalizer /\ FinalizerSealed)'
      BY <1>27 DEF RenameAgain, RenameStep, Stand, Goto, Protocol, TypeOK, GoroutinesOK, Whole
    <3>4. StoredSettled'
      BY <1>27 DEF RenameAgain, RenameStep, Stand, Goto, Protocol, TypeOK, GoroutinesOK, Whole
    <3>5. OnlyStoredFiles'
      BY <1>27 DEF RenameAgain, RenameStep, Stand, Goto, Protocol, TypeOK, GoroutinesOK, Whole
    <3> QED
      BY <3>1, <3>2, <3>3, <3>4, <3>5 DEF Protocol
  <2> QED
    BY <2>1, <2>2, <2>3 DEF IndInv
<1>28. ASSUME NEW h \in Handlers, RenameAgainFails(h) PROVE IndInv'
  <2>1. TypeOK'
    BY <1>28, ReplyOK DEF RenameAgainFails, TypeOK
  <2>2. ReceivedExact'
    BY <1>28 DEF RenameAgainFails, ReceivedExact
  <2>3. Protocol'
    BY <1>28 DEF RenameAgainFails, Reply, Protocol, TypeOK, GoroutinesOK, Whole
  <2> QED
    BY <2>1, <2>2, <2>3 DEF IndInv
<1>29. ASSUME NEW h \in Handlers, Forget(h) PROVE IndInv'
  <2>1. TypeOK'
    BY <1>29, ReplyOK DEF Forget, Protocol, TypeOK
  <2>2. ReceivedExact'
    BY <1>29 DEF Forget, ReceivedExact
  <2>3. Protocol'
    BY <1>29 DEF Forget, Reply, Protocol, TypeOK, GoroutinesOK, Whole
  <2> QED
    BY <2>1, <2>2, <2>3 DEF IndInv
<1>30. ASSUME NEW p \in Procs, NEW id \in UploadIDs, CleanupClose(p, id)
      PROVE  IndInv'
  <2>1. TypeOK'
    BY <1>30, AllCleanUp
       DEF CleanupClose, TypeOK, GoroutinesOK, CleanupSteps, StepsOf,
           HandlerSteps, JanitorSteps, MainSteps
  <2>2. ReceivedExact'
    BY <1>30 DEF CleanupClose, ReceivedExact
  <2>3. Protocol'
    BY <1>30 DEF CleanupClose, Protocol, TypeOK, GoroutinesOK, Whole
  <2> QED
    BY <2>1, <2>2, <2>3 DEF IndInv
<1>31. ASSUME NEW p \in Procs, CleanupUnlink(p) PROVE IndInv'
  <2>1. TypeOK'
    BY <1>31, AllCleanUp
       DEF CleanupUnlink, Unlinked, TypeOK, GoroutinesOK, CleanupSteps, StepsOf,
           HandlerSteps, JanitorSteps, MainSteps
  <2>2. ReceivedExact'
    BY <1>31 DEF CleanupUnlink, ReceivedExact
  <2>3. Protocol'
    BY <1>31 DEF CleanupUnlink, Unlinked, Protocol, TypeOK, GoroutinesOK, Whole
  <2> QED
    BY <2>1, <2>2, <2>3 DEF IndInv
<1>32. ASSUME NEW p \in Procs, CleanupDone(p) PROVE IndInv'
  <2>1. TypeOK'
    BY <1>32, GotoOK
       DEF CleanupDone, AfterCleanup, TypeOK, StepsOf, HandlerSteps,
           JanitorSteps, MainSteps
  <2>2. ReceivedExact'
    BY <1>32 DEF CleanupDone, ReceivedExact
  <2>3. Protocol'
    BY <1>32 DEF CleanupDone, AfterCleanup, Goto, Protocol, TypeOK, GoroutinesOK, Whole
  <2> QED
    BY <2>1, <2>2, <2>3 DEF IndInv
<1>33. CASE Expire
  <2>1. TypeOK'
    <3>1. /\ Evict(Janitor, {u \in sessions : stale[u]})
          /\ {u \in sessions : stale[u]} \in SUBSET UploadIDs
      BY <1>33 DEF Expire, TypeOK
    <3>2. GoroutinesOK'
      BY <3>1, EvictOK DEF TypeOK
    <3> QED
      BY <1>33, <3>2 DEF Expire, Evict, Remaining, TypeOK, Protocol
  <2>2. ReceivedExact'
    BY <1>33 DEF Expire, ReceivedExact
  <2>3. Protocol'
    BY <1>33 DEF Expire, Evicted, Evict, Remaining, Protocol, TypeOK, GoroutinesOK, Whole
  <2> QED
    BY <2>1, <2>2, <2>3 DEF IndInv
<1>34. CASE JanitorExit
  <2>1. TypeOK'
    BY <1>34, GotoOK DEF JanitorExit, TypeOK, HandlerSteps, JanitorSteps
  <2>2. ReceivedExact'
    BY <1>34 DEF JanitorExit, ReceivedExact
  <2>3. Protocol'
    BY <1>34 DEF JanitorExit, Goto, Protocol, TypeOK, GoroutinesOK, Whole
  <2> QED
    BY <2>1, <2>2, <2>3 DEF IndInv
<1>35. CASE CloseSignal
  <2>1. TypeOK'
    BY <1>35, GotoOK DEF CloseSignal, TypeOK, HandlerSteps, MainSteps
  <2>2. ReceivedExact'
    BY <1>35 DEF CloseSignal, ReceivedExact
  <2>3. Protocol'
    BY <1>35 DEF CloseSignal, Goto, Protocol, TypeOK, GoroutinesOK, Whole
  <2> QED
    BY <2>1, <2>2, <2>3 DEF IndInv
<1>36. CASE CloseGrab
  <2>1. TypeOK'
    BY <1>36, EvictOK DEF CloseGrab, TypeOK, Evict, Remaining
  <2>2. ReceivedExact'
    BY <1>36 DEF CloseGrab, ReceivedExact
  <2>3. Protocol'
    BY <1>36 DEF CloseGrab, Evicted, Evict, Remaining, Protocol, TypeOK, GoroutinesOK, Whole
  <2> QED
    BY <2>1, <2>2, <2>3 DEF IndInv
<1>37. CASE Shutdown
  <2>1. TypeOK'
    BY <1>37, GotoOK DEF Shutdown, TypeOK, HandlerSteps, MainSteps
  <2>2. ReceivedExact'
    BY <1>37 DEF Shutdown, ReceivedExact
  <2>3. Protocol'
    BY <1>37 DEF Shutdown, Goto, Protocol, TypeOK, GoroutinesOK, Whole
  <2> QED
    BY <2>1, <2>2, <2>3 DEF IndInv
<1>38. ASSUME NEW id \in UploadIDs, Age(id) PROVE IndInv'
  <2>1. TypeOK'
    BY <1>38 DEF Age, TypeOK, GoroutinesOK
  <2>2. ReceivedExact'
    BY <1>38 DEF Age, ReceivedExact
  <2>3. Protocol'
    BY <1>38 DEF Age, Protocol, TypeOK, GoroutinesOK, Whole
  <2> QED
    BY <2>1, <2>2, <2>3 DEF IndInv
<1>39. CASE ProcessStops
  <2>1. TypeOK'
    BY <1>39, ZeroChunk, NothingReceived, ConstantsAssumption
       DEF ProcessStops, Restart, TypeOK, GoroutinesOK, Blank, StepsOf,
           HandlerSteps, JanitorSteps, MainSteps
  <2>2. ReceivedExact'
    BY <1>39, NothingReceived DEF ProcessStops, Restart, ReceivedExact
  <2>3. Protocol'
    BY <1>39, RestartProtocol DEF ProcessStops, Restart, TypeOK
  <2> QED
    BY <2>1, <2>2, <2>3 DEF IndInv
<1>40. CASE PowerFails
  <2>1. TypeOK'
    BY <1>40, ZeroChunk, NothingReceived, ConstantsAssumption
       DEF PowerFails, Restart, TypeOK, GoroutinesOK, Blank, StepsOf,
           HandlerSteps, JanitorSteps, MainSteps
  <2>2. ReceivedExact'
    BY <1>40, NothingReceived DEF PowerFails, Restart, ReceivedExact
  <2>3. Protocol'
    BY <1>40, RestartProtocol DEF PowerFails, Restart, TypeOK
  <2> QED
    BY <2>1, <2>2, <2>3 DEF IndInv
<1>41. CASE UNCHANGED vars
  BY <1>41 DEF IndInv, TypeOK, GoroutinesOK, ReceivedExact, Protocol, Whole, StepsOf
<1> QED
  BY <1>1, <1>2, <1>3, <1>4, <1>5, <1>6, <1>7, <1>8, <1>9, <1>10, <1>11,
     <1>12, <1>13, <1>14, <1>15, <1>16, <1>17, <1>18, <1>19, <1>20, <1>21,
     <1>22, <1>23, <1>24, <1>25, <1>26, <1>27, <1>28, <1>29, <1>30, <1>31,
     <1>32, <1>33, <1>34, <1>35, <1>36, <1>37, <1>38, <1>39, <1>40, <1>41
     DEF Next, Request, Handle, Cleanup, JanitorStep, MainStep, Exited

-----------------------------------------------------------------------------
(* The theorems.                                                           *)

\* The invariant holds in every reachable state.
THEOREM IndInvHolds == Spec => []IndInv
  BY InitIndInv, NextIndInv, PTL DEF Spec

\* Every variable keeps its type: no request, fault or crash drives the
\* session table or a goroutine into a state the code has no case for.
THEOREM TypesHold == Spec => []TypeOK
<1>1. IndInv => TypeOK
  BY DEF IndInv
<1> QED
  BY <1>1, IndInvHolds, PTL

\* receivedCount is always the number of complete chunks.
THEOREM ReceivedCountExact == Spec => []ReceivedExact
<1>1. IndInv => ReceivedExact
  BY DEF IndInv
<1> QED
  BY <1>1, IndInvHolds, PTL

\* Nobody writes to a sealed upload.
THEOREM SealedStaysQuiet == Spec => []SealedQuiet
<1>1. IndInv => SealedQuiet
  BY DEF IndInv, Protocol
<1> QED
  BY <1>1, IndInvHolds, PTL

\* An upload is finalized by one Complete at a time.
THEOREM SingleFinalizer == Spec => []OneFinalizer
<1>1. IndInv => OneFinalizer
  BY DEF IndInv, Protocol
<1> QED
  BY <1>1, IndInvHolds, PTL

\* A file under a final name is whole, with any number of concurrent writes,
\* retries, aborts, expiries, storage changes, faults and power failures.
THEOREM FinalFilesIntact == Spec => []FinalFileIntact
<1>1. IndInv => FinalFileIntact
  BY DEF IndInv, Protocol, OnlyStoredFiles, StoredSettled, FinalFileIntact
<1> QED
  BY <1>1, IndInvHolds, PTL
=============================================================================

------------------------- MODULE UploadClientProofs -------------------------
(***************************************************************************)
(* The upload script and the upload manager together, for every number of  *)
(* workers, attempts, handlers and chunks, whatever breaks on the way.     *)
(* Every step of the composition is one of UploadManager, so that all of   *)
(* its theorems hold of the composition; and ClientInv is inductive        *)
(* relative to SessionInv, which gives ToldStored and CompleteFindsAll.    *)
(***************************************************************************)
EXTENDS UploadClient, UploadFolderProofs

USE DEF vars, manager, session, disk, goroutine, history,
        loop, connection, client, clientVars

-----------------------------------------------------------------------------
(* What the server does, as far as the script can tell.                    *)

\* What is on the server for good while the process lives.
Lasting ==
  /\ upload' = upload /\ stored \subseteq stored'
  /\ \A id \in UploadIDs, c \in Chunks :
       chunkState[id][c] = "complete" => chunkState'[id][c] = "complete"

Stays(g) == pc'[g] = pc[g] /\ sid'[g] = sid[g] /\ idx'[g] = idx[g]

\* A goroutine goes on with its request, or begins one of an administrator.
GoesOn(g) ==
  \/ Stays(g)
  \/ pc[g] \in InitSteps /\ pc'[g] \in InitSteps /\ sid'[g] = sid[g]
  \/ /\ pc[g] \in {"claim"} \cup WriteSteps /\ pc'[g] \in WriteSteps
     /\ sid'[g] = sid[g] /\ idx'[g] = idx[g]
  \/ /\ pc[g] \in {"seal"} \cup FinalizeSteps /\ pc'[g] \in FinalizeSteps
     /\ sid'[g] = sid[g] /\ (pc'[g] = "forget" => sid[g] \in stored')
  \/ pc[g] \in {"idle"} \cup CleanupSteps /\ pc'[g] \in CleanupSteps

\* A step in which nobody is answered.
Background ==
  /\ Lasting /\ sessions' \subseteq sessions
  /\ \A id \in UploadIDs : completed'[id] =>
       completed[id] \/ \E h \in Handlers : pc'[h] \in FinalizeSteps /\ sid'[h] = id
  /\ \A g \in Handlers : GoesOn(g)

\* The last step of a request, with the status of its answer.
Finishes(h, status) ==
  /\ Lasting /\ stored' = stored /\ completed' = completed
  /\ sessions' \subseteq sessions \cup {id \in UploadIDs : pc[h] \in InitSteps /\ id = sid[h]}
  /\ pc'[h] = "idle" /\ \A g \in Handlers : g # h => Stays(g)
  /\ pc[h] \in InitSteps \cup {"claim"} \cup WriteSteps \cup {"seal"} \cup FinalizeSteps
                 \cup CleanupSteps
  /\ status = "ok" /\ pc[h] \in {"claim"} \cup WriteSteps =>
       chunkState'[sid[h]][idx[h]] = "complete"
  /\ status = "ok" /\ pc[h] \in {"seal"} \cup FinalizeSteps =>
       IF pc[h] = "seal" THEN completed[sid[h]] ELSE pc[h] = "forget"

\* Work on a request whose end is still to come.
LEMMA WorkInBackground ==
  ASSUME TypeOK, ServingSession, WriterClaims, NEW h \in Handlers, Work(h)
  PROVE  Background
<1> USE HandlersAreProcs
    DEF Background, Lasting, GoesOn, Stays, TypeOK, GoroutinesOK, ServingSession, ServingSteps,
        InitSteps, WriteSteps, FinalizeSteps, CleanupSteps
<1>1. CASE InitCreate(h)
  BY <1>1 DEF InitCreate, Goto
<1>2. CASE Claim(h)
  BY <1>2 DEF Claim, Claimable, SetChunk, Goto
<1>3. CASE Copy(h) \/ CopyFails(h)
  BY <1>3 DEF Copy, CopyFails, Contents, Goto
<1>4. CASE Seal(h)
  BY <1>4 DEF Seal, Sealable, Goto
<1>5. CASE Sync(h) \/ Close(h)
  BY <1>5 DEF Sync, Close, Goto
<1>6. CASE Rename(h)
  BY <1>6 DEF Rename, RenameStep, Stand, Goto
<1>7. CASE RenameAgain(h)
  BY <1>7 DEF RenameAgain, RenameStep, Stand, Goto
<1>8. CASE RenameFails(h) \/ Displace(h)
  BY <1>8 DEF RenameFails, Displace, Stand, Goto
<1>9. CASE \E id \in UploadIDs : CleanupClose(h, id)
  BY <1>9 DEF CleanupClose
<1>10. CASE CleanupUnlink(h)
  BY <1>10 DEF CleanupUnlink, Unlinked
<1> QED
  BY <1>1, <1>2, <1>3, <1>4, <1>5, <1>6, <1>7, <1>8, <1>9, <1>10 DEF Work

\* The janitor, the main goroutine, the administrator and time.
LEMMA ElsewhereInBackground ==
  ASSUME TypeOK, Elsewhere
  PROVE  Background
<1> USE HandlersAreProcs, OthersAreProcs
    DEF Background, Lasting, GoesOn, Stays, TypeOK, GoroutinesOK, CleanupSteps
<1>1. ASSUME NEW p \in {Janitor, Main}, Cleanup(p) PROVE Background
  BY <1>1 DEF Cleanup, CleanupClose, CleanupUnlink, Unlinked, CleanupDone, AfterCleanup, Goto
<1>2. CASE Expire
  BY <1>2 DEF Expire, Evict, Remaining, Evicted
<1>3. CASE CloseGrab
  BY <1>3 DEF CloseGrab, Evict, Remaining, Evicted
<1>4. CASE JanitorExit \/ CloseSignal \/ Shutdown
  BY <1>4 DEF JanitorExit, CloseSignal, Shutdown, Goto
<1>5. ASSUME NEW id \in UploadIDs, Age(id) PROVE Background
  BY <1>5 DEF Age
<1>6. ASSUME NEW h \in Handlers, NEW r \in Roots, UpdateStorage(h, r) PROVE Background
  BY <1>6 DEF UpdateStorage, Evict, Remaining, Evicted, EvictedByStorage
<1>7. CASE Exited
  BY <1>7 DEF Exited
<1> QED
  BY <1>1, <1>2, <1>3, <1>4, <1>5, <1>6, <1>7 DEF Elsewhere, JanitorStep, MainStep

\* Every answered request ends with a step of this kind.
LEMMA AnswersFinish ==
  ASSUME TypeOK, ServingSession, WriterClaims, NEW h \in Handlers,
         InitAnswered(h) \/ ChunkAnswered(h) \/ CompleteAnswered(h) \/ AbortAnswered(h)
  PROVE  \E status \in {"ok", "cut", "refused", "failed"} : Answer(h, status) /\ Finishes(h, status)
<1> USE HandlersAreProcs
    DEF Finishes, Lasting, Stays, TypeOK, GoroutinesOK, ServingSession, ServingSteps,
        InitSteps, WriteSteps, FinalizeSteps, CleanupSteps
<1>1. CASE InitAnswered(h)
  BY <1>1 DEF InitAnswered, InitRegister, InitCreateFails, Discarded, Reply
<1>2. CASE ChunkAnswered(h)
  <2>1. CASE ClaimDuplicate(h) /\ Answer(h, "ok")
    BY <2>1 DEF ClaimDuplicate, Reply
  <2>2. CASE Mark(h) /\ Answer(h, "ok")
    BY <2>2 DEF Mark, SetChunk, Reply
  <2>3. CASE RefusedChunk(h) /\ Answer(h, "refused")
    BY <2>3 DEF RefusedChunk, ClaimRefused, Reply
  <2>4. CASE Unmark(h) /\ Answer(h, "failed")
    <3>1. chunkState[sid[h]][idx[h]] = "writing"
      BY <2>4 DEF Unmark, WriterClaims
    <3> QED
      BY <2>4, <3>1 DEF Unmark, SetChunk, AfterFailure, Reply
  <2> QED
    BY <1>2, <2>1, <2>2, <2>3, <2>4 DEF ChunkAnswered
<1>3. CASE CompleteAnswered(h)
  <2>1. CASE SealedAlready(h) /\ Answer(h, "ok")
    BY <2>1 DEF SealedAlready, Reply
  <2>2. CASE Forget(h) /\ Answer(h, "ok")
    BY <2>2 DEF Forget, Reply
  <2>3. CASE (SealIncomplete(h) \/ SyncFails(h) \/ CloseFails(h)) /\ Answer(h, "failed")
    BY <2>3 DEF SealIncomplete, SyncFails, CloseFails, Reply
  <2>4. CASE (DisplaceFails(h) \/ RenameAgainFails(h)) /\ Answer(h, "failed")
    BY <2>4 DEF DisplaceFails, RenameAgainFails, Reply
  <2> QED
    BY <1>3, <2>1, <2>2, <2>3, <2>4 DEF CompleteAnswered
<1>4. CASE AbortAnswered(h)
  BY <1>4 DEF AbortAnswered, CleanupDone, AfterCleanup, Goto
<1> QED
  BY <1>1, <1>2, <1>3, <1>4

-----------------------------------------------------------------------------
(* The script and its workers.                                             *)

\* Whoever waits for an answer, or is about to ask, needs one.
Waiting(f) == IF f = Script THEN script \in {"init", "complete", "abort"}
              ELSE f \in Workers /\ script = "sending" /\ worker[f].at = "send"

\* What an answer to a worker does (script.js:278-306).
LEMMA WorkerAnswered ==
  ASSUME ClientTypeOK, ScriptInStep, NEW w \in Workers, Waiting(w), NEW status,
         WorkerGets(w, status)
  PROVE  /\ worker' \in [Workers -> [at : {"next", "send", "done"}, chunk : Chunks,
                                     attempt : 1 .. MaxAttempts]]
         /\ failed' \in BOOLEAN /\ (failed => failed')
         /\ \A v \in Workers : v # w => worker'[v] = worker[v]
         /\ worker'[w].chunk = worker[w].chunk
         /\ worker'[w].at = "next" <=> status = "ok"
         /\ worker'[w].at = "done" => failed'
<1> USE ClientAssumption DEF ClientTypeOK, WorkerGets, GivesUp, Delivered, Waiting
<1>1. worker[w].attempt \in 1 .. MaxAttempts /\ worker[w].chunk \in Chunks
  OBVIOUS
<1>2. ~Delivered(status) /\ ~GivesUp(w, status) => worker[w].attempt + 1 \in 1 .. MaxAttempts
  BY <1>1
<1> DEFINE at == IF Delivered(status) THEN "next"
                 ELSE IF GivesUp(w, status) THEN "done" ELSE "send"
           k == IF Delivered(status) \/ GivesUp(w, status) THEN worker[w].attempt
                ELSE worker[w].attempt + 1
<1> HIDE DEF at, k
<1>3. worker' = [worker EXCEPT ![w].at = at, ![w].attempt = k]
  BY DEF at, k
<1>4. at \in {"next", "send", "done"} /\ k \in 1 .. MaxAttempts
  BY <1>1, <1>2 DEF at, k
<1>5. worker[w] \in [at : {"next", "send", "done"}, chunk : Chunks, attempt : 1 .. MaxAttempts]
  OBVIOUS
<1>6. worker' = [worker EXCEPT ![w] = [worker[w] EXCEPT !.at = at, !.attempt = k]]
  BY <1>3
<1>7. worker'[w] = [worker[w] EXCEPT !.at = at, !.attempt = k]
  BY <1>6
<1>8. /\ worker'[w] \in [at : {"next", "send", "done"}, chunk : Chunks, attempt : 1 .. MaxAttempts]
      /\ worker'[w].chunk = worker[w].chunk /\ worker'[w].at = at
  BY <1>4, <1>5, <1>7
<1>9. failed' \in BOOLEAN /\ (failed => failed') /\ (GivesUp(w, status) => failed')
  OBVIOUS
<1>10. (at = "next" <=> status = "ok") /\ (at = "done" => GivesUp(w, status))
  BY DEF at
<1> HIDE DEF GivesUp, WorkerGets
<1> QED
  BY <1>6, <1>8, <1>9, <1>10

-----------------------------------------------------------------------------
(* Steps of the server that the script does not see.                       *)

LEMMA BackgroundKeeps ==
  ASSUME TypeOK, ServingSession, ClientInv, Background, UNCHANGED client
  PROVE  ClientInv'
<1> USE DEF ClientInv, Background, Lasting
<1>1. ClientTypeOK'
  BY DEF ClientTypeOK
<1>2. ScriptInStep'
  BY DEF ScriptInStep
<1>3. OnlyThisScript'
  BY DEF OnlyThisScript, GoesOn, Stays, ServingSteps, InitSteps, WriteSteps, FinalizeSteps,
         CleanupSteps
<1>4. AnswersFit'
  BY DEF AnswersFit, GoesOn, Stays, InitSteps, WriteSteps, FinalizeSteps, CleanupSteps
<1>5. OneComplete'
  BY DEF OneComplete, GoesOn, Stays, InitSteps, WriteSteps, FinalizeSteps, CleanupSteps
<1>6. ChunksAccounted'
  <2>1. sessions \subseteq UploadIDs
        /\ \A h \in Handlers : pc'[h] = "seal" =>
             pc[h] = "seal" /\ sid'[h] = sid[h] /\ sid[h] \in UploadIDs
    BY DEF TypeOK, ServingSession, ServingSteps, GoesOn, Stays, InitSteps, WriteSteps,
           FinalizeSteps, CleanupSteps
  <2> QED
    BY <2>1 DEF ChunksAccounted, AllComplete
<1>7. ToldStored'
  BY DEF ToldStored
<1> QED
  BY <1>1, <1>2, <1>3, <1>4, <1>5, <1>6, <1>7

-----------------------------------------------------------------------------
(* An answer, or word that there will be none.                             *)

\* f is no longer waiting.
Released(f) ==
  /\ fetching' = fetching \ {f}
  /\ listener' = [h \in Handlers |-> IF listener[h] = f THEN Nobody ELSE listener[h]]

\* The answer that h gives, if somebody is still there.
LEMMA AnswerReleases ==
  ASSUME ClientTypeOK, AnswersFit, NEW h \in Handlers, listener[h] # Nobody, NEW status,
         Answer(h, status)
  PROVE  Released(listener[h]) /\ listener[h] \in Fetchers /\ Waiting(listener[h])
         /\ Gets(listener[h], sid[h], status)
  BY DEF ClientTypeOK, AnswersFit, Answer, Released, Waiting, Fetchers

\* f is told how its request ended, or that nobody knows.
Told(f, id, status) ==
  /\ f \in Fetchers /\ Waiting(f) /\ Released(f) /\ Gets(f, id, status)
  /\ \/ \E h \in Handlers : listener[h] = f /\ id = sid[h] /\ Finishes(h, status)
     \/ UNCHANGED vars /\ status # "ok"

\* A goroutine that ends without an answer changes nothing for the script.
LEMMA SilenceKeeps ==
  ASSUME TypeOK, ServingSession, ClientInv, NEW h \in Handlers, NEW status,
         listener[h] = Nobody, Answer(h, status), Finishes(h, status)
  PROVE  ClientInv'
<1> USE DEF ClientInv, Finishes, Lasting, Answer
<1>1. fetching' = fetching /\ listener' = listener
  BY ClientAssumption DEF ClientTypeOK
<1>2. ClientTypeOK'
  BY <1>1 DEF ClientTypeOK
<1>3. ScriptInStep'
  BY DEF ScriptInStep
<1>4. OnlyThisScript'
  BY DEF OnlyThisScript, Stays, ServingSteps, InitSteps, WriteSteps, FinalizeSteps
<1>5. AnswersFit'
  BY <1>1 DEF AnswersFit, Stays
<1>6. OneComplete'
  BY <1>1, ClientAssumption DEF OneComplete, Stays, FinalizeSteps, Fetchers
<1>7. ChunksAccounted'
  <2>1. uploadID \in sessions' => uploadID \in sessions
    BY DEF OnlyThisScript
  <2>2. \A g \in Handlers : pc'[g] = "seal" =>
          pc[g] = "seal" /\ sid'[g] = sid[g] /\ sid[g] \in UploadIDs
    BY DEF Stays, ServingSession, ServingSteps
  <2>3. sessions \subseteq UploadIDs
    BY DEF TypeOK
  <2> QED
    BY <2>1, <2>2, <2>3 DEF ChunksAccounted, AllComplete
<1>8. ToldStored'
  BY DEF ToldStored
<1> QED
  BY <1>2, <1>3, <1>4, <1>5, <1>6, <1>7, <1>8

\* What a worker is told.
LEMMA WorkerToldKeeps ==
  ASSUME TypeOK, ServingSession, ClientInv, NEW w \in Workers, NEW id, NEW status,
         Told(w, id, status)
  PROVE  ClientInv'
<1> USE DEF ClientInv, Lasting
<1>1. w # Script /\ script = "sending" /\ worker[w].at = "send" /\ WorkerGets(w, status)
  BY ClientAssumption DEF Told, Waiting, Gets
<1>2. UNCHANGED <<script, uploadID, nextChunk>>
  BY <1>1 DEF WorkerGets
<1>3. /\ worker' \in [Workers -> [at : {"next", "send", "done"}, chunk : Chunks,
                                  attempt : 1 .. MaxAttempts]]
      /\ failed' \in BOOLEAN /\ (failed => failed')
      /\ \A v \in Workers : v # w => worker'[v] = worker[v]
      /\ worker'[w].chunk = worker[w].chunk
      /\ worker'[w].at = "next" <=> status = "ok"
      /\ worker'[w].at = "done" => failed'
  BY <1>1, WorkerAnswered DEF Told
<1>4. /\ fetching' = fetching \ {w}
      /\ listener' = [h \in Handlers |-> IF listener[h] = w THEN Nobody ELSE listener[h]]
  BY DEF Told, Released
<1>5. Lasting /\ completed' = completed
  BY DEF Told, Finishes
<1>6. \A g \in Handlers : Stays(g) \/ (pc'[g] = "idle" /\ listener[g] = w)
  BY DEF Told, Finishes, Stays
<1>7. sessions' \subseteq sessions \cup {i \in UploadIDs : i # uploadID}
  BY DEF Told, Finishes, OnlyThisScript
<1>8. ClientTypeOK'
  BY <1>2, <1>3, <1>4 DEF ClientTypeOK
<1>9. ScriptInStep'
  BY <1>1, <1>2, <1>3, <1>5 DEF ScriptInStep
<1>10. OnlyThisScript'
  BY <1>2, <1>6 DEF OnlyThisScript, Stays, ServingSteps, InitSteps, WriteSteps, FinalizeSteps
<1>11. AnswersFit'
  <2>1. ASSUME NEW f \in fetching' PROVE f # Script /\ f # w /\ worker'[f].at = "send"
    BY <1>1, <1>3, <1>4, <2>1 DEF AnswersFit, ClientTypeOK, Fetchers
  <2>2. ASSUME NEW h \in Handlers, listener'[h] # Nobody
        PROVE  /\ listener'[h] = listener[h] /\ listener[h] # w /\ Stays(h)
               /\ listener[h] \in fetching'
    BY <1>4, <1>6, <2>2 DEF AnswersFit
  <2>3. ASSUME NEW h \in Handlers, listener'[h] # Nobody
        PROVE  /\ pc'[h] \in {"claim"} \cup WriteSteps
               /\ idx'[h] = worker'[listener'[h]].chunk
    <3>1. listener[h] # Script /\ worker'[listener[h]] = worker[listener[h]]
      BY <1>3, <2>1, <2>2, <2>3 DEF ClientTypeOK, Fetchers, Released
    <3> QED
      BY <2>2, <2>3, <3>1 DEF AnswersFit, Stays
  <2> QED
    BY <1>1, <1>2, <2>1, <2>2, <2>3, ClientAssumption DEF AnswersFit, Fetchers
<1>12. OneComplete'
  <2>1. \A g \in Handlers : pc[g] \notin {"seal"} \cup FinalizeSteps
    BY <1>1 DEF OneComplete
  <2>2. \A i \in UploadIDs : ~completed[i]
    BY <1>1, <2>1 DEF OneComplete
  <2>3. \A g \in Handlers : pc'[g] \notin {"seal"} \cup FinalizeSteps
    BY <1>6, <2>1 DEF Stays, FinalizeSteps
  <2> QED
    BY <1>1, <1>2, <1>5, <2>2, <2>3 DEF OneComplete, FinalizeSteps
<1>13. ChunksAccounted'
  <2>1. uploadID' \in sessions' => uploadID \in sessions /\ uploadID \in UploadIDs
    BY <1>2, <1>7 DEF TypeOK
  <2>2. status = "ok" => uploadID \notin UploadIDs
                         \/ chunkState'[uploadID][worker[w].chunk] = "complete"
    <3>1. SUFFICES ASSUME NEW h \in Handlers, listener[h] = w, Finishes(h, status),
                          status = "ok"
                   PROVE  chunkState'[uploadID][worker[w].chunk] = "complete"
      BY DEF Told
    <3>2. pc[h] \in {"claim"} \cup WriteSteps /\ idx[h] = worker[w].chunk
      BY <1>1, <3>1, ClientAssumption DEF AnswersFit, Fetchers
    <3>3. sid[h] = uploadID
      BY <3>2 DEF OnlyThisScript, ServingSteps, InitSteps, WriteSteps
    <3> QED
      BY <3>1, <3>2, <3>3 DEF Finishes
  <2>3. \A g \in Handlers : pc'[g] = "seal" =>
          pc[g] = "seal" /\ sid'[g] = sid[g] /\ sid[g] \in UploadIDs
    BY <1>6 DEF Stays, ServingSession, ServingSteps
  <2>4. worker'[w].at \in {"next", "send", "done"}
    BY <1>3
  <2>5. ASSUME uploadID \in sessions', ~failed', NEW c \in Chunks, c < nextChunk,
               chunkState'[uploadID][c] # "complete"
        PROVE  \E v \in Workers : worker'[v].at = "send" /\ worker'[v].chunk = c
    <3>1. PICK v \in Workers : worker[v].at = "send" /\ worker[v].chunk = c
      BY <1>2, <1>3, <1>5, <2>1, <2>5 DEF ChunksAccounted
    <3>2. CASE v = w
      BY <1>2, <1>3, <2>1, <2>2, <2>4, <2>5, <3>1, <3>2
    <3>3. CASE v # w
      BY <1>3, <3>1, <3>3
    <3> QED
      BY <3>2, <3>3
  <2>6. \A g \in Handlers : pc'[g] = "seal" => AllComplete(sid[g])'
    BY <1>5, <2>3 DEF ChunksAccounted, AllComplete
  <2> QED
    BY <1>2, <2>5, <2>6, <2>3 DEF ChunksAccounted
<1>14. ToldStored'
  BY <1>1, <1>2 DEF ToldStored
<1> QED
  BY <1>8, <1>9, <1>10, <1>11, <1>12, <1>13, <1>14

\* What the script is told.
LEMMA ScriptToldKeeps ==
  ASSUME TypeOK, ServingSession, UndrawnUnknown, InitAlone, ClientInv,
         NEW id, NEW status, Told(Script, id, status)
  PROVE  ClientInv'
<1> USE DEF ClientInv, Lasting
<1>1. script \in {"init", "complete", "abort"} /\ ScriptGets(id, status)
  BY DEF Told, Waiting, Gets
<1>2. loop' = loop /\ script' = AfterAnswer(status)
      /\ uploadID' = IF script = "init" /\ status = "ok" THEN id ELSE uploadID
  BY <1>1 DEF ScriptGets
<1>3. /\ fetching' = fetching \ {Script}
      /\ listener' = [h \in Handlers |-> IF listener[h] = Script THEN Nobody ELSE listener[h]]
  BY DEF Told, Released
<1>4. fetching' = {} /\ listener' = [h \in Handlers |-> Nobody]
  BY <1>1, <1>3 DEF AnswersFit, ClientTypeOK, Fetchers
<1>5. Lasting /\ completed' = completed /\ stored' = stored
  BY DEF Told, Finishes
<1>6. \A g \in Handlers : Stays(g) \/ (pc'[g] = "idle" /\ listener[g] = Script)
  BY DEF Told, Finishes, Stays
<1>7. sessions' \subseteq sessions \cup {i \in UploadIDs : \E h \in Handlers : pc[h] \in InitSteps /\ i = sid[h]}
  BY DEF Told, Finishes
<1>8. CASE script = "init" /\ status = "ok"
  <2>1. PICK h \in Handlers : listener[h] = Script /\ id = sid[h] /\ Finishes(h, status)
    BY <1>8 DEF Told
  <2>2. pc[h] \in InitSteps /\ uploadID = NoUpload /\ nextChunk = 0
    BY <1>8, <2>1, ClientAssumption DEF AnswersFit, ScriptInStep, Fetchers
  <2>3. script' = "sending" /\ uploadID' = id /\ id \in UploadIDs /\ upload[id].total # 0
    BY <1>2, <1>8, <2>1, <2>2
       DEF AfterAnswer, AfterInit, ServingSession, ServingSteps, UndrawnUnknown
  <2>4. upload[id].total \in Nat
    BY <2>3 DEF TypeOK
  <2>5. ClientTypeOK'
    BY <1>2, <1>4, <2>3 DEF ClientTypeOK
  <2>6. ScriptInStep'
    BY <1>2, <1>5, <1>8, <2>2, <2>3, <2>4 DEF ScriptInStep
  <2>7. \A g \in Handlers : pc[g] \in ServingSteps => pc[g] \in InitSteps
    BY <2>2, ConstantsAssumption DEF OnlyThisScript, ServingSession
  <2>8. \A g \in Handlers : g # h /\ pc[g] \in ServingSteps => sid[g] # id
    BY <2>1, <2>2 DEF InitAlone
  <2>9. OnlyThisScript'
    BY <2>1, <2>3, <2>7, <2>8 DEF OnlyThisScript, Finishes, Stays, ServingSteps, InitSteps,
                                  WriteSteps, FinalizeSteps
  <2>10. AnswersFit'
    BY <1>4 DEF AnswersFit
  <2>11. OneComplete'
    BY <1>5, <1>6, <1>8, <2>3 DEF OneComplete, Stays, FinalizeSteps
  <2>12. ChunksAccounted'
    BY <1>2, <1>6, <1>8, <2>2, <2>7 DEF ChunksAccounted, ClientTypeOK, Stays, ServingSteps, InitSteps, Chunks
  <2>13. ToldStored'
    BY <2>3 DEF ToldStored
  <2> QED
    BY <2>5, <2>6, <2>9, <2>10, <2>11, <2>12, <2>13
<1>9. CASE ~(script = "init" /\ status = "ok")
  <2>1. uploadID' = uploadID
    BY <1>2, <1>9
  <2>2. script' \in {"failed", "rejected", "abort", "uploaded"}
    BY <1>1, <1>2, <1>9 DEF AfterAnswer, AfterInit, AfterComplete
  <2>3. script' \in {"abort", "uploaded"} => script = "complete"
    BY <1>1, <1>2 DEF AfterAnswer, AfterInit
  <2>4. script' = "uploaded" => status = "ok"
    BY <1>1, <1>2 DEF AfterAnswer, AfterInit, AfterComplete
  <2>5. ClientTypeOK'
    BY <1>2, <1>4, <2>1, <2>2 DEF ClientTypeOK
  <2>6. ScriptInStep'
    BY <1>2, <1>5, <2>1, <2>2, <2>3 DEF ScriptInStep
  <2>7. OnlyThisScript'
    BY <1>6, <2>1 DEF OnlyThisScript, Stays, ServingSteps, InitSteps, WriteSteps, FinalizeSteps
  <2>8. AnswersFit'
    BY <1>4 DEF AnswersFit
  <2>9. OneComplete'
    BY <1>5, <1>6, <2>2 DEF OneComplete, Stays, FinalizeSteps
  <2>10. ChunksAccounted'
    <3>1. uploadID \in sessions' => uploadID \in sessions /\ uploadID \in UploadIDs
      BY <1>7 DEF OnlyThisScript, TypeOK
    <3>2. \A g \in Handlers : pc'[g] = "seal" =>
            pc[g] = "seal" /\ sid'[g] = sid[g] /\ sid[g] \in UploadIDs
      BY <1>6 DEF Stays, ServingSession, ServingSteps
    <3> QED
      BY <1>2, <1>5, <2>1, <3>1, <3>2 DEF ChunksAccounted, AllComplete
  <2>11. ToldStored'
    <3>1. SUFFICES ASSUME script' = "uploaded" PROVE uploadID \in stored
      BY <1>5, <2>1 DEF ToldStored
    <3>2. script = "complete" /\ status = "ok"
      BY <2>3, <2>4, <3>1
    <3>3. PICK h \in Handlers : listener[h] = Script /\ Finishes(h, status)
      BY <3>2 DEF Told
    <3>4. pc[h] \in {"seal"} \cup FinalizeSteps
      BY <3>2, <3>3, ClientAssumption DEF AnswersFit, Fetchers
    <3>5. sid[h] = uploadID /\ sid[h] \in UploadIDs
      BY <3>4 DEF OnlyThisScript, ServingSession, ServingSteps, InitSteps, FinalizeSteps
    <3>6. pc[h] # "seal"
      <4>1. ASSUME pc[h] = "seal" PROVE FALSE
        <5>1. completed[uploadID]
          BY <3>2, <3>3, <3>5, <4>1 DEF Finishes
        <5>2. PICK g \in Handlers : pc[g] \in FinalizeSteps /\ sid[g] = uploadID
          BY <3>2, <3>5, <5>1 DEF OneComplete
        <5>3. listener[g] = Script
          BY <3>2, <5>2 DEF OneComplete
        <5>4. g = h
          BY <3>3, <5>3, ClientAssumption DEF AnswersFit, Fetchers
        <5> QED
          BY <4>1, <5>2, <5>4 DEF FinalizeSteps
      <4> QED
        BY <4>1
    <3>7. pc[h] = "forget"
      BY <3>2, <3>3, <3>4, <3>6 DEF Finishes
    <3> QED
      BY <3>5, <3>7 DEF OneComplete
  <2> QED
    BY <2>5, <2>6, <2>7, <2>8, <2>9, <2>10, <2>11
<1> QED
  BY <1>8, <1>9

-----------------------------------------------------------------------------
(* What the script does itself.                                            *)

\* A worker takes the next chunk, or stops.
LEMMA TakeKeeps ==
  ASSUME TypeOK, ClientInv, NEW w \in Workers, Take(w)
  PROVE  ClientInv'
<1> USE DEF ClientInv, Take
<1>1. /\ uploadID \in UploadIDs /\ upload[uploadID].total \in 0 .. MaxChunks
      /\ nextChunk \in Nat /\ MaxChunks \in Nat \ {0} /\ 1 \in 1 .. MaxAttempts
  BY ConstantsAssumption, ClientAssumption DEF ScriptInStep, TypeOK, ClientTypeOK
<1>2. w \notin fetching /\ Script \notin fetching
  BY ClientAssumption DEF AnswersFit
<1>3. OnlyThisScript' /\ OneComplete' /\ ToldStored'
  BY DEF OnlyThisScript, OneComplete, ToldStored
<1>4. AnswersFit'
  <2>1. \A v \in Workers : v # w => worker'[v] = worker[v]
    BY DEF ClientTypeOK
  <2>2. \A f \in fetching : f \in Workers /\ f # w /\ f # Script
    BY <1>2 DEF ClientTypeOK, Fetchers
  <2> QED
    BY <2>1, <2>2 DEF AnswersFit
<1>5. CASE failed \/ nextChunk >= upload[uploadID].total
  <2>1. nextChunk' = nextChunk
        /\ worker'[w] = [worker[w] EXCEPT !.at = "done"]
        /\ worker' = [worker EXCEPT ![w] = [worker[w] EXCEPT !.at = "done"]]
    BY <1>5 DEF ClientTypeOK
  <2>2. \A v \in Workers : v # w => worker'[v] = worker[v]
    BY <2>1 DEF ClientTypeOK
  <2>3. worker'[w].at = "done" /\ worker[w].at = "next"
        /\ worker'[w] \in [at : {"next", "send", "done"}, chunk : Chunks, attempt : 1 .. MaxAttempts]
    BY <2>1 DEF ClientTypeOK
  <2>4. ClientTypeOK'
    BY <2>1, <2>3 DEF ClientTypeOK
  <2>5. ScriptInStep'
    BY <1>5, <2>1, <2>2, <2>3 DEF ScriptInStep
  <2>6. ChunksAccounted'
    BY <2>1, <2>2, <2>3 DEF ChunksAccounted, AllComplete
  <2> QED
    BY <1>3, <1>4, <2>4, <2>5, <2>6
<1>6. CASE ~(failed \/ nextChunk >= upload[uploadID].total)
  <2>1. nextChunk' = nextChunk + 1
        /\ worker'[w] = [at |-> "send", chunk |-> nextChunk, attempt |-> 1]
        /\ worker' = [worker EXCEPT ![w] = [at |-> "send", chunk |-> nextChunk, attempt |-> 1]]
    BY <1>6 DEF ClientTypeOK
  <2>2. \A v \in Workers : v # w => worker'[v] = worker[v]
    BY <2>1 DEF ClientTypeOK
  <2>3. nextChunk \in Chunks /\ nextChunk + 1 <= upload[uploadID].total
        /\ nextChunk + 1 \in 0 .. MaxChunks
    BY <1>1, <1>6 DEF Chunks
  <2>4. ClientTypeOK'
    BY <1>1, <2>1, <2>3 DEF ClientTypeOK
  <2>5. ScriptInStep'
    <3>1. \A v \in Workers : worker'[v].at = "send" => worker'[v].chunk < nextChunk + 1
      <4>1. \A v \in Workers : worker[v].chunk \in Nat
        BY ConstantsAssumption DEF ClientTypeOK, Chunks
      <4> QED
        BY <1>1, <2>1, <2>2, <4>1 DEF ScriptInStep
    <3> QED
      BY <1>1, <1>6, <2>1, <2>2, <2>3, <3>1 DEF ScriptInStep
  <2>6. ChunksAccounted'
    <3>1. ASSUME uploadID \in sessions, NEW c \in Chunks, c < nextChunk + 1,
                 chunkState[uploadID][c] # "complete"
          PROVE  \E v \in Workers : worker'[v].at = "send" /\ worker'[v].chunk = c
      <4>1. CASE c = nextChunk
        BY <2>1, <4>1
      <4>2. CASE c # nextChunk
        <5>1. c < nextChunk
          BY <1>1, <3>1, <4>2 DEF Chunks
        <5>2. PICK v \in Workers : worker[v].at = "send" /\ worker[v].chunk = c
          BY <1>6, <3>1, <5>1 DEF ChunksAccounted
        <5> QED
          BY <2>2, <5>2
      <4> QED
        BY <4>1, <4>2
    <3> QED
      BY <2>1, <3>1 DEF ChunksAccounted, AllComplete
  <2> QED
    BY <1>3, <1>4, <2>4, <2>5, <2>6
<1> QED
  BY <1>5, <1>6

\* All workers have come to their end.
LEMMA WorkersDoneKeeps ==
  ASSUME ClientInv, WorkersDone
  PROVE  ClientInv'
<1> USE DEF ClientInv, WorkersDone
<1>1. fetching = {}
  BY DEF AnswersFit, ClientTypeOK, Fetchers
<1>2. ClientTypeOK'
  BY DEF ClientTypeOK
<1>3. ScriptInStep'
  BY DEF ScriptInStep
<1>4. OnlyThisScript' /\ ChunksAccounted' /\ ToldStored'
  BY DEF OnlyThisScript, ChunksAccounted, AllComplete, ToldStored
<1>5. AnswersFit'
  BY <1>1 DEF AnswersFit
<1>6. OneComplete'
  BY DEF OneComplete
<1> QED
  BY <1>2, <1>3, <1>4, <1>5, <1>6

\* A request that h takes up in the state pc, sid, idx for f, which nobody
\* else is answering.
LEMMA ConnectFits ==
  ASSUME TypeOK, ClientInv, NEW f \in Fetchers, NEW h \in Handlers, Connect(f, h),
         pc[h] = "idle", \A g \in Handlers : g # h => Stays(g),
         IF f = Script
         THEN \/ script = "init" /\ pc'[h] \in InitSteps
              \/ script = "complete" /\ pc'[h] \in {"seal"} \cup FinalizeSteps
              \/ script = "abort" /\ pc'[h] \in CleanupSteps
         ELSE pc'[h] \in {"claim"} \cup WriteSteps /\ idx'[h] = worker[f].chunk
  PROVE  ClientTypeOK' /\ AnswersFit'
<1> USE DEF ClientInv, Connect
<1>1. ClientTypeOK'
  BY DEF ClientTypeOK
<1>2. listener' = [listener EXCEPT ![h] = f] /\ fetching' = fetching \cup {f} /\ f \notin fetching
  BY DEF Wants
<1>3. \A g \in Handlers : listener'[g] = IF g = h THEN f ELSE listener[g]
  BY <1>2 DEF ClientTypeOK
<1>4. \A g \in Handlers : listener[g] # f
  BY <1>2, ClientAssumption DEF AnswersFit
<1>5. \A e \in fetching' : IF e = Script THEN script \in {"init", "complete", "abort"}
                           ELSE script = "sending" /\ worker[e].at = "send"
  BY <1>2 DEF AnswersFit, Wants
<1>6. AnswersFit'
  BY <1>2, <1>3, <1>4, <1>5 DEF AnswersFit, Stays
<1> QED
  BY <1>1, <1>6

\* The requests of the script and its workers.
LEMMA SendKeeps ==
  ASSUME TypeOK, ServingSession, ClientInv, NEW f \in Fetchers, Send(f)
  PROVE  ClientInv'
<1> USE HandlersAreProcs DEF ClientInv
<1>1. ASSUME NEW h \in Handlers, SendInit(h) PROVE ClientInv'
  <2>1. PICK id \in UploadIDs, n \in Names, k \in 1 .. MaxChunks : InitBegin(h, id, n, k)
    BY <1>1 DEF SendInit
  <2>2. /\ script = "init" /\ Connect(Script, h) /\ uploadID = NoUpload /\ NoUpload \notin UploadIDs
        /\ UNCHANGED <<script, uploadID, nextChunk, failed, worker>>
    BY <1>1, ConstantsAssumption DEF SendInit, Connect, ScriptInStep
  <2>3. /\ pc[h] = "idle" /\ pc'[h] = "init_create" /\ sid'[h] = id
        /\ \A g \in Handlers : g # h => Stays(g)
        /\ UNCHANGED <<sessions, chunkState, completed, stored>>
    BY <2>1 DEF InitBegin, Start, Stays, TypeOK, GoroutinesOK
  <2>4. ClientTypeOK' /\ AnswersFit'
    BY <2>2, <2>3, ConnectFits DEF InitSteps, Fetchers
  <2>5. ScriptInStep'
    BY <2>2 DEF ScriptInStep
  <2>6. OnlyThisScript'
    BY <2>2, <2>3 DEF OnlyThisScript, Stays, ServingSteps, InitSteps, WriteSteps, FinalizeSteps
  <2>7. OneComplete'
    BY <2>2, <2>3 DEF OneComplete, Stays, FinalizeSteps
  <2>8. ChunksAccounted'
    <3>1. uploadID' \notin sessions'
      BY <2>2, <2>3 DEF TypeOK
    <3>2. \A g \in Handlers : pc'[g] # "seal"
      BY <2>2, <2>3 DEF OneComplete, Stays
    <3> QED
      BY <3>1, <3>2 DEF ChunksAccounted
  <2>9. ToldStored'
    BY <2>2 DEF ToldStored
  <2> QED
    BY <2>4, <2>5, <2>6, <2>7, <2>8, <2>9
<1>2. ASSUME NEW h \in Handlers, SendChunk(f, h), f # Script PROVE ClientInv'
  <2>1. /\ script = "sending" /\ Connect(f, h) /\ WriteGet(h, uploadID, worker[f].chunk)
        /\ UNCHANGED <<script, uploadID, nextChunk, failed, worker>>
    BY <1>2 DEF SendChunk, Connect, Wants
  <2>2. /\ pc[h] = "idle" /\ pc'[h] = "claim" /\ sid'[h] = uploadID /\ idx'[h] = worker[f].chunk
        /\ \A g \in Handlers : g # h => Stays(g)
        /\ UNCHANGED <<upload, sessions, chunkState, completed, stored>>
    BY <2>1 DEF WriteGet, Start, Stays, TypeOK, GoroutinesOK
  <2>3. ClientTypeOK' /\ AnswersFit'
    BY <1>2, <2>1, <2>2, ConnectFits
  <2>4. ScriptInStep'
    BY <2>1, <2>2 DEF ScriptInStep
  <2>5. OnlyThisScript'
    BY <2>1, <2>2 DEF OnlyThisScript, Stays, ServingSteps, InitSteps, WriteSteps, FinalizeSteps
  <2>6. OneComplete'
    BY <2>1, <2>2 DEF OneComplete, Stays, FinalizeSteps
  <2>7. ChunksAccounted'
    BY <2>1, <2>2 DEF ChunksAccounted, AllComplete, Stays
  <2>8. ToldStored'
    BY <2>1 DEF ToldStored
  <2> QED
    BY <2>3, <2>4, <2>5, <2>6, <2>7, <2>8
<1>3. ASSUME NEW h \in Handlers, SendComplete(h) PROVE ClientInv'
  <2>1. /\ script = "complete" /\ Connect(Script, h) /\ CompleteGet(h, uploadID)
        /\ UNCHANGED <<script, uploadID, nextChunk, failed, worker>>
    BY <1>3 DEF SendComplete, Connect
  <2>2. /\ pc[h] = "idle" /\ pc'[h] = "seal" /\ sid'[h] = uploadID /\ uploadID \in sessions
        /\ \A g \in Handlers : g # h => Stays(g)
        /\ UNCHANGED <<upload, sessions, chunkState, completed, stored>>
    BY <2>1 DEF CompleteGet, Start, Stays, TypeOK, GoroutinesOK
  <2>3. ClientTypeOK' /\ AnswersFit'
    BY <2>1, <2>2, ConnectFits DEF Fetchers
  <2>4. ScriptInStep'
    BY <2>1, <2>2 DEF ScriptInStep
  <2>5. OnlyThisScript'
    BY <2>1, <2>2 DEF OnlyThisScript, Stays, ServingSteps, InitSteps, WriteSteps, FinalizeSteps
  <2>6. OneComplete'
    <3>1. \A g \in Handlers : listener'[g] = IF g = h THEN Script ELSE listener[g]
      BY <2>1 DEF Connect, ClientTypeOK
    <3> QED
      BY <2>1, <2>2, <3>1 DEF OneComplete, Stays, FinalizeSteps
  <2>7. AllComplete(uploadID)
    <3>1. PICK w \in Workers : TRUE
      BY ClientAssumption
    <3>2. uploadID \in UploadIDs /\ ~failed /\ (\A v \in Workers : worker[v].at = "done")
          /\ nextChunk >= upload[uploadID].total
      BY <2>1, <3>1 DEF ScriptInStep
    <3>3. nextChunk \in Nat /\ upload[uploadID].total \in Nat
      BY <3>2 DEF ClientTypeOK, TypeOK
    <3>4. \A c \in Chunks : c < upload[uploadID].total => c < nextChunk
      BY <3>2, <3>3 DEF Chunks
    <3> QED
      BY <2>2, <3>2, <3>4 DEF AllComplete, ChunksAccounted
  <2>8. ChunksAccounted'
    BY <2>1, <2>2, <2>7 DEF ChunksAccounted, AllComplete, Stays
  <2>9. ToldStored'
    BY <2>1 DEF ToldStored
  <2> QED
    BY <2>3, <2>4, <2>5, <2>6, <2>8, <2>9
<1>4. ASSUME NEW h \in Handlers, SendAbort(h) PROVE ClientInv'
  <2>1. /\ script = "abort" /\ Connect(Script, h) /\ Abort(h, uploadID)
        /\ UNCHANGED <<script, uploadID, nextChunk, failed, worker>>
    BY <1>4 DEF SendAbort, Connect
  <2>2. /\ pc[h] = "idle" /\ pc'[h] = "cleanup" /\ sessions' \subseteq sessions
        /\ \A g \in Handlers : g # h => Stays(g)
        /\ UNCHANGED <<upload, chunkState, completed, stored>>
    BY <2>1 DEF Abort, Evict, Remaining, Stays, TypeOK, GoroutinesOK
  <2>3. ClientTypeOK' /\ AnswersFit'
    BY <2>1, <2>2, ConnectFits DEF Fetchers, CleanupSteps
  <2>4. ScriptInStep'
    BY <2>1, <2>2 DEF ScriptInStep
  <2>5. OnlyThisScript'
    BY <2>1, <2>2 DEF OnlyThisScript, Stays, ServingSteps, InitSteps, WriteSteps, FinalizeSteps
  <2>6. OneComplete'
    BY <2>1, <2>2 DEF OneComplete, Stays, FinalizeSteps
  <2>7. ChunksAccounted'
    BY <2>1, <2>2 DEF ChunksAccounted, AllComplete, Stays
  <2>8. ToldStored'
    BY <2>1 DEF ToldStored
  <2> QED
    BY <2>3, <2>4, <2>5, <2>6, <2>7, <2>8
<1> QED
  BY <1>1, <1>2, <1>3, <1>4 DEF Send

\* The server dies: every goroutine, session and connection with it.
LEMMA ServerDiesKeeps ==
  ASSUME TypeOK, ClientInv, ServerDies
  PROVE  ClientInv'
<1> USE DEF ClientInv, ServerDies, ProcessStops, Restart
<1>1. \A h \in Handlers : pc'[h] = "idle"
  BY HandlersAreProcs
<1>2. ClientTypeOK'
  BY DEF ClientTypeOK
<1>3. ScriptInStep'
  BY DEF ScriptInStep
<1>4. OnlyThisScript'
  BY <1>1 DEF OnlyThisScript, ServingSteps, InitSteps, WriteSteps, FinalizeSteps
<1>5. AnswersFit'
  BY <1>1 DEF AnswersFit
<1>6. OneComplete'
  BY <1>1 DEF OneComplete, FinalizeSteps
<1>7. ChunksAccounted' /\ ToldStored'
  BY <1>1 DEF ChunksAccounted, ToldStored
<1> QED
  BY <1>2, <1>3, <1>4, <1>5, <1>6, <1>7

-----------------------------------------------------------------------------
(* The two together.                                                       *)

\* An answered request: the script is told, or nobody is.
LEMMA AnsweredKeeps ==
  ASSUME IndInv, ClientInv, NEW h \in Handlers, NEW status,
         Answer(h, status), Finishes(h, status)
  PROVE  ClientInv'
<1> USE DEF IndInv, Protocol
<1>1. CASE listener[h] = Nobody
  BY <1>1, SilenceKeeps
<1>2. CASE listener[h] # Nobody
  <2>1. Told(listener[h], sid[h], status)
    BY <1>2, AnswerReleases DEF Told, ClientInv
  <2>2. CASE listener[h] = Script
    BY <2>1, <2>2, ScriptToldKeeps
  <2>3. CASE listener[h] \in Workers
    BY <2>1, <2>3, WorkerToldKeeps
  <2> QED
    BY <2>1, <2>2, <2>3 DEF Told, Fetchers
<1> QED
  BY <1>1, <1>2

\* A fetch that fails: no session, no connection, or a broken one.
LEMMA LostKeeps ==
  ASSUME IndInv, ClientInv, NEW f \in Fetchers, NotFound(f) \/ Unreachable(f) \/ Break(f)
  PROVE  ClientInv'
<1> USE DEF IndInv, Protocol
<1>1. UNCHANGED vars /\ \E status \in {"refused", "lost"} : Gets(f, NoUpload, status)
  BY DEF NotFound, Unreachable, Break
<1>2. PICK status \in {"refused", "lost"} : Gets(f, NoUpload, status)
  BY <1>1
<1>3. Waiting(f)
  BY DEF NotFound, Unreachable, Break, Wants, Waiting, ClientInv, AnswersFit, Fetchers
<1>4. Released(f)
  <2>1. CASE Break(f)
    BY <2>1 DEF Break, Released
  <2>2. CASE NotFound(f) \/ Unreachable(f)
    <3>1. f \notin fetching /\ fetching' = fetching /\ listener' = listener
      BY <2>2 DEF NotFound, Unreachable, Wants
    <3>2. \A h \in Handlers : listener[h] # f
      BY <3>1, ClientAssumption DEF ClientInv, AnswersFit
    <3> QED
      BY <3>1, <3>2 DEF Released, ClientInv, ClientTypeOK
  <2> QED
    BY <2>1, <2>2
<1>5. Told(f, NoUpload, status)
  BY <1>1, <1>2, <1>3, <1>4 DEF Told
<1> QED
  BY <1>5, ScriptToldKeeps, WorkerToldKeeps DEF Fetchers

\* ClientInv is inductive relative to IndInv.
LEMMA NextClientInv == IndInv /\ ClientInv /\ [ClientNext]_clientVars => ClientInv'
<1> SUFFICES ASSUME IndInv, ClientInv, [ClientNext]_clientVars PROVE ClientInv'
  OBVIOUS
<1> USE DEF IndInv, Protocol
<1>1. ASSUME NEW w \in Workers, Take(w) PROVE ClientInv'
  BY <1>1, TakeKeeps
<1>2. CASE WorkersDone
  BY <1>2, WorkersDoneKeeps
<1>3. ASSUME NEW f \in Fetchers, Send(f) PROVE ClientInv'
  BY <1>3, SendKeeps
<1>4. ASSUME NEW f \in Fetchers, NotFound(f) \/ Unreachable(f) \/ Break(f) PROVE ClientInv'
  BY <1>4, LostKeeps
<1>5. ASSUME NEW h \in Handlers, Serve(h) PROVE ClientInv'
  <2>1. CASE InitAnswered(h) \/ ChunkAnswered(h) \/ CompleteAnswered(h) \/ AbortAnswered(h)
    <3>1. PICK status \in {"ok", "cut", "refused", "failed"} : Answer(h, status) /\ Finishes(h, status)
      BY <2>1, AnswersFinish
    <3> QED
      BY <3>1, AnsweredKeeps
  <2>2. CASE Work(h)
    <3>1. UNCHANGED client
      BY <2>2 DEF Work
    <3> QED
      BY <2>2, <3>1, WorkInBackground, BackgroundKeeps
  <2> QED
    BY <1>5, <2>1, <2>2 DEF Serve
<1>6. CASE Elsewhere
  <2>1. UNCHANGED client
    BY <1>6 DEF Elsewhere
  <2> QED
    BY <1>6, <2>1, ElsewhereInBackground, BackgroundKeeps
<1>7. CASE ServerDies
  BY <1>7, ServerDiesKeeps
<1>8. CASE UNCHANGED clientVars
  <2>1. UNCHANGED client /\ Background
    BY <1>8 DEF Background, Lasting, GoesOn, Stays
  <2> QED
    BY <2>1, BackgroundKeeps
<1> QED
  BY <1>1, <1>2, <1>3, <1>4, <1>5, <1>6, <1>7, <1>8 DEF ClientNext

\* The script asks for nothing that the server's model does not expect, and
\* every answer is one of its steps.
LEMMA ClientStepsServer ==
  ASSUME IndInv, ClientInv, [ClientNext]_clientVars
  PROVE  [Next]_vars
<1> USE DEF Next, Request, Handle, Cleanup
<1>1. ASSUME NEW w \in Workers, Take(w) PROVE [Next]_vars
  BY <1>1 DEF Take
<1>2. CASE WorkersDone
  BY <1>2 DEF WorkersDone
<1>3. ASSUME NEW f \in Fetchers, Send(f) PROVE [Next]_vars
  <2>1. sessions \subseteq UploadIDs
    BY DEF IndInv, TypeOK
  <2>2. ASSUME NEW h \in Handlers, SendInit(h) PROVE [Next]_vars
    BY <2>2 DEF SendInit
  <2>3. ASSUME NEW h \in Handlers, f # Script, SendChunk(f, h) PROVE [Next]_vars
    <3>1. worker[f].chunk \in Chunks /\ uploadID \in UploadIDs
      BY <2>1, <2>3 DEF SendChunk, WriteGet, Fetchers, ClientInv, ClientTypeOK
    <3> QED
      BY <2>3, <3>1 DEF SendChunk
  <2>4. ASSUME NEW h \in Handlers, SendComplete(h) PROVE [Next]_vars
    <3>1. uploadID \in UploadIDs
      BY <2>1, <2>4 DEF SendComplete, CompleteGet
    <3> QED
      BY <2>4, <3>1 DEF SendComplete
  <2>5. ASSUME NEW h \in Handlers, SendAbort(h) PROVE [Next]_vars
    <3>1. uploadID \in UploadIDs
      BY <2>1, <2>5 DEF SendAbort, Abort
    <3> QED
      BY <2>5, <3>1 DEF SendAbort
  <2> QED
    BY <1>3, <2>2, <2>3, <2>4, <2>5 DEF Send
<1>4. ASSUME NEW f \in Fetchers, NotFound(f) \/ Unreachable(f) \/ Break(f) PROVE [Next]_vars
  BY <1>4 DEF NotFound, Unreachable, Break
<1>5. ASSUME NEW h \in Handlers, Serve(h) PROVE [Next]_vars
  BY <1>5 DEF Serve, InitAnswered, ChunkAnswered, RefusedChunk, CompleteAnswered,
              AbortAnswered, Work
<1>6. CASE Elsewhere
  BY <1>6 DEF Elsewhere
<1>7. CASE ServerDies
  BY <1>7 DEF ServerDies
<1>8. CASE UNCHANGED clientVars
  BY <1>8
<1> QED
  BY <1>1, <1>2, <1>3, <1>4, <1>5, <1>6, <1>7, <1>8 DEF ClientNext

\* Nobody has asked for anything yet.
LEMMA InitClientInv == ClientInit => Init /\ ClientInv
<1> SUFFICES ASSUME ClientInit PROVE Init /\ ClientInv
  OBVIOUS
<1> USE DEF ClientInit, Init
<1>1. \A h \in Handlers : pc[h] = "idle"
  BY HandlersAreProcs
<1>2. ClientTypeOK
  <2>1. 0 \in 0 .. MaxChunks /\ 1 \in 1 .. MaxAttempts
    BY ConstantsAssumption, ClientAssumption
  <2>2. worker \in [Workers -> [at : {"next", "send", "done"}, chunk : Chunks,
                               attempt : 1 .. MaxAttempts]]
    BY <2>1, ZeroChunk
  <2>3. failed \in BOOLEAN
    OBVIOUS
  <2> QED
    BY <2>1, <2>2, <2>3 DEF ClientTypeOK
<1>3. ScriptInStep
  BY ConstantsAssumption DEF ScriptInStep
<1>4. OnlyThisScript
  BY <1>1 DEF OnlyThisScript, ServingSteps, InitSteps, WriteSteps, FinalizeSteps
<1>5. AnswersFit /\ ToldStored
  BY DEF AnswersFit, ToldStored
<1>6. OneComplete
  BY <1>1 DEF OneComplete, FinalizeSteps
<1>7. ChunksAccounted
  BY <1>1 DEF ChunksAccounted
<1> QED
  BY <1>2, <1>3, <1>4, <1>5, <1>6, <1>7 DEF ClientInv

\* The script and the server are both in order, whatever is lost on the way.
THEOREM ClientInvHolds == ClientSpec => [](IndInv /\ ClientInv)
<1>1. ClientInit => IndInv /\ ClientInv
  BY InitClientInv, InitIndInv
<1>2. IndInv /\ ClientInv /\ [ClientNext]_clientVars => IndInv' /\ ClientInv'
  BY NextClientInv, ClientStepsServer, NextIndInv
<1> QED
  BY <1>1, <1>2, PTL DEF ClientSpec

\* What the script and the server do together is a behaviour of the server
\* (script.js:177-306 against upload_sessions.go): every theorem about Spec
\* holds of the two together.
THEOREM ClientImplements == ClientSpec => Spec
<1>1. ClientInit => Init
  BY InitClientInv
<1>2. IndInv /\ ClientInv /\ [ClientNext]_clientVars => [Next]_vars
  BY ClientStepsServer
<1> QED
  BY <1>1, <1>2, ClientInvHolds, PTL DEF ClientSpec, Spec

\* The user is told of success only when the file has its name
\* (script.js:259-275): the one Complete of the script is answered by the
\* handler that has renamed the file, never by a second one that finds the
\* session sealed.
THEOREM UploadToldStored == ClientSpec => []ToldStored
  BY ClientInvHolds, PTL DEF ClientInv

\* What the user is told of as uploaded has every chunk of its data, and an
\* fsync behind it (script.js:259-275, upload_sessions.go:300-306).
ToldWhole == script = "uploaded" => Whole(uploadID) /\ uploadID \in synced

\* Success is a promise about the bytes, kept from the answer on, through
\* whatever happens to the server afterwards.
THEOREM UploadToldWhole == ClientSpec => []ToldWhole
<1>1. IndInv /\ ClientInv => ToldWhole
  BY DEF IndInv, Protocol, StoredSettled, ClientInv, ToldStored, ToldWhole
<1> QED
  BY <1>1, ClientInvHolds, PTL

\* All chunks marked complete make a full count.
LEMMA AllCompleteReceived ==
  ASSUME TypeOK, ReceivedExact, NEW id \in UploadIDs, AllComplete(id)
  PROVE  AllReceived(id)
<1> DEFINE needed == 0 .. upload[id].total - 1
<1>1. upload[id].total \in 0 .. MaxChunks /\ MaxChunks \in Nat
  BY ConstantsAssumption DEF TypeOK
<1>2. needed \subseteq CompleteIn(chunkState[id])
  BY <1>1 DEF CompleteIn, AllComplete, Chunks
<1>3. IsFiniteSet(CompleteIn(chunkState[id]))
  BY ChunkSets DEF CompleteIn
<1>4. Cardinality(needed) = upload[id].total
  <2> /\ 0 \in Int /\ upload[id].total - 1 \in Int
      /\ (0 > upload[id].total - 1 <=> upload[id].total = 0)
      /\ upload[id].total - 1 - 0 + 1 = upload[id].total
    BY <1>1
  <2> QED
    BY FS_Interval
<1>5. Cardinality(needed) <= Cardinality(CompleteIn(chunkState[id]))
  BY <1>2, <1>3, FS_Subset
<1> QED
  BY <1>1, <1>4, <1>5 DEF AllReceived, ReceivedExact, CompleteIn

\* Complete, when this script asks for it, finds every chunk on the server,
\* whatever was lost, retried, refused or sent twice (script.js:209-251,
\* upload_sessions.go:276-285).
THEOREM CompleteFinds == ClientSpec => []CompleteFindsAll
<1>1. IndInv /\ ClientInv => CompleteFindsAll
  BY AllCompleteReceived
     DEF IndInv, Protocol, ServingSession, ServingSteps, ClientInv, ChunksAccounted,
         CompleteFindsAll
<1> QED
  BY <1>1, ClientInvHolds, PTL

\* The whole invariant of the sessions holds of the two together as well.
THEOREM ClientSessionInv == ClientSpec => []SessionInv
  BY ClientImplements, SessionInvHolds, PTL

\* So does the promise to those who look at the shared folder: whatever the
\* script, its connections and the server do, files appear in it in one step,
\* whole, and under the name they were uploaded with.
THEOREM ClientImplementsFolder == ClientSpec => ImplementsShareFolder
  BY ClientImplements, UploadsImplementFolder, PTL

-----------------------------------------------------------------------------
(* That an upload ends is liveness, which only TLC checks.  What is proved *)
(* is the part of the argument that is safety: the script never goes back. *)

Stage(where) ==
  CASE where = "init" -> 0 [] where = "sending" -> 1 [] where = "complete" -> 2
    [] where = "abort" -> 3 [] OTHER -> 4

\* A worker takes a chunk that nobody was given before, or has one attempt
\* less, or is done with its chunk, or with all.
WorkerOnward(w) ==
  /\ \A v \in Workers \ {w} : worker'[v] = worker[v]
  /\ \/ /\ worker[w].at = "next" /\ nextChunk' = nextChunk + 1
        /\ worker'[w] = [at |-> "send", chunk |-> nextChunk, attempt |-> 1]
     \/ /\ worker[w].at = "send" /\ nextChunk' = nextChunk
        /\ worker[w].attempt < MaxAttempts
        /\ worker'[w] = [worker[w] EXCEPT !.attempt = worker[w].attempt + 1]
     \/ worker[w].at = "send" /\ worker'[w].at = "next" /\ nextChunk' = nextChunk
     \/ worker[w].at # "done" /\ worker'[w].at = "done" /\ nextChunk' = nextChunk

Onward ==
  \/ UNCHANGED <<script, loop>>
  \/ Stage(script') > Stage(script) /\ UNCHANGED loop
  \/ /\ script = "sending" /\ script' = script /\ (failed => failed')
     /\ \E w \in Workers : WorkerOnward(w)

\* Each step of the script brings it closer to its end, by a rank of
\* the stages, the chunks still to be given out and the attempts left, whatever
\* is answered or lost and in whichever order (script.js:177-306).
ScriptOnward == [][Onward]_clientVars

LEMMA ToldOnward ==
  ASSUME ClientTypeOK, NEW f \in Fetchers, NEW id, NEW status, Gets(f, id, status),
         IF f = Script THEN script \in {"init", "complete", "abort"}
         ELSE script = "sending" /\ worker[f].at = "send"
  PROVE  Onward
<1>1. CASE f = Script
  <2>1. script' = AfterAnswer(status) /\ UNCHANGED loop
    BY <1>1 DEF Gets, ScriptGets
  <2>2. Stage(AfterAnswer(status)) > Stage(script)
    <3>1. CASE script = "init"
      BY <3>1 DEF AfterAnswer, AfterInit, Stage
    <3>2. CASE script = "complete"
      BY <3>2 DEF AfterAnswer, AfterComplete, Stage
    <3>3. CASE script = "abort"
      BY <3>3 DEF AfterAnswer, Stage
    <3> QED
      BY <1>1, <3>1, <3>2, <3>3
  <2> QED
    BY <2>1, <2>2 DEF Onward
<1>2. CASE f # Script
  <2>1. f \in Workers /\ WorkerGets(f, status)
    BY <1>2 DEF Gets, Fetchers
  <2>2. worker[f].attempt \in 1 .. MaxAttempts /\ MaxAttempts \in Nat
    BY <2>1, ClientAssumption DEF ClientTypeOK
  <2>3. script' = script /\ nextChunk' = nextChunk /\ (failed => failed')
    BY <2>1 DEF WorkerGets
  <2>4. \A v \in Workers \ {f} : worker'[v] = worker[v]
    BY <2>1 DEF WorkerGets, ClientTypeOK
  <2>5. \/ worker'[f].at \in {"next", "done"}
        \/ /\ worker[f].attempt < MaxAttempts
           /\ worker'[f] = [worker[f] EXCEPT !.attempt = worker[f].attempt + 1]
    <3>1. CASE Delivered(status) \/ GivesUp(f, status)
      BY <2>1, <3>1 DEF WorkerGets, ClientTypeOK
    <3>2. CASE ~Delivered(status) /\ ~GivesUp(f, status)
      <4>1. worker[f].attempt < MaxAttempts
        BY <2>2, <3>2 DEF GivesUp
      <4>2. worker'[f] = [worker[f] EXCEPT !.at = "send",
                                           !.attempt = worker[f].attempt + 1]
        BY <2>1, <3>2 DEF WorkerGets, ClientTypeOK
      <4> QED
        BY <1>2, <2>1, <4>1, <4>2 DEF ClientTypeOK
    <3> QED
      BY <3>1, <3>2
  <2>6. WorkerOnward(f)
    BY <1>2, <2>3, <2>4, <2>5 DEF WorkerOnward
  <2> QED
    BY <1>2, <2>1, <2>3, <2>6 DEF Onward
<1> QED
  BY <1>1, <1>2

THEOREM ScriptGoesOn == ClientSpec => ScriptOnward
<1>1. ClientInv /\ [ClientNext]_clientVars => [Onward]_clientVars
  <2> SUFFICES ASSUME ClientInv, ClientNext PROVE Onward
    OBVIOUS
  <2> USE DEF ClientInv
  <2>1. ASSUME NEW w \in Workers, Take(w) PROVE Onward
    <3>1. nextChunk' = nextChunk \/ nextChunk' = nextChunk + 1
      BY <2>1 DEF Take
    <3>2. \A v \in Workers \ {w} : worker'[v] = worker[v]
      BY <2>1 DEF Take, ClientTypeOK
    <3>3. WorkerOnward(w)
      BY <2>1, <3>2 DEF Take, WorkerOnward, ClientTypeOK
    <3> QED
      BY <2>1, <3>3 DEF Take, Onward
  <2>2. CASE WorkersDone
    BY <2>2 DEF WorkersDone, Onward, Stage
  <2>3. ASSUME NEW f \in Fetchers, Send(f) PROVE Onward
    BY <2>3 DEF Send, SendInit, SendChunk, SendComplete, SendAbort, Connect, Onward
  <2>4. ASSUME NEW f \in Fetchers, NotFound(f) \/ Unreachable(f) PROVE Onward
    <3>1. \E status : Gets(f, NoUpload, status)
      BY <2>4 DEF NotFound, Unreachable
    <3> QED
      BY <2>4, <3>1, ToldOnward DEF NotFound, Unreachable, Wants
  <2>5. ASSUME NEW f \in Fetchers, Break(f) PROVE Onward
    BY <2>5, ToldOnward DEF Break, AnswersFit
  <2>6. ASSUME NEW h \in Handlers, Serve(h) PROVE Onward
    <3>1. ASSUME NEW status, Answer(h, status) PROVE Onward
      <4>1. CASE listener[h] = Nobody
        BY <3>1, <4>1 DEF Answer, Onward
      <4>2. CASE listener[h] # Nobody
        <5>1. listener[h] \in fetching /\ listener[h] \in Fetchers
          BY <4>2 DEF AnswersFit, ClientTypeOK
        <5> QED
          BY <3>1, <4>2, <5>1, ToldOnward DEF Answer, AnswersFit
      <4> QED
        BY <4>1, <4>2
    <3>2. CASE Work(h)
      BY <3>2 DEF Work, Onward
    <3> QED
      BY <2>6, <3>1, <3>2
         DEF Serve, InitAnswered, ChunkAnswered, CompleteAnswered, AbortAnswered
  <2>7. CASE Elsewhere
    BY <2>7 DEF Elsewhere, Onward
  <2>8. CASE ServerDies
    BY <2>8 DEF ServerDies, Onward
  <2> QED
    BY <2>1, <2>2, <2>3, <2>4, <2>5, <2>6, <2>7, <2>8 DEF ClientNext
<1> QED
  BY <1>1, ClientInvHolds, PTL DEF ClientSpec, ScriptOnward
=============================================================================

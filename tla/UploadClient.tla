---------------------------- MODULE UploadClient ----------------------------
(***************************************************************************)
(* upload_file_chunked of web/script.js at work on the upload manager: one *)
(* script with its parallel workers, the connections between them and the  *)
(* goroutines that serve its requests, and the status the routes of        *)
(* internal/server/handler.go make of each result.                         *)
(*                                                                         *)
(* The script is the only one who knows its upload id.  A connection may   *)
(* break at any time: the script sees a rejected fetch, and the goroutine  *)
(* goes on by itself and answers nobody.  An answer that is lost on its    *)
(* way is a connection that broke before the answer.                       *)
(***************************************************************************)
EXTENDS UploadManager

CONSTANTS
  Workers,      \* the script's parallel loops
  Script,       \* the function that starts them
  MaxAttempts,  \* MAX_CHUNK_RETRIES
  Nobody        \* a goroutine whose client is gone

Fetchers == Workers \cup {Script}

ASSUME ClientAssumption ==
  /\ MaxAttempts \in Nat \ {0} /\ Workers # {}
  /\ Script \notin Workers /\ Nobody \notin Fetchers

VARIABLES
  script,       \* what the script is about to do, or how it has ended
  uploadID,     \* the id it was given
  nextChunk, failed,
  worker,       \* per worker: position in its loop, chunk and attempt
  fetching,     \* those who wait for an answer
  listener      \* whom each goroutine will answer

loop       == <<nextChunk, failed, worker>>
connection == <<fetching, listener>>
client     == <<script, uploadID, loop, connection>>
clientVars == <<vars, client>>

ClientInit ==
  /\ Init
  /\ script = "init" /\ uploadID = NoUpload
  /\ nextChunk = 0 /\ failed = FALSE
  /\ worker = [w \in Workers |-> [at |-> "next", chunk |-> 0, attempt |-> 1]]
  /\ fetching = {} /\ listener = [h \in Handlers |-> Nobody]

-----------------------------------------------------------------------------
(* What an answer does.  "refused" is status 400 or 404, "failed" any      *)
(* other one but 200 and 201, "lost" a rejected fetch, "cut" a good answer *)
(* that breaks off after its headers; only the body of Init's is read.     *)

BugDelivered(status) == status \in {"ok", "lost"}
Delivered(status) == status = "ok"

GivesUp(w, status) ==
  ~Delivered(status) /\ (status = "refused" \/ worker[w].attempt = MaxAttempts)

WorkerGets(w, status) ==
  /\ worker' = [worker EXCEPT
       ![w].at = IF Delivered(status) THEN "next"
                 ELSE IF GivesUp(w, status) THEN "done" ELSE "send",
       ![w].attempt = IF Delivered(status) \/ GivesUp(w, status) THEN @ ELSE @ + 1]
  /\ failed' = (failed \/ GivesUp(w, status))
  /\ UNCHANGED <<script, uploadID, nextChunk>>

BugRetriesComplete(status) ==
  CASE status = "ok" -> "uploaded" [] status = "lost" -> "complete" [] OTHER -> "abort"
BugKeepsCompleting(status) == IF status = "ok" THEN "uploaded" ELSE "complete"
AfterComplete(status) == IF status = "ok" THEN "uploaded" ELSE "abort"

\* The body is read outside every try and catch: nobody tells the user.
AfterInit(status) ==
  CASE status = "ok" -> "sending" [] status = "cut" -> "rejected" [] OTHER -> "failed"

AfterAnswer(status) ==
  CASE script = "init"     -> AfterInit(status)
    [] script = "complete" -> AfterComplete(status)
    [] script = "abort"    -> "failed"

ScriptGets(id, status) ==
  /\ script' = AfterAnswer(status)
  /\ uploadID' = IF script = "init" /\ status = "ok" THEN id ELSE uploadID
  /\ UNCHANGED loop

Gets(f, id, status) == IF f = Script THEN ScriptGets(id, status)
                       ELSE WorkerGets(f, status)

-----------------------------------------------------------------------------
(* The script between its fetches.                                         *)

\* The top of a worker's loop.
Take(w) ==
  /\ script = "sending" /\ worker[w].at = "next"
  /\ IF failed \/ nextChunk >= upload[uploadID].total
     THEN /\ worker' = [worker EXCEPT ![w].at = "done"]
          /\ UNCHANGED nextChunk
     ELSE /\ worker' = [worker EXCEPT ![w] =
                          [at |-> "send", chunk |-> nextChunk, attempt |-> 1]]
          /\ nextChunk' = nextChunk + 1
  /\ UNCHANGED <<vars, script, uploadID, failed, connection>>

\* await Promise.all(workers).
BugWorkersDone ==
  /\ script = "sending" /\ \E w \in Workers : worker[w].at = "done"
  /\ script' = IF failed THEN "abort" ELSE "complete"
  /\ UNCHANGED <<vars, uploadID, loop, connection>>

WorkersDone ==
  /\ script = "sending" /\ \A w \in Workers : worker[w].at = "done"
  /\ script' = IF failed THEN "abort" ELSE "complete"
  /\ UNCHANGED <<vars, uploadID, loop, connection>>

Wants(f) ==
  /\ f \notin fetching
  /\ IF f = Script THEN script \in {"init", "complete", "abort"}
     ELSE script = "sending" /\ worker[f].at = "send"

Connect(f, h) ==
  /\ Wants(f)
  /\ fetching' = fetching \cup {f}
  /\ listener' = [listener EXCEPT ![h] = f]
  /\ UNCHANGED <<script, uploadID, loop>>

SendInit(h) ==
  /\ script = "init" /\ Connect(Script, h)
  /\ \E id \in UploadIDs, n \in Names, k \in 1 .. MaxChunks : InitBegin(h, id, n, k)

SendChunk(w, h) ==
  /\ Connect(w, h)
  /\ WriteGet(h, uploadID, worker[w].chunk)

SendComplete(h) ==
  /\ script = "complete" /\ Connect(Script, h)
  /\ CompleteGet(h, uploadID)

SendAbort(h) ==
  /\ script = "abort" /\ Connect(Script, h)
  /\ Abort(h, uploadID)

\* The session is gone: 404, which an abort takes for success.
NotFound(f) ==
  /\ Wants(f) /\ Accepting /\ uploadID \notin sessions
  /\ f = Script => script # "init"
  /\ Gets(f, NoUpload, "refused")
  /\ UNCHANGED <<vars, connection>>

\* No connection, or it breaks; the goroutine does not notice at once.
Unreachable(f) ==
  /\ Wants(f)
  /\ Gets(f, NoUpload, "lost")
  /\ UNCHANGED <<vars, connection>>

Break(f) ==
  /\ f \in fetching
  /\ Gets(f, NoUpload, "lost")
  /\ fetching' = fetching \ {f}
  /\ listener' = [h \in Handlers |-> IF listener[h] = f THEN Nobody ELSE listener[h]]
  /\ UNCHANGED vars

-----------------------------------------------------------------------------
(* The server.                                                             *)

Answer(h, status) ==
  /\ IF listener[h] = Nobody THEN UNCHANGED <<script, uploadID, loop>>
     ELSE Gets(listener[h], sid[h], status)
  /\ fetching' = fetching \ {listener[h]}
  /\ listener' = [listener EXCEPT ![h] = Nobody]

\* The script's offsets and lengths are right (UploadGeometry), so a chunk is
\* refused only in a sealed session or while somebody else copies into it.
RefusedChunk(h) ==
  /\ ClaimRefused(h)
  /\ completed[sid[h]] \/ chunkState[sid[h]][idx[h]] = "writing"

InitAnswered(h) ==
  \/ InitRegister(h) /\ (Answer(h, "ok") \/ Answer(h, "cut"))
  \/ InitCreateFails(h) /\ Answer(h, "failed")

ChunkAnswered(h) ==
  \/ (ClaimDuplicate(h) \/ Mark(h)) /\ Answer(h, "ok")
  \/ RefusedChunk(h) /\ Answer(h, "refused")
  \/ Unmark(h) /\ Answer(h, "failed")

CompleteAnswered(h) ==
  \/ (SealedAlready(h) \/ Forget(h)) /\ Answer(h, "ok")
  \/ /\ \/ SealIncomplete(h) \/ SyncFails(h) \/ CloseFails(h)
        \/ DisplaceFails(h) \/ RenameAgainFails(h)
     /\ Answer(h, "failed")

AbortAnswered(h) == CleanupDone(h) /\ Answer(h, "ok")

Work(h) ==
  /\ \/ InitCreate(h) \/ Claim(h) \/ Copy(h) \/ CopyFails(h)
     \/ Seal(h) \/ Sync(h) \/ Close(h)
     \/ Rename(h) \/ RenameFails(h) \/ Displace(h) \/ RenameAgain(h)
     \/ \E id \in UploadIDs : CleanupClose(h, id)
     \/ CleanupUnlink(h)
  /\ UNCHANGED client

Serve(h) ==
  \/ InitAnswered(h) \/ ChunkAnswered(h) \/ CompleteAnswered(h) \/ AbortAnswered(h)
  \/ Work(h)

\* Time, the administrator, the janitor and the main goroutine.
Elsewhere ==
  /\ \/ JanitorStep \/ MainStep \/ Shutdown \/ Exited
     \/ \E id \in UploadIDs : Age(id)
     \/ \E h \in Handlers, r \in Roots : UpdateStorage(h, r)
  /\ UNCHANGED client

\* All connections break; the script finds out one by one.
ServerDies ==
  /\ ProcessStops
  /\ listener' = [h \in Handlers |-> Nobody]
  /\ UNCHANGED <<script, uploadID, loop, fetching>>

-----------------------------------------------------------------------------
Send(f) ==
  \E h \in Handlers :
    IF f = Script THEN SendInit(h) \/ SendComplete(h) \/ SendAbort(h)
    ELSE SendChunk(f, h)

ClientNext ==
  \/ \E w \in Workers : Take(w)
  \/ WorkersDone
  \/ \E f \in Fetchers : Send(f) \/ NotFound(f) \/ Unreachable(f) \/ Break(f)
  \/ \E h \in Handlers : Serve(h)
  \/ Elsewhere \/ ServerDies

\* A fetch is served in the end (net/http starts a goroutine for each), or
\* there is no server; a body arrives or its connection breaks; what waits
\* for a dead goroutine is told; the lifetime of a session runs out.
Proceed(f) == Send(f) \/ NotFound(f) \/ (~Accepting /\ Unreachable(f))
Cut(f) == Break(f) /\ \A h \in Handlers : listener[h] # f

ClientFairness ==
  /\ WF_clientVars(WorkersDone \/ \E w \in Workers : Take(w))
  /\ \A f \in Fetchers : SF_clientVars(Proceed(f))
  /\ WF_clientVars(\E f \in Fetchers : Cut(f))
  /\ \A h \in Handlers : WF_clientVars(Serve(h))
  /\ WF_clientVars(JanitorStep /\ UNCHANGED client)
  /\ WF_clientVars(MainStep /\ UNCHANGED client)
  /\ WF_clientVars(\E id \in UploadIDs : Age(id) /\ UNCHANGED client)

ClientSpec == ClientInit /\ [][ClientNext]_clientVars
FairClientSpec == ClientSpec /\ ClientFairness

-----------------------------------------------------------------------------
\* When the script reports success, the file has got its name, although a
\* Complete is answered "Uploaded" before that: the script sends one only.
ToldStored == script = "uploaded" => uploadID \in stored

\* The script's loop counters and the server's count agree: when the script
\* asks for completion no chunk is missing, whatever was lost, retried,
\* refused or received twice on the way.
CompleteFindsAll ==
  \A h \in Handlers : pc[h] = "seal" => AllReceived(sid[h])

-----------------------------------------------------------------------------
(* The strengthening that makes the two invariants above inductive,        *)
(* together with SessionInv of the server.                                 *)

ClientTypeOK ==
  /\ script \in {"init", "sending", "complete", "abort", "uploaded", "failed", "rejected"}
  /\ uploadID \in UploadIDs \cup {NoUpload}
  /\ nextChunk \in 0 .. MaxChunks /\ failed \in BOOLEAN
  /\ worker \in [Workers -> [at : {"next", "send", "done"}, chunk : Chunks,
                             attempt : 1 .. MaxAttempts]]
  /\ fetching \subseteq Fetchers
  /\ listener \in [Handlers -> Fetchers \cup {Nobody}]

\* The script knows its id from the answer to Init on, and the workers share
\* out the chunks of that upload.
ScriptInStep ==
  /\ script = "init" =>
       uploadID = NoUpload /\ nextChunk = 0 /\ \A w \in Workers : worker[w].at = "next"
  /\ script \in {"sending", "complete", "abort", "uploaded"} => uploadID \in UploadIDs
  /\ uploadID \in UploadIDs =>
       upload[uploadID].total # 0 /\ nextChunk <= upload[uploadID].total
  /\ script = "complete" => ~failed /\ \A w \in Workers : worker[w].at = "done"
  /\ \A w \in Workers :
       /\ worker[w].at = "send" => worker[w].chunk < nextChunk
       /\ worker[w].at = "done" => failed \/ nextChunk >= upload[uploadID].total

\* Requests about a session come from this script, which does not draw its id
\* again.
OnlyThisScript ==
  \A h \in Handlers :
    /\ pc[h] \in ServingSteps \ InitSteps => sid[h] = uploadID
    /\ pc[h] \in InitSteps => sid[h] # uploadID

\* Who waits for an answer still needs it, and the goroutine that will answer
\* is at work on what was asked.
AnswersFit ==
  /\ \A f \in fetching :
       IF f = Script THEN script \in {"init", "complete", "abort"}
       ELSE script = "sending" /\ worker[f].at = "send"
  /\ \A h \in Handlers : listener[h] # Nobody =>
       /\ listener[h] \in fetching
       /\ \A g \in Handlers : listener[g] = listener[h] => g = h
       /\ IF listener[h] = Script
          THEN \/ script = "init" /\ pc[h] \in InitSteps
               \/ script = "complete" /\ pc[h] \in {"seal"} \cup FinalizeSteps
               \/ script = "abort" /\ pc[h] \in CleanupSteps
          ELSE pc[h] \in {"claim"} \cup WriteSteps /\ idx[h] = worker[listener[h]].chunk

\* One Complete is sent, after the last chunk; until it is answered nothing
\* else seals the session.
OneComplete ==
  /\ script \in {"init", "sending"} =>
       \A h \in Handlers : pc[h] \notin {"seal"} \cup FinalizeSteps
  /\ script = "complete" =>
       \A h \in Handlers : pc[h] \in {"seal"} \cup FinalizeSteps => listener[h] = Script
  /\ script \in {"init", "sending", "complete"} =>
       \A id \in UploadIDs : completed[id] =>
         \E h \in Handlers : pc[h] \in FinalizeSteps /\ sid[h] = id
  /\ \A h \in Handlers : pc[h] = "forget" => sid[h] \in stored

AllComplete(id) ==
  \A c \in Chunks : c < upload[id].total => chunkState[id][c] = "complete"

\* A chunk that a worker has taken is on the server, or still in the hands of
\* a worker, or the upload has failed.
ChunksAccounted ==
  /\ uploadID \in sessions /\ ~failed =>
       \A c \in Chunks : c < nextChunk =>
         \/ chunkState[uploadID][c] = "complete"
         \/ \E w \in Workers : worker[w].at = "send" /\ worker[w].chunk = c
  /\ \A h \in Handlers : pc[h] = "seal" => AllComplete(sid[h])

\* The inductive invariant of the script and the server: from it follow that
\* success is only told of a stored file (script.js:177-276) and that Complete
\* finds every chunk (upload_sessions.go:276-300).
ClientInv ==
  /\ ClientTypeOK /\ ScriptInStep /\ OnlyThisScript /\ AnswersFit
  /\ OneComplete /\ ChunksAccounted /\ ToldStored

-----------------------------------------------------------------------------
\* No worker waits for ever, whatever is lost, and once the script knows its
\* id the user is told how the upload ended.  Before that it may end without a
\* word, when the answer to Init breaks off after its headers.
UploadEnds ==
  /\ (script = "init") ~> (script \in {"sending", "failed", "rejected"})
  /\ (script = "sending") ~> (script \in {"uploaded", "failed"})

\* A failed upload leaves no temporary file for good on a server that runs:
\* also when the abort was lost, or the answer to Init, so that nobody knows
\* the id.
FailedLeavesNothing ==
  \A id \in UploadIDs :
    (script \in {"failed", "rejected"} /\ id \in part)
      ~> (id \notin part \/ id \in orphans \/ ~Accepting)
=============================================================================

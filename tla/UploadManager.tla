--------------------------- MODULE UploadManager ---------------------------
(***************************************************************************)
(* The chunked-upload sessions of internal/server/upload_sessions.go.      *)
(*                                                                         *)
(* An HTTP request runs in a goroutine (a handler) and is split at the     *)
(* points where the code takes or drops a mutex or makes a system call,    *)
(* because that is where another goroutine can run.  Besides the handlers  *)
(* there are the cleanupLoop goroutine (Janitor) and the main goroutine,   *)
(* which shuts the server down.  The file system follows POSIX: an open    *)
(* descriptor outlives its name, and a rename moves the contents.          *)
(*                                                                         *)
(* Byte offsets and sizes are the subject of UploadGeometry; here a file   *)
(* is its chunks, and a chunk's data is missing, torn or full.             *)
(* Operators named Bug... are deliberately wrong variants, never part of   *)
(* Next; they serve to show that a property can fail.                      *)
(***************************************************************************)
EXTENDS Naturals, FiniteSets

CONSTANTS
  UploadIDs,    \* what randomID may return; an id is never drawn twice
  Names,        \* sanitized file names
  Roots,        \* directories the shared folder may be set to
  MaxChunks,    \* bound on the chunks of one upload
  Handlers,     \* goroutines serving HTTP requests
  Janitor,      \* the cleanupLoop goroutine
  Main,         \* the goroutine that runs serveUntilSignal
  Faults,       \* the system calls that may fail by themselves
  MaxStops,     \* bound on the times the process ends
  NoUpload,     \* a handler that holds no session
  NoFile,       \* no file under that name
  Older         \* a file that was in the shared folder beforehand

Chunks == 0 .. MaxChunks - 1
Procs  == Handlers \cup {Janitor, Main}
SystemCalls == {"create", "sync", "close", "rename", "remove"}

ASSUME ConstantsAssumption ==
  /\ MaxChunks \in Nat \ {0}
  /\ MaxStops \in Nat
  /\ Faults \subseteq SystemCalls
  /\ Janitor # Main /\ {Janitor, Main} \cap Handlers = {}
  /\ {NoUpload, NoFile, Older} \cap UploadIDs = {} /\ NoFile # Older

VARIABLES
  \* UploadManager
  root,         \* m.root
  sessions,     \* the keys of m.sessions
  \* uploadSession
  upload,       \* what Init fixed: name, directory, number of chunks (0: id not drawn)
  chunkState,   \* s.chunkStates
  received,     \* s.receivedCount
  completed,    \* s.completed
  stale,        \* lastSeen is more than sessionTTL ago
  \* file system
  part,         \* uploads whose temporary file exists
  fd,           \* uploads whose s.file is open
  data,         \* contents of each upload's file, by chunk
  synced,       \* uploads whose contents are on stable storage
  dest,         \* what stands under each final name of each directory
  \* goroutines
  pc, sid, idx, \* next step, session and chunk index at hand
  victims,      \* sessions taken off the map that are still to be cleaned up
  stops,        \* times the process has ended
  \* history
  acked,        \* uploads some Complete has reported as "Uploaded"
  stored,       \* uploads that were renamed to their final name
  straddled,    \* uploads whose Init was under way while the folder changed
  orphans       \* uploads whose temporary file was there when the process ended

manager   == <<root, sessions>>
session   == <<chunkState, received, completed, stale>>
disk      == <<part, fd, data, synced, dest>>
goroutine == <<pc, sid, idx, victims>>
history   == <<acked, stored, straddled, orphans>>
vars == <<manager, upload, session, disk, goroutine, stops, history>>

-----------------------------------------------------------------------------
InitSteps     == {"init_create", "init_register"}
WriteSteps    == {"copy", "mark", "unmark"}
FinalizeSteps == {"sync", "close", "rename", "displace", "rename_again", "forget"}
CleanupSteps  == {"cleanup", "unlink"}

\* The steps at which a handler works on the session sid.
ServingSteps == {"claim", "seal"} \cup InitSteps \cup WriteSteps \cup FinalizeSteps

HandlerSteps == {"idle"} \cup ServingSteps \cup CleanupSteps
JanitorSteps == {"idle", "exited"} \cup CleanupSteps
MainSteps    == {"idle", "draining", "stop_wait", "closed"} \cup CleanupSteps

StepsOf(p) == IF p = Janitor THEN JanitorSteps
              ELSE IF p = Main THEN MainSteps ELSE HandlerSteps

Blank(v) == [id \in UploadIDs |-> [c \in Chunks |-> v]]

Init ==
  /\ root \in Roots
  /\ sessions = {}
  /\ upload = [id \in UploadIDs |->
                 [name |-> NoFile, dir |-> NoFile, total |-> 0]]
  /\ chunkState = Blank("pending")
  /\ received = [id \in UploadIDs |-> 0]
  /\ completed = [id \in UploadIDs |-> FALSE]
  /\ stale = [id \in UploadIDs |-> FALSE]
  /\ part = {} /\ fd = {} /\ synced = {}
  /\ data = Blank("missing")
  /\ dest \in [Roots -> [Names -> {NoFile, Older}]]
  /\ pc = [p \in Procs |-> "idle"]
  /\ sid = [p \in Procs |-> NoUpload]
  /\ idx = [p \in Procs |-> 0]
  /\ victims = [p \in Procs |-> {}]
  /\ stops = 0
  /\ acked = {} /\ stored = {} /\ straddled = {} /\ orphans = {}

\* The listener takes new requests until http.Server.Shutdown is called.
Accepting == pc[Main] = "idle"

Goto(p, step) == pc' = [pc EXCEPT ![p] = step] /\ UNCHANGED <<sid, idx, victims>>

\* A free handler picks up a request about upload id (and chunk c).
Start(h, step, id, c) ==
  /\ Accepting /\ pc[h] = "idle"
  /\ pc' = [pc EXCEPT ![h] = step]
  /\ sid' = [sid EXCEPT ![h] = id]
  /\ idx' = [idx EXCEPT ![h] = c]
  /\ UNCHANGED victims

\* The handler answers its request.
Reply(h) ==
  /\ pc' = [pc EXCEPT ![h] = "idle"]
  /\ sid' = [sid EXCEPT ![h] = NoUpload]
  /\ idx' = [idx EXCEPT ![h] = 0]
  /\ UNCHANGED victims

-----------------------------------------------------------------------------
(* Init: read the root, create the temporary file, register the session.   *)

InitBegin(h, id, n, k) ==
  /\ upload[id].total = 0
  /\ upload' = [upload EXCEPT ![id] = [name |-> n, dir |-> root, total |-> k]]
  /\ Start(h, "init_create", id, 0)
  /\ UNCHANGED <<manager, session, disk, stops, history>>

InitCreate(h) ==
  LET id == sid[h] IN
  /\ pc[h] = "init_create"
  /\ part' = part \cup {id}
  /\ fd' = fd \cup {id}
  /\ Goto(h, "init_register")
  /\ UNCHANGED <<manager, upload, session, data, synced, dest, stops, history>>

BugDiscarded(id) == part \cup {id}
Discarded(id) == part \ {id}

\* OpenFile or Truncate fails; a file that was opened is removed again.
InitCreateFails(h) ==
  /\ pc[h] = "init_create" /\ "create" \in Faults
  /\ part' = Discarded(sid[h])
  /\ Reply(h)
  /\ UNCHANGED <<manager, upload, session, fd, data, synced, dest, stops, history>>

InitRegister(h) ==
  /\ pc[h] = "init_register"
  /\ sessions' = sessions \cup {sid[h]}
  /\ Reply(h)
  /\ UNCHANGED <<root, upload, session, disk, stops, history>>

-----------------------------------------------------------------------------
(* WriteChunk: claim the chunk under s.mu, copy the body without the lock, *)
(* then mark the chunk under s.mu again.                                   *)

WriteGet(h, id, c) ==
  /\ id \in sessions
  /\ Start(h, "claim", id, c)
  /\ UNCHANGED <<manager, upload, session, disk, stops, history>>

BugClaimable(id, c) ==
  ~completed[id] /\ c < upload[id].total /\ chunkState[id][c] # "complete"
BugClaimableAgain(id, c) ==
  ~completed[id] /\ c < upload[id].total /\ chunkState[id][c] # "writing"
Claimable(id, c) ==
  ~completed[id] /\ c < upload[id].total /\ chunkState[id][c] = "pending"

SetChunk(id, c, state) == chunkState' = [chunkState EXCEPT ![id][c] = state]

Claim(h) ==
  LET id == sid[h]  c == idx[h] IN
  /\ pc[h] = "claim" /\ Claimable(id, c)
  /\ SetChunk(id, c, "writing")
  /\ Goto(h, "copy")
  /\ UNCHANGED <<manager, upload, received, completed, stale, disk, stops, history>>

\* The chunk is there already: the body is discarded and the answer is OK.
ClaimDuplicate(h) ==
  LET id == sid[h]  c == idx[h] IN
  /\ pc[h] = "claim"
  /\ ~completed[id] /\ c < upload[id].total /\ chunkState[id][c] = "complete"
  /\ stale' = [stale EXCEPT ![id] = FALSE]
  /\ Reply(h)
  /\ UNCHANGED <<manager, upload, chunkState, received, completed, disk, stops, history>>

\* Completed, out of range, being written, or the wrong offset or length.
ClaimRefused(h) ==
  /\ pc[h] = "claim"
  /\ Reply(h)
  /\ UNCHANGED <<manager, upload, session, disk, stops, history>>

Contents(id, c, d) ==
  /\ data' = [data EXCEPT ![id][c] = d]
  /\ synced' = synced \ {id}

Copy(h) ==
  /\ pc[h] = "copy" /\ sid[h] \in fd
  /\ Contents(sid[h], idx[h], "full")
  /\ Goto(h, "mark")
  /\ UNCHANGED <<manager, upload, session, part, fd, dest, stops, history>>

\* The client went away or sent too little, or the descriptor was closed:
\* before or after the first bytes.
CopyFails(h) ==
  /\ pc[h] = "copy"
  /\ \/ Contents(sid[h], idx[h], "torn")
     \/ UNCHANGED <<data, synced>>
  /\ Goto(h, "unmark")
  /\ UNCHANGED <<manager, upload, session, part, fd, dest, stops, history>>

Mark(h) ==
  LET id == sid[h]  c == idx[h] IN
  /\ pc[h] = "mark"
  /\ SetChunk(id, c, "complete")
  /\ received' = [received EXCEPT ![id] =
                    IF chunkState[id][c] = "complete" THEN @ ELSE @ + 1]
  /\ stale' = [stale EXCEPT ![id] = FALSE]
  /\ Reply(h)
  /\ UNCHANGED <<manager, upload, completed, disk, stops, history>>

BugAfterFailure == "writing"
AfterFailure == "pending"

Unmark(h) ==
  LET id == sid[h] IN
  /\ pc[h] = "unmark"
  /\ SetChunk(id, idx[h], AfterFailure)
  /\ stale' = [stale EXCEPT ![id] = FALSE]
  /\ Reply(h)
  /\ UNCHANGED <<manager, upload, received, completed, disk, stops, history>>

-----------------------------------------------------------------------------
(* Complete: seal the session, sync and close the file, move it to its     *)
(* final name (replaceFile), forget the session.                           *)

CompleteGet(h, id) ==
  /\ id \in sessions
  /\ Start(h, "seal", id, 0)
  /\ UNCHANGED <<manager, upload, session, disk, stops, history>>

BugAllReceived(id) == received[id] + 1 >= upload[id].total
AllReceived(id) == received[id] >= upload[id].total

BugSealable(id) == AllReceived(id)
Sealable(id) == ~completed[id] /\ AllReceived(id)

Seal(h) ==
  LET id == sid[h] IN
  /\ pc[h] = "seal" /\ Sealable(id)
  /\ completed' = [completed EXCEPT ![id] = TRUE]
  /\ Goto(h, "sync")
  /\ UNCHANGED <<manager, upload, chunkState, received, stale, disk, stops, history>>

SealedAlready(h) ==
  /\ pc[h] = "seal" /\ completed[sid[h]]
  /\ acked' = acked \cup {sid[h]}
  /\ Reply(h)
  /\ UNCHANGED <<manager, upload, session, disk, stops, stored, straddled, orphans>>

SealIncomplete(h) ==
  /\ pc[h] = "seal" /\ ~completed[sid[h]] /\ ~AllReceived(sid[h])
  /\ Reply(h)
  /\ UNCHANGED <<manager, upload, session, disk, stops, history>>

BugSynced(id) == synced
Synced(id) == synced \cup {id}

Sync(h) ==
  /\ pc[h] = "sync" /\ sid[h] \in fd
  /\ synced' = Synced(sid[h])
  /\ Goto(h, "close")
  /\ UNCHANGED <<manager, upload, session, part, fd, data, dest, stops, history>>

SyncFails(h) ==
  /\ pc[h] = "sync" /\ (sid[h] \notin fd \/ "sync" \in Faults)
  /\ Reply(h)
  /\ UNCHANGED <<manager, upload, session, disk, stops, history>>

Close(h) ==
  /\ pc[h] = "close" /\ sid[h] \in fd
  /\ fd' = fd \ {sid[h]}
  /\ Goto(h, "rename")
  /\ UNCHANGED <<manager, upload, session, part, data, synced, dest, stops, history>>

\* Closed by somebody else already, or an error that still releases it.
CloseFails(h) ==
  /\ pc[h] = "close" /\ (sid[h] \notin fd \/ "close" \in Faults)
  /\ fd' = fd \ {sid[h]}
  /\ Reply(h)
  /\ UNCHANGED <<manager, upload, session, part, data, synced, dest, stops, history>>

\* os.Rename(tempPath, finalPath): it replaces what stands there.
Stand(id, file) ==
  dest' = [dest EXCEPT ![upload[id].dir][upload[id].name] = file]

RenameStep(h, step) ==
  LET id == sid[h] IN
  /\ pc[h] = step /\ id \in part
  /\ Stand(id, id)
  /\ part' = part \ {id}
  /\ stored' = stored \cup {id}
  /\ Goto(h, "forget")
  /\ UNCHANGED <<manager, upload, session, fd, data, synced, stops, acked, straddled, orphans>>

CannotRename(h) == sid[h] \notin part \/ "rename" \in Faults

Rename(h) == RenameStep(h, "rename")

RenameFails(h) ==
  /\ pc[h] = "rename" /\ CannotRename(h)
  /\ Goto(h, "displace")
  /\ UNCHANGED <<manager, upload, session, disk, stops, history>>

\* os.Remove(dst) of replaceFile; a missing dst is no error.
Displace(h) ==
  /\ pc[h] = "displace"
  /\ Stand(sid[h], NoFile)
  /\ Goto(h, "rename_again")
  /\ UNCHANGED <<manager, upload, session, part, fd, data, synced, stops, history>>

DisplaceFails(h) ==
  /\ pc[h] = "displace" /\ "remove" \in Faults
  /\ Reply(h)
  /\ UNCHANGED <<manager, upload, session, disk, stops, history>>

RenameAgain(h) == RenameStep(h, "rename_again")

RenameAgainFails(h) ==
  /\ pc[h] = "rename_again" /\ CannotRename(h)
  /\ Reply(h)
  /\ UNCHANGED <<manager, upload, session, disk, stops, history>>

Forget(h) ==
  /\ pc[h] = "forget"
  /\ sessions' = sessions \ {sid[h]}
  /\ acked' = acked \cup {sid[h]}
  /\ Reply(h)
  /\ UNCHANGED <<root, upload, session, disk, stops, stored, straddled, orphans>>

-----------------------------------------------------------------------------
(* Taking sessions off the map (under m.mu) and cleaning them up after.    *)

BugEvicted(p, ids) == [victims EXCEPT ![p] = {}]
Evicted(p, ids) == [victims EXCEPT ![p] = ids]

BugRemaining(ids) == sessions
Remaining(ids) == sessions \ ids

Evict(p, ids) ==
  /\ sessions' = Remaining(ids)
  /\ victims' = Evicted(p, ids)
  /\ pc' = [pc EXCEPT ![p] = "cleanup"]
  /\ UNCHANGED <<sid, idx>>

Abort(h, id) ==
  /\ Accepting /\ pc[h] = "idle" /\ id \in sessions
  /\ Evict(h, {id})
  /\ UNCHANGED <<root, upload, session, disk, stops, history>>

\* Ids whose Init has read a root and not registered its session yet.
InitUnderWay == {sid[h] : h \in {g \in Handlers : pc[g] \in InitSteps}}

BugEvictedByStorage == {}
EvictedByStorage == sessions

\* From an admin settings request; r is the new shared folder.
UpdateStorage(h, r) ==
  /\ Accepting /\ pc[h] = "idle"
  /\ root' = r
  /\ Evict(h, EvictedByStorage)
  /\ straddled' = straddled \cup {id \in InitUnderWay : upload[id].dir # r}
  /\ UNCHANGED <<upload, session, disk, stops, acked, stored, orphans>>

\* One tick of cleanupLoop that finds something (cleanupStale).
Expire ==
  LET expired == {id \in sessions : stale[id]} IN
  /\ pc[Janitor] = "idle" /\ expired # {}
  /\ Evict(Janitor, expired)
  /\ UNCHANGED <<root, upload, session, disk, stops, history>>

\* cleanupSession, victim by victim: close the descriptor ...
CleanupClose(p, id) ==
  /\ pc[p] = "cleanup" /\ id \in victims[p]
  /\ fd' = fd \ {id}
  /\ pc' = [pc EXCEPT ![p] = "unlink"]
  /\ sid' = [sid EXCEPT ![p] = id]
  /\ UNCHANGED <<manager, upload, session, part, data, synced, dest, idx, victims, stops, history>>

BugUnlinked(id) == part
Unlinked(id) == part \ {id}

\* ... then remove the temporary file.
CleanupUnlink(p) ==
  /\ pc[p] = "unlink"
  /\ part' = Unlinked(sid[p])
  /\ victims' = [victims EXCEPT ![p] = @ \ {sid[p]}]
  /\ pc' = [pc EXCEPT ![p] = "cleanup"]
  /\ sid' = [sid EXCEPT ![p] = NoUpload]
  /\ UNCHANGED <<manager, upload, session, fd, data, synced, dest, idx, stops, history>>

BugAfterCleanup(p) == "closed"
AfterCleanup(p) == IF p = Main THEN "closed" ELSE "idle"

CleanupDone(p) ==
  /\ pc[p] = "cleanup" /\ victims[p] = {}
  /\ Goto(p, AfterCleanup(p))
  /\ UNCHANGED <<manager, upload, session, disk, stops, history>>

\* No chunk request has touched the session for sessionTTL.
Age(id) ==
  /\ id \in sessions /\ ~stale[id]
  /\ stale' = [stale EXCEPT ![id] = TRUE]
  /\ UNCHANGED <<manager, upload, chunkState, received, completed, disk, goroutine, stops, history>>

-----------------------------------------------------------------------------
(* Runtime.Shutdown: http.Server.Shutdown, then the deferred Close.        *)

Shutdown ==
  /\ pc[Main] = "idle"
  /\ Goto(Main, "draining")
  /\ UNCHANGED <<manager, upload, session, disk, stops, history>>

\* All requests are answered, or the 10 seconds are over and some are not:
\* Close closes stopCleanup and waits for the janitor.
CloseSignal ==
  /\ pc[Main] = "draining"
  /\ Goto(Main, "stop_wait")
  /\ UNCHANGED <<manager, upload, session, disk, stops, history>>

JanitorExit ==
  /\ pc[Main] = "stop_wait" /\ pc[Janitor] = "idle"
  /\ Goto(Janitor, "exited")
  /\ UNCHANGED <<manager, upload, session, disk, stops, history>>

CloseGrab ==
  /\ pc[Main] = "stop_wait" /\ pc[Janitor] = "exited"
  /\ Evict(Main, sessions)
  /\ UNCHANGED <<root, upload, session, disk, stops, history>>

\* The process ends, orderly after Close or by a crash at any step, and is
\* started again; the shared folder is whatever the configuration then says.
\* Files stay; descriptors, sessions and goroutines do not.
Restart ==
  /\ stops < MaxStops
  /\ stops' = stops + 1
  /\ root' \in Roots
  /\ sessions' = {} /\ fd' = {}
  /\ chunkState' = Blank("pending")
  /\ received' = [id \in UploadIDs |-> 0]
  /\ completed' = [id \in UploadIDs |-> FALSE]
  /\ stale' = [id \in UploadIDs |-> FALSE]
  /\ pc' = [p \in Procs |-> "idle"]
  /\ sid' = [p \in Procs |-> NoUpload]
  /\ idx' = [p \in Procs |-> 0]
  /\ victims' = [p \in Procs |-> {}]
  /\ orphans' = orphans \cup part
  /\ UNCHANGED <<upload, part, dest, acked, stored, straddled>>

ProcessStops == Restart /\ UNCHANGED <<data, synced>>

\* Contents that were not synced may be lost; the metadata is journalled.
PowerFails ==
  /\ Restart
  /\ data' = [id \in UploadIDs |->
                IF upload[id].total = 0 \/ id \in synced
                THEN data[id] ELSE [c \in Chunks |-> "torn"]]
  /\ UNCHANGED synced

\* After Close the process only has to exit.
Exited ==
  /\ pc[Main] = "closed" /\ \A h \in Handlers : pc[h] = "idle"
  /\ UNCHANGED vars

-----------------------------------------------------------------------------
Request(h) ==
  \/ \E id \in UploadIDs, n \in Names, k \in 1 .. MaxChunks : InitBegin(h, id, n, k)
  \/ \E id \in UploadIDs, c \in Chunks : WriteGet(h, id, c)
  \/ \E id \in UploadIDs : CompleteGet(h, id)
  \/ \E id \in UploadIDs : Abort(h, id)
  \/ \E r \in Roots : UpdateStorage(h, r)

Cleanup(p) ==
  \/ \E id \in UploadIDs : CleanupClose(p, id)
  \/ CleanupUnlink(p)
  \/ CleanupDone(p)

Handle(h) ==
  \/ InitCreate(h) \/ InitCreateFails(h) \/ InitRegister(h)
  \/ Claim(h) \/ ClaimDuplicate(h) \/ ClaimRefused(h)
  \/ Copy(h) \/ CopyFails(h) \/ Mark(h) \/ Unmark(h)
  \/ Seal(h) \/ SealedAlready(h) \/ SealIncomplete(h)
  \/ Sync(h) \/ SyncFails(h) \/ Close(h) \/ CloseFails(h)
  \/ Rename(h) \/ RenameFails(h) \/ Displace(h) \/ DisplaceFails(h)
  \/ RenameAgain(h) \/ RenameAgainFails(h) \/ Forget(h)
  \/ Cleanup(h)

JanitorStep == Expire \/ JanitorExit \/ Cleanup(Janitor)
MainStep    == CloseSignal \/ CloseGrab \/ Cleanup(Main)

Next ==
  \/ \E h \in Handlers : Request(h) \/ Handle(h)
  \/ JanitorStep \/ MainStep
  \/ \E id \in UploadIDs : Age(id)
  \/ Shutdown \/ ProcessStops \/ PowerFails \/ Exited

Spec == Init /\ [][Next]_vars

\* Goroutines are scheduled, system calls return, the janitor's ticker ticks
\* and Shutdown gives up after 10 seconds.  Nobody has to send a request, to
\* leave a session alone, to ask for a shutdown or to crash, and a client may
\* stop in the middle of a chunk for ever: the server has no read timeout.
Fairness ==
  /\ \A h \in Handlers : WF_vars(pc[h] # "copy" /\ Handle(h))
  /\ WF_vars(JanitorStep) /\ WF_vars(MainStep)

FairSpec == Spec /\ Fairness

-----------------------------------------------------------------------------
Whole(id) == \A c \in Chunks : c < upload[id].total => data[id][c] = "full"

GoroutinesOK ==
  /\ pc \in [Procs -> HandlerSteps \cup JanitorSteps \cup MainSteps]
  /\ \A p \in Procs : pc[p] \in StepsOf(p)
  /\ sid \in [Procs -> UploadIDs \cup {NoUpload}]
  /\ idx \in [Procs -> Chunks]
  /\ victims \in [Procs -> SUBSET UploadIDs]

TypeOK ==
  /\ GoroutinesOK
  /\ root \in Roots
  /\ sessions \subseteq UploadIDs
  /\ upload \in [UploadIDs -> [name : Names \cup {NoFile}, dir : Roots \cup {NoFile},
                               total : 0 .. MaxChunks]]
  /\ chunkState \in [UploadIDs -> [Chunks -> {"pending", "writing", "complete"}]]
  /\ received \in [UploadIDs -> 0 .. MaxChunks]
  /\ completed \in [UploadIDs -> BOOLEAN]
  /\ stale \in [UploadIDs -> BOOLEAN]
  /\ part \subseteq UploadIDs /\ fd \subseteq UploadIDs /\ synced \subseteq UploadIDs
  /\ data \in [UploadIDs -> [Chunks -> {"missing", "torn", "full"}]]
  /\ dest \in [Roots -> [Names -> UploadIDs \cup {NoFile, Older}]]
  /\ stops \in 0 .. MaxStops
  /\ acked \subseteq UploadIDs /\ stored \subseteq UploadIDs
  /\ straddled \subseteq UploadIDs /\ orphans \subseteq UploadIDs

\* A chunk is in state "writing" exactly while one handler is copying into
\* it: WriteChunk never lets two bodies into one chunk, and no error path
\* leaves a chunk that nobody can write again.
WritingHasOwner ==
  \A id \in UploadIDs, c \in Chunks :
    LET owners == {h \in Handlers : pc[h] \in WriteSteps /\ sid[h] = id /\ idx[h] = c}
    IN  IF chunkState[id][c] = "writing"
        THEN Cardinality(owners) = 1 ELSE owners = {}

\* receivedCount, which Complete trusts, is the number of complete chunks,
\* whatever duplicates, retries and failed writes came before.
ReceivedExact ==
  \A id \in UploadIDs :
    received[id] = Cardinality({c \in Chunks : chunkState[id][c] = "complete"})

\* Once Complete has sealed a session, every chunk of it is complete and
\* stays so: no writer is still under way in the file being finalized.
SealedQuiet ==
  \A id \in UploadIDs : completed[id] =>
    \A c \in Chunks : c < upload[id].total => chunkState[id][c] = "complete"

\* At most one Complete finalizes an upload, however many are sent.
OneFinalizer ==
  \A g, h \in Handlers :
    pc[g] \in FinalizeSteps /\ pc[h] \in FinalizeSteps /\ sid[g] = sid[h] => g = h

\* What stands under a final name is an older file or an upload with all of
\* its data, also after a crash or a power failure: the file is verified and
\* synced before it is renamed, and nobody writes to it afterwards.
FinalFileIntact ==
  \A r \in Roots, n \in Names : dest[r][n] \in UploadIDs => Whole(dest[r][n])

\* "Uploaded" is answered only for an upload whose every chunk has arrived:
\* what there is of it is whole, but for what a crash has left behind.
AckedUploadsWhole == \A id \in acked \cap (stored \cup (part \ orphans)) : Whole(id)

\* A temporary file is always somebody's to remove: that of a session the
\* janitor sees, of a cleanup under way, of an Init about to register it, or
\* one left behind by an earlier process.
NoOrphanPart ==
  \A id \in part :
    \/ id \in sessions \cup orphans
    \/ \E p \in Procs : id \in victims[p]
    \/ \E h \in Handlers : pc[h] \in InitSteps /\ sid[h] = id

\* After UpdateStorage no session is left that would store its file in the
\* old folder, except one whose Init was under way at that moment.
SessionsOnCurrentRoot ==
  \A id \in sessions : upload[id].dir = root \/ id \in straddled

\* replaceFile only gives up the existing file when the temporary file was
\* taken away by an abort, an expiry or a storage change (without faults of
\* the file system itself): Complete alone never gets there.
FallbackOnlyAfterEviction ==
  \A h \in Handlers :
    pc[h] \in {"displace", "rename_again"} => sid[h] \notin sessions

-----------------------------------------------------------------------------
(* The strengthening that makes the invariants above inductive.            *)

\* An id that was never drawn is known to nobody.
UndrawnUnknown ==
  \A id \in UploadIDs : upload[id].total = 0 =>
    /\ id \notin sessions \cup stored /\ ~completed[id]
    /\ \A h \in Handlers : pc[h] \in ServingSteps => sid[h] # id

\* A session that is not registered yet is known to its Init only.
InitAlone ==
  \A h \in Handlers : pc[h] \in InitSteps =>
    /\ sid[h] \notin sessions \cup stored /\ ~completed[sid[h]]
    /\ \A g \in Handlers : pc[g] \in ServingSteps /\ sid[g] = sid[h] => g = h

ServingSession == \A h \in Handlers : pc[h] \in ServingSteps => sid[h] \in UploadIDs

\* A handler in WriteChunk holds a chunk of an unsealed session for itself.
WriterClaims ==
  \A h \in Handlers : pc[h] \in WriteSteps =>
    /\ ~completed[sid[h]] /\ idx[h] < upload[sid[h]].total
    /\ chunkState[sid[h]][idx[h]] = "writing"
    /\ \A g \in Handlers :
         pc[g] \in WriteSteps /\ sid[g] = sid[h] /\ idx[g] = idx[h] => g = h

\* The data of a chunk is there before its state says so.
CompleteChunksFull ==
  /\ \A id \in UploadIDs, c \in Chunks : chunkState[id][c] = "complete" =>
       c < upload[id].total /\ data[id][c] = "full"
  /\ \A h \in Handlers : pc[h] = "mark" => data[sid[h]][idx[h]] = "full"

\* A handler past Sync works on a sealed session whose file is synced.
FinalizerSealed ==
  \A h \in Handlers : pc[h] \in FinalizeSteps =>
    completed[sid[h]] /\ (pc[h] # "sync" => sid[h] \in synced)

\* A stored upload is whole and on disk, and whoever still knows its session
\* finds it sealed.
StoredSettled ==
  \A id \in stored :
    /\ Whole(id) /\ id \in synced
    /\ (id \in sessions \/ \E h \in Handlers : pc[h] \in ServingSteps /\ sid[h] = id)
         => completed[id]

OnlyStoredFiles ==
  \A r \in Roots, n \in Names : dest[r][n] \in UploadIDs => dest[r][n] \in stored

Protocol ==
  /\ UndrawnUnknown /\ InitAlone /\ ServingSession
  /\ WriterClaims /\ CompleteChunksFull /\ SealedQuiet
  /\ OneFinalizer /\ FinalizerSealed /\ StoredSettled /\ OnlyStoredFiles

IndInv == TypeOK /\ ReceivedExact /\ Protocol

\* What NoOrphanPart needs besides: a temporary file exists only after its
\* InitCreate, is gone when Complete forgets the session, and a goroutine
\* that is not cleaning up owes nobody a cleanup.
PartAccounted ==
  /\ NoOrphanPart
  /\ \A id \in UploadIDs : upload[id].total = 0 => id \notin part
  /\ \A h \in Handlers : pc[h] \in {"init_create", "forget"} => sid[h] \notin part
  /\ \A p \in Procs : pc[p] \notin CleanupSteps => victims[p] = {}

\* What the other invariants need: whoever put a chunk into "writing" is still
\* there; an Init under way has read the folder that is in force; a session on
\* the map has its temporary file until it is renamed; what is being cleaned up
\* is off the map for good; an upload answered "Uploaded" is sealed.
WritersOwn ==
  \A id \in UploadIDs, c \in Chunks : chunkState[id][c] = "writing" =>
    \E h \in Handlers : pc[h] \in WriteSteps /\ sid[h] = id /\ idx[h] = c

InitOnRoot ==
  \A h \in Handlers : pc[h] \in InitSteps =>
    upload[sid[h]].dir = root \/ sid[h] \in straddled

SessionsHaveParts ==
  /\ \A h \in Handlers : pc[h] = "init_register" => sid[h] \in part
  /\ \A id \in sessions \ part : \E h \in Handlers : pc[h] = "forget" /\ sid[h] = id

VictimsOffMap ==
  \A p \in Procs :
    /\ pc[p] = "unlink" => sid[p] \in victims[p]
    /\ \A id \in victims[p] :
         /\ upload[id].total # 0 /\ id \notin sessions
         /\ \A h \in Handlers : pc[h] \in InitSteps => sid[h] # id

AckedSealed ==
  \A id \in acked :
    /\ upload[id].total # 0
    /\ id \in part \ orphans => completed[id]
    /\ \A h \in Handlers : pc[h] \in InitSteps => sid[h] # id

Records ==
  /\ WritersOwn /\ SessionsOnCurrentRoot /\ InitOnRoot
  /\ SessionsHaveParts /\ VictimsOffMap /\ AckedSealed

SessionInv == IndInv /\ PartAccounted /\ Records

-----------------------------------------------------------------------------
\* A session that nobody writes to loses its temporary file while the server
\* runs, whether its Complete succeeded, failed or never came.
StaleReclaimed ==
  \A id \in UploadIDs :
    (id \in part /\ id \in sessions /\ stale[id])
      ~> (id \notin part \/ ~stale[id] \/ ~Accepting)

\* Close returns: the janitor always gets to see stopCleanup, also when the
\* signal comes in the middle of a cleanup.
CloseReturns == (pc[Main] = "draining") ~> (pc[Main] \in {"closed", "idle"})

-----------------------------------------------------------------------------
(* The refinement mapping to ShareFolder.  An upload is partial from its   *)
(* Init to the removal of its temporary file; a temporary file that        *)
(* outlived its process is nobody's upload any more.                       *)

Opening(id) == \E h \in Handlers : pc[h] = "init_create" /\ sid[h] = id

Phase(id) == IF upload[id].total = 0 THEN "new"
             ELSE IF id \in stored THEN "stored"
             ELSE IF Opening(id) \/ id \in part \ orphans THEN "partial"
             ELSE "gone"

Place(id) == [dir |-> upload[id].dir, name |-> upload[id].name]

Needed(id) == {c \in Chunks : c < upload[id].total}

Got(id) == IF Phase(id) \in {"partial", "stored"}
           THEN {c \in Chunks : data[id][c] = "full"} ELSE {}

Places == [dir : Roots, name : Names]

Folder == INSTANCE ShareFolder WITH
  Uploads <- UploadIDs,
  Nothing <- NoFile,
  Nowhere <- [dir |-> NoFile, name |-> NoFile],
  phase   <- [id \in UploadIDs |-> Phase(id)],
  target  <- [id \in UploadIDs |-> Place(id)],
  needs   <- [id \in UploadIDs |-> Needed(id)],
  got     <- [id \in UploadIDs |-> Got(id)],
  folder  <- [p \in Places |-> dest[p.dir][p.name]]

\* Every step of the sessions, of crashes and of power failures is a step of
\* ShareFolder, or one that nobody sees in the shared folder.
ImplementsShareFolder == Folder!FolderSpec

-----------------------------------------------------------------------------
\* DESIGN.md:63: finalization "atomically renames to final destination", so
\* a name that holds a file goes on holding one.
AtomicReplacement ==
  [][\A r \in Roots, n \in Names : dest[r][n] # NoFile => dest'[r][n] # NoFile]_vars

\* DESIGN.md:63 and handler.go:426: an upload that was answered "Uploaded"
\* has been given its final name.
AckedUploadsStored == acked \subseteq stored
=============================================================================

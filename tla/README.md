# Verification of Mizban

Mizban is a LAN file-sharing server in Go with a browser client.  This
directory holds TLA+ models of its core logic, the TLC configurations that
check them on small instances, and proofs for every value of the constants.
Paths below are relative to the repository (`src/`).

## 1. The system

| Component | State | Operations | What makes it correct |
|---|---|---|---|
| Chunked upload sessions (`internal/server/upload_sessions.go`) | session table, per-chunk states, `receivedCount`, `completed`, `lastSeen`, open `.part` files | Init, WriteChunk, Complete, Abort, UpdateStorage, UpdateLimits, cleanupLoop, Close | a final name never shows an incomplete file; one writer per chunk, one finalizer per upload; no temporary file is forgotten |
| Chunk geometry (same file, and the slices of `web/script.js`) | limits, size, chunk size, number of chunks | normalize, cut, accept (index, offset, length) | chunks cover the file and never overlap; client and server agree |
| Settings (`internal/config`) and admin routes (`internal/server/handler.go:700-866`) | settings in memory and in `config.json`, copies in `share.Manager` and `UploadManager` | load, Save, PUT settings, POST restart | the copies agree, what was answered is in force and on disk |
| Process (`internal/server/server.go`, `cmd/mizban`) | listener, restart flag and channel, step of the main goroutine | New, bindWithRetry, Serve, Shutdown, restartSelf | starts restore what was saved, shutting down ends, a restart restarts |
| Shared folder (`internal/share`) | root | ListFiles, SafeJoin, SanitizeFilename | a name never leaves the root; what is listed can be downloaded |
| Legacy upload, downloads, thumbnails (`handler.go`, `internal/thumb`) | files only | multipart upload, ServeContent, Generate | whole files; a download of one version |
| Client script (`web/script.js`) | worker loop, attempts, connections | chunked upload, ranged download | what the user is told is what happened; every transfer ends; a saved file is complete |
| Network helpers, QR code, socket options, web assets, packaging, CI | none | - | not modelled: stateless, written once at the start, or not part of the running system |

Interactions.  Every request is a goroutine of `net/http`.  Upload handlers share
`UploadManager` through `m.mu` (the table) and one `s.mu` per session, and drop
both while they copy bodies, sync, rename and delete.  The goroutine of
`cleanupLoop` expires sessions; a settings request takes all sessions off the
table (`UpdateStorage`); `Runtime.Shutdown` waits up to 10 seconds for
requests and then runs `UploadManager.Close`, possibly while some are still
running.  Uploads meet downloads, listings and legacy uploads only in the
file system.  The client script is several loops around one counter, each waiting for one
request at a time; a connection that breaks leaves its goroutine at work.  A settings request writes to three objects with a mutex each.

Hard parts.  Work done without a lock after state was checked with it; several
goroutines that each believe they own a session's clean-up; failures between
seal, sync, close and rename; crashes, since the table is only in memory and
`config.json` is truncated before it is written; clients that retry, abort and
leave; deadlines that expire with work under way.  `PROJECT.json` lists each
hazard at its line with the properties that cover it.

## 2. Modules

| Module | Models | Used by |
|---|---|---|
| `UploadManager` | the sessions, handlers, janitor, main goroutine and the files they touch | `MCUploadManager`, proofs |
| `ShareFolder` | the abstract specification: what somebody sees who only looks at the shared folders | instantiated in `UploadManager` and `Publishing` |
| `UploadManagerProofs`, `UploadRecordsProofs`, `UploadFolderProofs` | theorems on `UploadManager`, each extending the one before; the last one is the refinement of `ShareFolder` | `UploadClientProofs` |
| `UploadClient` | extends `UploadManager` by the script that uploads, its connections and the statuses of the routes | `MCUploadClient`, `UploadClientProofs` |
| `RangedDownload` | the script's parallel download of a file that may change | `FileAccess` |
| `SafePath` | operators on names and paths: encoding, `SafeJoin`, `SanitizeFilename` | `FileAccess` |
| `FileAccess` | the shared folder by names: upload, list, ask, with `RangedDownload` for the bytes | `MCFileAccess`, `FileAccessProofs` |
| `UploadGeometry` | limits, cutting, acceptance and bytes of a chunk | `MCUploadGeometry`, `UploadGeometryProofs` |
| `AdminSettings` | settings, admin requests, start, restart, shutdown | `MCAdminSettings`, `AdminSettingsProofs` |
| `Publishing` | legacy uploads, thumbnails, the route that serves them | `MCPublishing`, `PublishingProofs` |
| `MC...` | values of constants and symmetry for TLC | the `.cfg` files |

Operators called `Bug...` are wrong variants of the definition next to them
(a lock dropped, a reset forgotten).  They are part of no specification and only
show that each property can fail; `PROJECT.json` pairs them under `mutants`.

### UploadManager and the code

| Code | Model |
|---|---|
| `m.root`, `m.sessions` | `root`, `sessions` (a set of ids) |
| the fields Init fixes: name, final path, number of chunks | `upload[id]`; `total = 0` means the id was not drawn yet |
| `chunkStates`, `receivedCount`, `completed` | variables of the same names |
| `lastSeen` and the 90 minutes | `stale[id]`, set by `Age`, cleared where the code writes `lastSeen` |
| `s.file` open, the `.part` file, its contents, fsync | `fd`, `part`, `data` (missing, torn, full per chunk), `synced` |
| final names | `dest[folder][name]`: nothing, an older file or an upload |
| a goroutine between two locks or system calls | `pc[p]`, with `sid[p]`, `idx[p]`, `victims[p]` for its locals |
| `Init` (128-201) | `InitBegin` (root read), `InitCreate`/`InitCreateFails`, `InitRegister` |
| `WriteChunk` (203-274) | `WriteGet`, `Claim`/`ClaimDuplicate`/`ClaimRefused`, `Copy`/`CopyFails`, `Mark`/`Unmark` |
| `Complete` (276-323) | `CompleteGet`, `Seal`/`SealedAlready`/`SealIncomplete`, `Sync`, `Close`, `Rename`, `Displace`, `RenameAgain` (`replaceFile`), `Forget`, each with its failure |
| `Abort`, `UpdateStorage`, `cleanupStale`, `Close` | `Abort`, `UpdateStorage`, `Expire`, `CloseGrab`: each takes sessions off the table under `m.mu`, then `CleanupClose`, `CleanupUnlink` for each of them (`cleanupSession`) |
| crash, restart | `ProcessStops`, `PowerFails` |

Abstractions.  `ClaimRefused` is always possible: a request may carry a wrong offset
or length, which `UploadGeometry` treats exactly.  `UpdateStorage` may be given
the current folder as well, because the handler compares with
`share.Manager` and not with `m.root`.  Failing `MkdirAll` in `Init` is part of the fault
"create", in `UpdateStorage` it changes nothing and has no action.  An id is
never drawn twice (16 random bytes).  `PowerFails` assumes that metadata is
journalled: names survive, contents that were not synced may not.  Thumbnail generation
in `Complete` is in `Publishing`; it runs between `Rename` and `Forget` and cannot fail
the upload.  Several bytes of a chunk are one step: a copy is full, torn or
did nothing.  `acked`, `stored`, `straddled` and `orphans` are history variables.

### UploadClient and the code

`script` is where `upload_file_chunked` is (`web/script.js:177-276`), `worker[w]` one of its
parallel loops with the chunk and the attempt of `uploadChunkWithRetry` (278-306).  A fetch takes a free
handler of `UploadManager` (`SendInit`, `SendChunk`, `SendComplete`, `SendAbort` start the request there);
`listener[h]` is who will read the answer.  `InitAnswered`, `ChunkAnswered`, `CompleteAnswered` and
`AbortAnswered` are the routes (`handler.go:321-451`): each joins the last step of the request with
the status made of its result, "ok", "refused" (400, 404: the script does not retry) or "failed" (409,
500: it does, for chunks).  `Break` is a connection that breaks at any time, also after the server has done
the work: the handler goes on with `Nobody` to answer, so a retry meets its own first attempt.
An answer to Init may also be "cut", when it breaks off after its headers: the script awaits its body
outside any try (line 206), so the promise is rejected and the script ends as "rejected" without a word to the user.  `Unreachable`
is a fetch that never arrives, `NotFound` the 404 of a session that is gone, `ServerDies` a crash.
Chunks are sent with the right offset and length, which `UploadGeometry` shows, so
`RefusedChunk` leaves two reasons for a 400: sealed, or being written by somebody else.
The waits between attempts (150 ms, 300 ms) are left out: an attempt may come at any time.

### RangedDownload, SafePath, FileAccess and the code

`AskSize` is the HEAD request of `download_file` (`web/script.js:327-361`), `Pick` the choice of a local
file that is opened (363-377); `PickFails` is a user who cancels, a browser without the permission, which downloads by itself,
or a rejected `createWritable`. Then the workers of
`downloadFileParallel` (363-424) take pieces, and `downloadChunkWithRetry` (426-461) is `Receive`,
`Again` and `Gone`.  Each request opens the file anew (`handleDownload`, `handler.go:149-185`), so
`Receive` returns what has the name at that moment; a request under way is not disturbed by a rename.
`Acceptable` is the test of status and length together with what `http.ServeContent` sends:
a piece beyond the end, or a short one, is retried.  `WriteFails` is a rejected `queueWrite`, and `Finish` may
find `close` or `abort` rejected (417, 423): the step is "broken", of which `download_file` tells the user (357-360), and
the local file is left as it is.  `seen` is a history variable, the files that
had the name since HEAD.

A name in `SafePath` is a sequence of characters, each with the number of times it is percent-encoded, so
decoding takes one off and encoding adds one; a percent sign that starts no escape is an error of
`url.PathUnescape`.  Splitting at slashes and `path.Clean` are recursive functions of a position, as the loops of the
library are.  `SafeJoin` decodes, turns backslashes into slashes and cleans (`share.go:61-89`); its
later checks never fail after `path.Clean("/"+...)`, which `StaysBelow` confirms.  `SanitizeFilename` is the last
segment (91-106).  NUL and white space around a name are refused or stripped by the code and left out.

`FileAccess` has one client's name and the names of others: `Begin` accepts a name and creates a temporary
file in the root, `Store` renames it to where `SafeJoin` points, `Listed` is `ListFiles` (42-55) and
shows temporary files too, `Click` asks for a listed name: the browser encodes it, `net/http`
decodes the request line and `SafeJoin` decodes once more (`Lookup`).  `Delete` is a user of the machine.

### UploadGeometry and the code

One session at a time with exact integers: `NormalizeChunkSize`,
`NormalizeMaxFile`, `TotalChunks`, `ExpectedChunkSize` are the functions of the
same names; `Accepts` is the checks of `WriteChunk` (218-231); `touched`
records which chunk wrote which byte.  The constants of the code (256 KiB, 4 MiB,
64 MiB, 100 GiB, 2^63-1) are CONSTANTS, so that TLC can take 2, 3, 4, 7 and 11 and the
proofs can take any that satisfy `GeometryAssumption`; the real ones do.

### AdminSettings and the code

`settings` is `Settings.data`, `file` is `config.json`; `shareRoot`, `uploadRoot`,
`uploadLimits` and `activePort` are the copies held by `share.Manager`, `UploadManager` and the
handler.  A PUT is a walk through `pc[a]`: "dir", then the three steps of a
folder change ("storage", "root", "set_dir"), the four numbers in order, the
two reads and the update of the limits, then `Settings.Save` in three steps
(copy, truncate, write).  A refused field leaves what earlier fields changed, as the code does.
The value of a field is chosen when the handler comes to it; nobody reads it
earlier, so this loses nothing.  Nothing serialises two such requests, so any number of `Editors` walk at the same time.
`accepted`, `saved`, `cutOff` and `mixed` are history variables: whether the last request was answered with
200, what was last written completely, whether the last write was cut off, and which of the settings,
the folder and the file two requests changed at the same time, which ends when one changes it alone.  `RestartClaim` and `RestartSend` are the two
halves of the closure in `New`; `RestartTaken`, `DrainDone`, `DrainExpires` and `Exec`
are the restart branch of `serveUntilSignal` and `restartSelf`.  `Written` covers two Saves
at a time: the shorter text over the longer one is not JSON.
Values out of range, which only editing the file by hand can produce, are left out,
and which ports `bindWithRetry` skips: `Bind` takes any port from the configured one up.

### Publishing and the code

An upload stands for its contents.  `Join` and `OpenTemp` are the two reads of the root in
`handleLegacyUpload` (255-283); `SetRoot` may come in between, and then the rename crosses
folders, which may be on two file systems (fault "cross").  `Stream`, `StreamFails` are
`streamToTempFile` with its limit, `Rename` to `ReplaceFails` are `replaceFile` and the removal of the
temporary file.  `Generate` is `thumb.Generate`: it opens the published name again, creates
`<name>.jpg.tmp`, which it may share with another upload of that name, encodes in two
pieces at its own offset and renames what stands under the temporary name by then.  A file of the
cache is named by the upload that created it and keeps its identity under `thumb`, `thumbTmp`, in `fd`
and in `view`; so a thumbnail may be sent while somebody still writes it.  `Picture`
is the content behind the published name.  The cache knows names only and stays when the folder changes
(`handler.go:737` passes the same `h.thumbDir`), so in the model as in the code a file of the new folder may be listed with the picture
of the old one; `ThumbFresh` names this among its exceptions.  `overlapped` and `unpictured` are history variables:
uploads that made thumbnails of one name at once, contents whose thumbnail was not made.  The
process does not crash here; what a crash leaves is the temporary file, as in `UploadManager`.
The mapping to `ShareFolder` is at the end of the module: an upload of one chunk, partial from `Join` on.

## 3. Runs

| Run | Instance | Checks |
|---|---|---|
| `sessions` | 1 upload of 1-2 chunks, 2 handlers, janitor and main, 2 folders, every fault but a failing rename, 1 crash or power failure | WritingHasOwner, ReceivedExact, SealedQuiet, OneFinalizer, SessionsOnCurrentRoot, FallbackOnlyAfterEviction, AckedUploadsWhole, FinalFileIntact, SessionInv, ImplementsShareFolder |
| `client` | 1 script with 2 workers and 2 attempts, 2 chunks, 2 handlers, every fault, 1 crash | NoOrphanPart, ToldStored, CompleteFindsAll, ClientInv |
| `reclaim` | script and server, 1 worker, 1 chunk, 2 attempts, 2 handlers, failing create and sync, fair | StaleReclaimed, CloseReturns, UploadEnds, FailedLeavesNothing |
| `geometry` | limits 2/3/4/7, requests -1..9 | WritesDisjoint, SealedFilled, ClientSlicesAccepted, NoOverflow, GeometryInv |
| `settings` | 1 editor, 2 who may restart, 2 folders, ports and chunk sizes, all faults, 2 starts, fair | RestartHasRoom, DrainEnds |
| `editors` | 2 editors, nobody who asks for a restart, 2 folders, 2 chunk sizes, failing writes and crashes, 2 starts | FoldersAgree, AnsweredInForce, MalformedExplained, SettingsInv, StartRestores |
| `publishing` | 3 uploads of one name, 2 folders, 1 viewer, every fault but a rename that fails by itself | LegacyImplementsFolder, TempsOwned, FileKept, SentWhole, ThumbFresh, CacheInv |
| `folder` | all names of 1-4 characters out of 9, one folder "xx", files of no, one and two pieces, 2 workers, 2 attempts, fair | StaysBelow, PlainNamesAgree, SavedFaithful, DownloadSettles |

The type invariants are parts of `SessionInv`, `ClientInv`, `GeometryInv`, `SettingsInv` and `CacheInv`, and `ShownWhole`
is a part of `CacheInv`.

Bounds.  Two handlers are what a property relates (two writers of a chunk, a writer and a
finalizer), and the janitor and the main goroutine evict besides; the theorems cover any number.  Two chunks
distinguish "some" from "all"; two folders the old from the new one.  The instances have one
upload: two share only their name, where `dest` may hold an older file, and the
table, which `Evict` treats as a set, and the theorems have any number.  One restart suffices, since a process knows nothing
of an earlier one but files.  `MaxStops` and `MaxBoots` bound crashes and starts.
`FallbackOnlyAfterEviction` is false when a rename fails by itself, so `sessions` leaves
that fault to `client`.  In `client`, two workers share the counter and meet in one session, and two attempts make a
retry that can meet the first one; in `reclaim` one worker and one chunk keep the liveness graph small,
and the two handlers are needed for a goroutine that goes on after its connection broke.
Symmetry is used in runs without liveness only.  The scaled limits of `geometry` give
files of 1 to 7 bytes in chunks of 2, 3 and 4: single, several, exact and
short last chunks.  In `publishing`, two uploads share a temporary thumbnail and a third can come after
the first has renamed it; a rename that fails by itself is left out, because `FileKept`
asks what happens without it.  In `settings`, one number has two values besides the port;
the others are dealt with by the same action.  In `editors` two requests cross at every step; the
faults are those that can interrupt a write, the others end a request like a refusal, and are in `settings`, as
are restarts: for the settings they are one more way to stop and start.  In `folder`, four characters are the shortest names with
"..", a slash and a segment behind it, and each kind of character occurs plain, escaped and (slashes) escaped twice;
only the name "x" is downloaded (`Wanted`), since the bytes do not depend on the name.

Fairness.  `UploadManager`: each handler keeps running except while it copies a body
(the server sets no read timeout, `server.go:96-101`), the janitor's ticker ticks, Shutdown
gives up after 10 seconds.  `UploadClient`: a fetch that is made is served or fails in the end (strong
fairness, since handlers come and go), a connection whose goroutine died is noticed, a body
arrives or its connection breaks and the goroutine finds out, the 90 minutes of a session pass.  No connection has to
hold and no attempt to succeed.  `AdminSettings`: admin requests and the main goroutine
keep running; transfers need not end.  `RangedDownload`: each step of the script is taken, a request is answered
or fails; the file may be replaced without end.  Nobody is obliged to send a request, to abort, to
stop or to crash.

### What the code does not do (runs that expect a violation)

| Run | Property | What happens |
|---|---|---|
| `lost_destination` | AtomicReplacement (DESIGN.md:63) | an abort, an expiry or a storage change between Complete's close and rename makes `replaceFile` delete the file that was to be replaced (`upload_sessions.go:461-469`); the client itself aborts when the answer to Complete is lost (`script.js:267`) |
| `false_ack` | AckedUploadsStored (DESIGN.md:63) | a second Complete is answered "Uploaded" while the first has not renamed the file and may still fail (`upload_sessions.go:283-287`) |
| `geometry_smoke` | RequestedChunksAccepted (`upload_sessions_test.go:66-74`, `integration_smoke.sh:50`) | chunk sizes below 256 KiB are raised by Init, so the chunks the test and the script send are refused |
| `restart` | RestartHappens (`handler.go:841`, MIGRATION.md:99) | a transfer that outlasts 10 seconds turns an accepted restart into an exit with status 1 (`main.go:96-103`) |

`ShareFolder` includes the first of these as the action `Vacate`, which a legacy upload takes too, and `AckedUploadsWhole`
is what remains true of the second: all the data has arrived.  The script itself sends one Complete and
never reports success too early (`ToldStored`).

Other limits that the models show, and that no document contradicts or only in passing:

- `.part` files of a crashed process stay in the shared folder (`orphans`), although DESIGN.md:68 says that
  stale temporary files are cleaned up; every other one is removed (`NoOrphanPart`, `FailedLeavesNothing`).
- Names that look like an escape are decoded once too often: an upload of "%2e" or "a%2Fb" is stored under another name than
  the one answered, or not at all, and a file with a lone percent sign cannot be downloaded. `PlainNamesAgree` is what remains.
- Temporary files are listed while an upload is under way.
- An upload ends without a word when the answer to Init breaks off after its headers (`script.js:206`); `UploadEnds` promises
  an outcome once the id is known.  The session is expired like any other (`FailedLeavesNothing`).
- Nothing serialises two settings requests (`handler.go:700-807`).  Crossed ones may leave listing, uploads and configuration on
  different folders, a request that was answered with 200 may be undone, and `config.json` may end up malformed: without the
  premise on `mixed`, `FoldersAgree`, `AnsweredInForce`, `MalformedExplained` and `StartRestores` are false with two editors.  The
  next request that is served alone and answered with 200, and changes the folder in the first case, repairs it.
- A refused settings request leaves what its earlier fields changed in memory, and the next accepted one saves it.
- A session that Init registers after `Close` has emptied the table is never removed; the process ends soon after.
- After a change of the folder the list may show a picture of the old folder's file of the same name.
- A parallel download of a file that is replaced meanwhile may mix versions of the same size or longer; `SavedFaithful`
  says when it cannot.  A rejected local write, close or abort leaves the local file as it is.
- The temporary copy of the web assets is not removed on a restart or an error: `os.Exit` and
  `syscall.Exec` skip the deferred clean-up of `main` (`main.go:52,72-79`).

## 4. Proofs

All theorems hold for every value of the constants that satisfies the named
ASSUMEs (`ConstantsAssumption`, `ClientAssumption`, `GeometryAssumption`, `SettingsAssumption`,
`PublishingAssumption`, `DownloadAssumption`, `AccessAssumption`), which only fix types, keep
model values apart and say that there are workers, attempts and chunks at all.

*UploadManagerProofs.*  `IndInv` is `TypeOK`, `ReceivedExact` and the ten parts of `Protocol`.
`FinalFileIntact` is not inductive: it needs that only stored uploads stand under final
names (`OnlyStoredFiles`), that a stored upload is whole and synced and that whoever still knows its session
finds it sealed (`StoredSettled`), hence that a sealed session has every chunk complete
(`SealedQuiet`) and a finalizer works on a sealed one (`FinalizerSealed`), hence that a
complete chunk's data is full (`CompleteChunksFull`) and that a
writer holds an unsealed chunk for itself (`WriterClaims`).  `Seal` is the step where counting
matters: `receivedCount >= totalChunks` must mean that no chunk is missing, which
is `ReceivedExact` and a lemma on cardinalities (`AllReceivedComplete`).  `UndrawnUnknown`,
`InitAlone` and `ServingSession` say who may know an id.  The step lemma has one step per action.

*UploadRecordsProofs.*  `PartAccounted` is inductive relative to `IndInv`: each temporary file
belongs to a session, a clean-up or an Init, or is an orphan of an earlier process
(`NoPartForgotten`).  `Records` adds what the remaining invariants need: a chunk in "writing" has a
writer (`WritersOwn`, with `WriterClaims` the equality of `WritingHasOwner`), an Init under way has
read the folder that is in force (`InitOnRoot`), a session on the table has its temporary file until
it is renamed (`SessionsHaveParts`), so that without a failing rename only an eviction leads to the
fallback (`FallbackAfterEviction`), what is being cleaned up is off the table for good
(`VictimsOffMap`), and what was answered "Uploaded" is sealed (`AckedSealed`).  `SessionInv` is the
conjunction of it all, with one lemma per action.

*UploadFolderProofs.*  `UploadsImplementFolder`: under the mapping at the end of `UploadManager`,
initial states are initial states of `ShareFolder`, and each action is `Open`, `Receive`, `Store`,
`Drop`, `Vacate` or a stutter.  The enabling condition of `Store`, that an upload has all it needs,
is `FinalizerSealed` and `CompleteChunksFull`; that a crash drops exactly the partial uploads is
`PartAccounted`; `FolderInv` adds that data is only where the upload has chunks (`Sized`), that what
outlived its process is known to nobody and a temporary file is not a stored one (`LeftBehind`), and
that the data of a chunk is full only once its body was copied (`NotFullYet`).

*UploadClientProofs.*  Script, connections and server together.  `ToldStored` is not inductive: a
Complete is answered "Uploaded" also by a handler that finds the session sealed, so it needs that
this script sends one (`OneComplete`), that the goroutine which will answer is at work on what was
asked (`AnswersFit`), and that nobody else uses the id (`OnlyThisScript`).  `CompleteFindsAll`
relates the script's counter to the server's: a chunk that a worker has taken is complete on the
server or still in a worker's hands, or the upload has failed (`ChunksAccounted`); that a full set of complete
chunks is a full count is a lemma on cardinalities (`AllCompleteReceived`).  The lemmas
follow what the script can tell apart and not the actions of the server: steps in which nobody is
answered (`Background`), answers and losses as a worker or the script gets them, requests that are
sent, the end of the process.  `ClientImplements` says that each step is one of `UploadManager`, so
its theorems hold of the composition (`ClientSessionInv`, `ClientImplementsFolder`), and
`UploadToldWhole` that what was told as uploaded has all its data and an fsync behind it.
`ScriptGoesOn` is the safety half of `UploadEnds`: no step takes the script back, so that only
stages, chunks and attempts that are bounded can be used up.

*FileAccessProofs.*  `SavedFaithful` for any sizes, workers and attempts: when every worker has left
the loop without a failure, each piece was taken, and a piece that was taken is held by a worker or
written; a piece holds data of a file in `seen` that is long enough.  `DownloadGoesOn` is the safety
half of `DownloadSettles`.  Names: `NatSetInduction` is induction on numbers for sets, which the
least element of a set gives (`WFMin`), since the induction rule of the library takes an operator;
with it the recursive functions of `SafePath` are shown to be defined at every position
(`SegmentsDefined`, `CleanDefined`) and `path.Clean` to leave only proper segments (`CleanOK`),
whatever the length of the name and the depth of its escapes.  A plain name is its own path
(`PlainPath`).  `AccessInv` says which names the folder holds; `PathsStayBelow` and `NamesAgree`
follow; that nothing is stored under the root's own path is part of it.  `AccessImplements`: uploading, listing and deleting are `Change` for the download or
nothing, so `ClickedFaithful` is `DownloadFaithful` again.

*UploadGeometryProofs.*  Lemmas on division (`TotalCovers`, `ChunkOrder`, `ByteHasChunk`), then
`GeometryInv`: every touched byte lies in its chunk's interval, a complete chunk's interval is
touched throughout, `received` is the number of complete chunks.

*AdminSettingsProofs.*  `RestartHasRoom` for any number of requests: `RestartInv` adds that a
claim or a waiting signal implies the flag, and that there is one of them at most.  `EditorsInv` is
for any number of settings requests at the same time.  Each of its parts has a premise on `mixed`:
`WhoEdits` that requests which are not mixed follow one another, and that nobody edits while the
process starts; `FolderProgress` which of the three copies of the folder have the new one, for the one
request between the steps; `SaveProgress` which limits and which snapshot a request has taken and that
they are still the settings; `WriterAlone` that whoever writes the file has emptied it.  `FileSaved`, that a readable
`config.json` is what was last written, needs no premise.  A request that begins alone
ends the mixture of the settings, one that changes the folder or writes alone that of folder or
file; that it repairs what the earlier ones left is the step where the invariant comes back, and what
`FoldersAgree`, `AnsweredInForce`, `MalformedExplained` and `StartRestores` rest on.  `SettingsInvHolds`
is the whole invariant.

*PublishingProofs.*  `PublishingInv` adds to `ShownWhole` and `TempsOwned` that what is about to get
its name has been received, and that a file is displaced only after a rename that had to fail
(`RenameGuards`); `FileKept` follows, since no other step takes a file from a name. `CacheInv`
follows a thumbnail whose maker is alone: the shared temporary file is the maker's from its create
to its rename (`MakersAlone`, `TempsMade`) and holds what it read of the picture (`MakersWrite`), so
what is in the cache or being sent is complete and no longer changes (`CacheWhole`), which is
`SentWhole`.  `ThumbFresh` is about the rest state and the shared folder, for thumbnails made in that folder, and needs what
led to it: a thumbnail that differs from its file means that somebody who replaced the file has still to open it, or is making
the new one (`PicturesFollow`). `LegacyImplements`: a legacy upload is an upload of `ShareFolder`
with one chunk, its body.  `Join` is `Open`, since the name is joined to the folder there; `Stream`
is `Receive`, and only a body that fits counts as received; `Rename` is `Store`, `Displace` is
`Vacate`, every failure `Drop`, and thumbnails are not seen.  So both ways of uploading keep the
same promise to those who look at the folders.

Only model-checked: liveness (`StaleReclaimed`, `CloseReturns`, `UploadEnds`, `FailedLeavesNothing`,
`DrainEnds`, `DownloadSettles`), which is out of the prover's reach.  Every invariant and every
action property of a passing run, and both refinements, are stated by a theorem.  `AccessInv`,
`DownloadInv`, `FolderInv`, `ToldWhole`, `ScriptOnward` and `DownloadOnward` are in the proof
modules and belong to no run: the runs check what follows from the first three and what the last two
are half of.

## 5. Plan

Done: all components of the running system that keep state, and a theorem for each safety property of the runs.  Next:

1. The clamping of hand-edited settings (`config.go:148-276`) as operators beside `AdminSettings`.

Not modelled, and why: rendering of pages and QR codes, local address lookup and socket options
(stateless or best effort), the copy of the embedded web assets (written once, before anybody reads it), HTTP parsing
and status codes except where a model says so, the script's fallback to the legacy upload (this server always has the chunked
routes), access control by loopback address, resizing of pictures, packaging and CI.

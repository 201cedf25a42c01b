--------------------------- MODULE AdminSettings ---------------------------
(***************************************************************************)
(* The settings and the life of the process: internal/config, the admin    *)
(* routes of internal/server/handler.go, the start in internal/server and  *)
(* the main loop of cmd/mizban, which restarts the program when asked to.  *)
(*                                                                         *)
(* A settings request goes through its fields one by one, each guarded by  *)
(* the mutex of the object it changes; what a field holds is chosen when   *)
(* the handler comes to it, since nobody looks at it before.  The file     *)
(* config.json is truncated first and written after.                       *)
(***************************************************************************)
EXTENDS Naturals

CONSTANTS
  Admins,       \* goroutines serving requests from the local host
  Editors,      \* those of them that change settings
  Restarters,   \* those of them that ask for a restart
  Dirs, Ports, Streams, Sizes, Maxima,  \* valid values of the settings
  Defaults,     \* the settings of an installation without a config.json
  Faults,       \* the operations that may fail by themselves
  MaxBoots,     \* bound on the times the program is started
  Missing, Malformed  \* config.json does not exist, or holds no JSON

\* The fields of a request in the order the handler deals with them.
Settings == [dir : Dirs, port : Ports, parallel : Streams, chunk : Sizes, max : Maxima]
Scalars  == {"port", "parallel", "chunk", "max"}
Values(field) == CASE field = "port" -> Ports
                   [] field = "parallel" -> Streams
                   [] field = "chunk" -> Sizes
                   [] field = "max" -> Maxima

ASSUME SettingsAssumption ==
  /\ Ports \subseteq Nat \ {0} /\ Defaults \in Settings
  /\ Editors \cup Restarters \subseteq Admins
  /\ Faults \subseteq {"storage", "open", "write", "listen", "exec", "crash"}
  /\ MaxBoots \in Nat \ {0}
  /\ {Missing, Malformed} \cap Settings = {} /\ Missing # Malformed

VARIABLES
  settings,      \* Settings.data
  shareRoot,     \* share.Manager.root
  uploadRoot,    \* UploadManager.root
  uploadLimits,  \* UploadManager.maxFile and .chunkSize
  activePort,    \* the port the listener is bound to
  file,          \* config.json: settings, Missing or Malformed
  pc,            \* next step of each admin request
  dir,           \* the folder it asks for
  limits,        \* what it has read for UpdateLimits
  snap,          \* what its Save is about to write
  flag,          \* restartRequested
  restartCh,     \* restartCh holds a signal
  transfer,      \* some up- or download is under way
  main, boots,   \* step of the main goroutine, starts so far
  accepted,      \* the last settings request of this process was answered with 200
  saved,         \* what was last written to config.json completely
  cutOff,        \* the last write of config.json failed or was cut off
  mixed          \* what the last ones to change it changed at the same time

views   == <<settings, shareRoot, uploadRoot, uploadLimits, activePort>>
request == <<dir, limits, snap>>
control == <<flag, restartCh>>
process == <<main, boots, transfer>>
account == <<saved, cutOff, mixed>>
settingsVars == <<views, file, pc, request, control, process, accepted, account>>

-----------------------------------------------------------------------------
SaveSteps == {"snapshot", "open", "write"}
EditSteps == {"dir", "storage", "root", "set_dir", "read_max", "read_chunk", "limits"}
               \cup Scalars \cup SaveSteps
AdminSteps == {"idle", "send"} \cup EditSteps
DrainSteps == {"restart_drain", "stop_drain"}
BootSteps == {"load", "create", "create_write", "bind", "bind_save", "bind_write"}
MainSteps == {"serving", "exec", "down"} \cup BootSteps \cup DrainSteps

NoLimits == [max |-> 0, chunk |-> 0]
LimitsOf(s) == [max |-> s.max, chunk |-> s.chunk]

Quiet == \A a \in Admins : pc[a] = "idle"
Busy  == transfer \/ ~Quiet
Up    == main \in {"serving"} \cup DrainSteps

Init ==
  /\ file \in {Missing, Defaults}
  /\ settings = Defaults /\ saved = Defaults /\ cutOff = FALSE
  /\ shareRoot = Defaults.dir /\ uploadRoot = Defaults.dir
  /\ uploadLimits = NoLimits /\ activePort = 0
  /\ pc = [a \in Admins |-> "idle"]
  /\ dir = [a \in Admins |-> Defaults.dir]
  /\ limits = [a \in Admins |-> NoLimits]
  /\ snap = [a \in Admins |-> Defaults]
  /\ flag = FALSE /\ restartCh = FALSE
  /\ transfer = FALSE /\ main = "load" /\ boots = 1
  /\ accepted = FALSE /\ mixed = {}

Goto(a, step) == pc' = [pc EXCEPT ![a] = step]

\* The answer, after which the locals of the request are gone.
Reply(a, ok) ==
  /\ Goto(a, "idle")
  /\ dir' = [dir EXCEPT ![a] = Defaults.dir]
  /\ limits' = [limits EXCEPT ![a] = NoLimits]
  /\ snap' = [snap EXCEPT ![a] = Defaults]
  /\ accepted' = ok

-----------------------------------------------------------------------------
(* PUT /api/admin/settings.                                                *)

\* Others that are at one of these steps now.
Others(a, steps) == {b \in Editors \ {a} : pc[b] \in steps}

\* a begins to change something; others may be at it already.
Mix(what, others) == mixed' = IF others = {} THEN mixed \ {what} ELSE mixed \cup {what}

UpdateBegin(a) ==
  /\ main = "serving" /\ a \in Editors /\ pc[a] = "idle"
  /\ Goto(a, "dir")
  /\ accepted' = FALSE /\ Mix("settings", Others(a, EditSteps))
  /\ UNCHANGED <<views, file, request, control, process, saved, cutOff>>

\* The folder is absent or the one that is shared already.
DirKept(a) ==
  /\ pc[a] = "dir"
  /\ Goto(a, "port")
  /\ UNCHANGED <<views, file, request, control, process, accepted, account>>

DirChanges(a, d) ==
  /\ pc[a] = "dir" /\ d # shareRoot
  /\ dir' = [dir EXCEPT ![a] = d]
  /\ Goto(a, "storage")
  /\ UNCHANGED <<views, file, limits, snap, control, process, accepted, account>>

BugAfterStorage == "set_dir"
AfterStorage == "root"

UpdateStorage(a) ==
  /\ pc[a] = "storage"
  /\ uploadRoot' = dir[a]
  /\ Goto(a, AfterStorage) /\ Mix("folder", Others(a, {"root", "set_dir"}))
  /\ UNCHANGED <<settings, shareRoot, uploadLimits, activePort,
                 file, request, control, process, accepted, saved, cutOff>>

SetRoot(a) ==
  /\ pc[a] = "root"
  /\ shareRoot' = dir[a]
  /\ Goto(a, "set_dir")
  /\ UNCHANGED <<settings, uploadRoot, uploadLimits, activePort,
                 file, request, control, process, accepted, account>>

SetSharedDir(a) ==
  /\ pc[a] = "set_dir"
  /\ settings' = [settings EXCEPT !.dir = dir[a]]
  /\ dir' = [dir EXCEPT ![a] = Defaults.dir]
  /\ Goto(a, "port")
  /\ UNCHANGED <<shareRoot, uploadRoot, uploadLimits, activePort,
                 file, limits, snap, control, process, accepted, account>>

BugAfterScalar == [port |-> "parallel", parallel |-> "chunk", chunk |-> "max", max |-> "snapshot"]
AfterScalar == [port |-> "parallel", parallel |-> "chunk", chunk |-> "max", max |-> "read_max"]

\* One of the numbers: absent, the same as before, or a new one.
SetScalar(a, v) ==
  LET field == pc[a] IN
  /\ field \in Scalars /\ v \in Values(field)
  /\ settings' = [settings EXCEPT ![field] = v]
  /\ Goto(a, AfterScalar[field])
  /\ UNCHANGED <<shareRoot, uploadRoot, uploadLimits, activePort,
                 file, request, control, process, accepted, account>>

\* An invalid folder or number, or a storage that cannot be prepared; what
\* the fields before it have changed stays.
UpdateRefused(a) ==
  /\ \/ pc[a] \in {"dir"} \cup Scalars
     \/ pc[a] = "storage" /\ "storage" \in Faults
  /\ Reply(a, FALSE)
  /\ UNCHANGED <<views, file, control, process, account>>

ReadMax(a) ==
  /\ pc[a] = "read_max"
  /\ limits' = [limits EXCEPT ![a].max = settings.max]
  /\ Goto(a, "read_chunk")
  /\ UNCHANGED <<views, file, dir, snap, control, process, accepted, account>>

ReadChunk(a) ==
  /\ pc[a] = "read_chunk"
  /\ limits' = [limits EXCEPT ![a].chunk = settings.chunk]
  /\ Goto(a, "limits")
  /\ UNCHANGED <<views, file, dir, snap, control, process, accepted, account>>

UpdateLimits(a) ==
  /\ pc[a] = "limits"
  /\ uploadLimits' = limits[a]
  /\ limits' = [limits EXCEPT ![a] = NoLimits]
  /\ Goto(a, "snapshot")
  /\ UNCHANGED <<settings, shareRoot, uploadRoot, activePort,
                 file, dir, snap, control, process, accepted, account>>

\* Settings.Save: copy the map under the lock, truncate the file, write it.
SaveSnapshot(a) ==
  /\ pc[a] = "snapshot"
  /\ snap' = [snap EXCEPT ![a] = settings]
  /\ Goto(a, "open")
  /\ UNCHANGED <<views, file, dir, limits, control, process, accepted, account>>

SaveOpen(a) ==
  /\ pc[a] = "open"
  /\ file' = Malformed
  /\ Goto(a, "write") /\ Mix("file", Others(a, {"write"}))
  /\ UNCHANGED <<views, request, control, process, accepted, saved, cutOff>>

SaveOpenFails(a) ==
  /\ pc[a] = "open" /\ "open" \in Faults
  /\ Reply(a, FALSE)
  /\ UNCHANGED <<views, file, control, process, account>>

\* Over what another Save has written meanwhile, a shorter text leaves the
\* end of the longer one in place, which is not JSON any more.
BugWritten(s) == {s, Malformed}
Written(s) == IF file \in {Malformed, s} THEN {s} ELSE {s, Malformed}

SaveWrite(a) ==
  /\ pc[a] = "write"
  /\ file' \in Written(snap[a])
  /\ saved' = snap[a] /\ cutOff' = FALSE
  /\ Reply(a, TRUE)
  /\ UNCHANGED <<views, control, process, mixed>>

SaveWriteFails(a) ==
  /\ pc[a] = "write" /\ "write" \in Faults
  /\ file' \in {file, Malformed}
  /\ cutOff' = TRUE
  /\ Reply(a, FALSE)
  /\ UNCHANGED <<views, control, process, saved, mixed>>

-----------------------------------------------------------------------------
(* POST /api/admin/restart: a compare-and-swap, then a send that does not  *)
(* wait.                                                                   *)

BugMayClaim == TRUE
MayClaim == ~flag

RestartClaim(a) ==
  /\ main = "serving" /\ a \in Restarters /\ pc[a] = "idle" /\ MayClaim
  /\ flag' = TRUE
  /\ Goto(a, "send")
  /\ UNCHANGED <<views, file, request, restartCh, process, accepted, account>>

RestartSend(a) ==
  /\ pc[a] = "send"
  /\ IF restartCh THEN flag' = FALSE /\ UNCHANGED restartCh
                  ELSE restartCh' = TRUE /\ UNCHANGED flag
  /\ Goto(a, "idle")
  /\ UNCHANGED <<views, file, request, process, accepted, account>>

\* Up- and downloads come and go; one may outlast every timeout.
TransferBegins ==
  /\ main = "serving" /\ ~transfer /\ transfer' = TRUE
  /\ UNCHANGED <<views, file, pc, request, control, main, boots, accepted, account>>

TransferEnds ==
  /\ Up /\ transfer /\ transfer' = FALSE
  /\ UNCHANGED <<views, file, pc, request, control, main, boots, accepted, account>>
-----------------------------------------------------------------------------
(* The main goroutine: load the settings, bind a port, serve, shut down.   *)

Step(step) == main' = step

\* What only the start changes is left alone.
RequestsUnchanged == UNCHANGED <<pc, request, control, transfer, accepted>>

BugLoaded == Defaults
BugLoadedUnchecked == IF file = Missing THEN Defaults ELSE file
Loaded == IF file \in {Missing, Malformed} THEN Defaults ELSE file

\* Settings.load; a missing file is created at once.
Load ==
  /\ main = "load"
  /\ settings' = Loaded
  /\ Step(IF file = Missing THEN "create" ELSE "bind")
  /\ UNCHANGED <<shareRoot, uploadRoot, uploadLimits, activePort, file, boots, account>>
  /\ RequestsUnchanged

BootOpen(from, to) ==
  /\ main = from
  /\ file' = Malformed /\ mixed' = mixed \ {"file"}
  /\ Step(to)
  /\ UNCHANGED <<views, boots, saved, cutOff>>
  /\ RequestsUnchanged

BootWrite(from, to) ==
  /\ main = from
  /\ file' = settings /\ saved' = settings /\ cutOff' = FALSE
  /\ Step(to)
  /\ UNCHANGED <<views, boots, mixed>>
  /\ RequestsUnchanged

Create      == BootOpen("create", "create_write")
CreateWrite == BootWrite("create_write", "bind")

\* bindWithRetry tries the configured port and then the ones above it; the
\* managers get the settings before.
Bind(p) ==
  /\ main = "bind" /\ p \in Ports /\ p >= settings.port
  /\ shareRoot' = settings.dir /\ uploadRoot' = settings.dir
  /\ uploadLimits' = LimitsOf(settings)
  /\ activePort' = p
  /\ settings' = [settings EXCEPT !.port = p]
  /\ mixed' = mixed \ {"folder"}
  /\ Step(IF p = settings.port THEN "serving" ELSE "bind_save")
  /\ UNCHANGED <<file, boots, saved, cutOff>>
  /\ RequestsUnchanged

BindSave  == BootOpen("bind_save", "bind_write")
BindWrite == BootWrite("bind_write", "serving")

\* The error of this Save is ignored, and the one of Load ends the start.
BootSaveFails ==
  /\ \/ main \in {"create", "bind_save"} /\ "open" \in Faults
     \/ main \in {"create_write", "bind_write"} /\ "write" \in Faults
  /\ cutOff' = (cutOff \/ main \in {"create_write", "bind_write"})
  /\ Step(IF main \in {"create", "create_write"} THEN "down" ELSE "serving")
  /\ UNCHANGED <<views, file, boots, saved, mixed>>
  /\ RequestsUnchanged

\* serveUntilSignal: the restart channel or a signal of the user.
RestartTaken ==
  /\ main = "serving" /\ restartCh
  /\ restartCh' = FALSE
  /\ Step("restart_drain")
  /\ UNCHANGED <<views, file, pc, request, flag, boots, transfer, accepted, account>>

StopTaken ==
  /\ main = "serving"
  /\ Step("stop_drain")
  /\ UNCHANGED <<views, file, boots, account>>
  /\ RequestsUnchanged

\* The process is replaced or gone, and with it every goroutine.
ProcessEnds(step) ==
  /\ Step(step)
  /\ pc' = [a \in Admins |-> "idle"]
  /\ dir' = [a \in Admins |-> Defaults.dir]
  /\ limits' = [a \in Admins |-> NoLimits]
  /\ snap' = [a \in Admins |-> Defaults]
  /\ flag' = FALSE /\ restartCh' = FALSE /\ transfer' = FALSE
  /\ accepted' = FALSE
  /\ cutOff' = (cutOff \/ main \in {"create_write", "bind_write"}
                       \/ \E a \in Admins : pc[a] = "write")
  /\ UNCHANGED <<views, file, saved, mixed>>

\* http.Server.Shutdown returns when no request is left.
DrainDone ==
  /\ main \in DrainSteps /\ ~Busy
  /\ IF main = "restart_drain" THEN Step("exec") ELSE Step("down")
  /\ UNCHANGED <<views, file, boots, account>>
  /\ RequestsUnchanged

BugPatience == FALSE
Patience == TRUE

\* The 10 seconds are over: an error, also when a restart was asked for.
DrainExpires ==
  /\ main \in DrainSteps /\ Busy /\ Patience
  /\ ProcessEnds("down") /\ UNCHANGED boots

Exec ==
  /\ main = "exec" /\ boots < MaxBoots
  /\ boots' = boots + 1
  /\ ProcessEnds("load")

\* No port is free, the listener breaks, the executable is gone.
StepFails ==
  /\ \/ main \in {"bind", "serving"} /\ "listen" \in Faults
     \/ main = "exec" /\ "exec" \in Faults
  /\ ProcessEnds("down") /\ UNCHANGED boots

Crash ==
  /\ main # "down" /\ "crash" \in Faults
  /\ ProcessEnds("down") /\ UNCHANGED boots

Start ==
  /\ main = "down" /\ boots < MaxBoots
  /\ boots' = boots + 1
  /\ ProcessEnds("load")

Off == main \in {"down", "exec"} /\ boots = MaxBoots /\ UNCHANGED settingsVars

-----------------------------------------------------------------------------
Update(a) ==
  \/ DirKept(a) \/ UpdateStorage(a) \/ SetRoot(a) \/ SetSharedDir(a)
  \/ \E d \in Dirs : DirChanges(a, d)
  \/ \E v \in Ports \cup Streams \cup Sizes \cup Maxima : SetScalar(a, v)
  \/ UpdateRefused(a)
  \/ ReadMax(a) \/ ReadChunk(a) \/ UpdateLimits(a)
  \/ SaveSnapshot(a) \/ SaveOpen(a) \/ SaveOpenFails(a)
  \/ SaveWrite(a) \/ SaveWriteFails(a)

Boot == Load \/ Create \/ CreateWrite \/ (\E p \in Ports : Bind(p)) \/ BindSave \/ BindWrite
          \/ BootSaveFails

Leave == RestartTaken \/ DrainDone \/ DrainExpires \/ Exec

Next ==
  \/ \E a \in Admins : UpdateBegin(a) \/ Update(a) \/ RestartClaim(a) \/ RestartSend(a)
  \/ TransferBegins \/ TransferEnds
  \/ Boot \/ Leave
  \/ StopTaken \/ StepFails \/ Crash \/ Start \/ Off

Spec == Init /\ [][Next]_settingsVars

\* Goroutines are scheduled and system calls return.  Nobody has to change a
\* setting, to restart or stop the program, and a transfer need not end.
Fairness ==
  /\ \A a \in Admins : WF_settingsVars(Update(a) \/ RestartSend(a))
  /\ WF_settingsVars(Boot) /\ WF_settingsVars(Leave)

FairSpec == Spec /\ Fairness

-----------------------------------------------------------------------------
TypeOK ==
  /\ settings \in Settings /\ saved \in Settings
  /\ shareRoot \in Dirs /\ uploadRoot \in Dirs
  /\ uploadLimits \in [max : Maxima \cup {0}, chunk : Sizes \cup {0}]
  /\ activePort \in Ports \cup {0}
  /\ file \in Settings \cup {Missing, Malformed}
  /\ pc \in [Admins -> AdminSteps] /\ dir \in [Admins -> Dirs]
  /\ limits \in [Admins -> [max : Maxima \cup {0}, chunk : Sizes \cup {0}]]
  /\ snap \in [Admins -> Settings]
  /\ flag \in BOOLEAN /\ restartCh \in BOOLEAN /\ transfer \in BOOLEAN
  /\ main \in MainSteps /\ boots \in 1 .. MaxBoots
  /\ accepted \in BOOLEAN /\ cutOff \in BOOLEAN
  /\ mixed \subseteq {"settings", "folder", "file"}

\* Uploads, listing and configuration are on the same folder whenever no
\* settings request is under way, after requests that were refused or failed
\* half way and after every start; unless the last ones to change the folder
\* did so at the same time, which lasts until somebody changes it alone.
FoldersAgree ==
  Up /\ (\A a \in Editors : pc[a] \notin EditSteps) /\ "folder" \notin mixed =>
    shareRoot = settings.dir /\ uploadRoot = settings.dir

\* A settings request that was answered with 200 is in effect and on disk,
\* with whatever earlier ones had left in memory or in the file, refused or
\* mixed up with each other; unless another was served at the same time.
AnsweredInForce ==
  accepted /\ "settings" \notin mixed =>
    file = settings /\ saved = settings /\ uploadLimits = LimitsOf(settings)

\* config.json is only ever malformed while it is being written, or when the
\* last write failed, was cut off by the end of the process, or was one of two
\* that wrote at the same time.
MalformedExplained ==
  file = Malformed => \/ cutOff \/ "file" \in mixed
                        \/ main \in {"create_write", "bind_write"}
                        \/ \E a \in Admins : pc[a] = "write"

\* The channel always has room for the one restart that may claim it, so the
\* send in New never takes its default branch.
RestartHasRoom ==
  \A a \in Admins : pc[a] = "send" =>
    ~restartCh /\ \A b \in Admins : pc[b] = "send" => a = b

\* A start gets back what was last saved; unless the last write was cut off or
\* mixed with another one, when it may get the defaults, but nothing else.
StartRestores ==
  [][main = "load" /\ main' # "load" /\ file # Missing /\ main' # "down" =>
       \/ settings' = saved
       \/ (cutOff \/ "file" \in mixed) /\ settings' = Defaults]_settingsVars

\* Shutting down comes to an end, whatever the transfers do.
DrainEnds == main \in DrainSteps ~> main \notin DrainSteps

-----------------------------------------------------------------------------
(* The strengthening that makes the invariants above inductive.            *)

\* The flag stays set from the claim on, so there is one claim at most.
RestartInv ==
  /\ restartCh => flag
  /\ \A a \in Admins : pc[a] = "send" => flag
  /\ RestartHasRoom

\* Requests are served by a process that is up, settings requests by editors,
\* and by one at a time unless they are mixed.
WhoEdits ==
  /\ ~Up => Quiet
  /\ main \in BootSteps => ~accepted
  /\ \A a \in Admins : pc[a] \in EditSteps => a \in Editors
  /\ "settings" \notin mixed => \A a \in Editors : pc[a] \in EditSteps =>
       ~accepted /\ \A b \in Editors : pc[b] \in EditSteps => a = b

\* How far a change of the folder has come, since the managers were made.
FolderProgress ==
  "folder" \notin mixed /\ (Up \/ main \in {"bind_save", "bind_write"}) =>
    /\ (\A a \in Editors : pc[a] \notin {"root", "set_dir"}) =>
         shareRoot = settings.dir /\ uploadRoot = settings.dir
    /\ \A a \in Editors :
         /\ pc[a] \in {"root", "set_dir"} =>
              uploadRoot = dir[a] /\ Others(a, {"root", "set_dir"}) = {}
         /\ pc[a] = "set_dir" => shareRoot = dir[a]

\* What a settings request has copied is still what it copied.
SaveProgress ==
  "settings" \notin mixed => \A a \in Editors :
    /\ pc[a] \in {"read_chunk", "limits"} => limits[a].max = settings.max
    /\ pc[a] = "limits" => limits[a].chunk = settings.chunk
    /\ pc[a] \in SaveSteps => uploadLimits = LimitsOf(settings)
    /\ pc[a] \in {"open", "write"} => snap[a] = settings

\* Who writes config.json has emptied it, and nobody else is writing.
WriterAlone ==
  \A a \in Editors : pc[a] = "write" =>
    /\ "file" \notin mixed => file = Malformed /\ Others(a, {"write"}) = {}
    /\ "settings" \notin mixed => file = Malformed

FileSaved == file \in Settings => file = saved

EditorsInv ==
  /\ TypeOK /\ WhoEdits /\ FolderProgress /\ SaveProgress /\ WriterAlone
  /\ FileSaved /\ AnsweredInForce /\ MalformedExplained

SettingsInv == RestartInv /\ EditorsInv

-----------------------------------------------------------------------------
\* handler.go:841 "Restart scheduled." and MIGRATION.md:99 "restarting to
\* apply port changes": a restart that was accepted and taken up gets as far
\* as executing the program again.
RestartHappens == main = "restart_drain" ~> main = "exec"
=============================================================================

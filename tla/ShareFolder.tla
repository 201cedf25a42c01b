---------------------------- MODULE ShareFolder ----------------------------
(***************************************************************************)
(* What uploading, in chunks or in one request, promises to somebody who   *)
(* looks at the shared folders and not at the server: an upload gathers    *)
(* its chunks out of sight, and its file appears under its final name in   *)
(* one step and only when nothing is missing.  An upload that was stored   *)
(* or dropped stays so.  The one flaw the code has is part of the promise: *)
(* an upload that fails at the very end may take the file it was to        *)
(* replace with it.                                                        *)
(***************************************************************************)
EXTENDS FiniteSets

CONSTANTS Uploads, Places, Chunks, Nothing, Older, Nowhere

VARIABLES
  phase,    \* of each upload: new, partial, stored or gone
  target,   \* the place each upload is meant for
  needs,    \* the chunks each upload consists of
  got,      \* those of them that have arrived
  folder    \* what stands at each place

folderVars == <<phase, target, needs, got, folder>>

FolderInit ==
  /\ phase = [u \in Uploads |-> "new"]
  /\ target = [u \in Uploads |-> Nowhere]
  /\ needs = [u \in Uploads |-> {}]
  /\ got = [u \in Uploads |-> {}]
  /\ folder \in [Places -> {Nothing, Older}]

Open(u, place, cs) ==
  /\ phase[u] = "new" /\ cs # {}
  /\ phase' = [phase EXCEPT ![u] = "partial"]
  /\ target' = [target EXCEPT ![u] = place]
  /\ needs' = [needs EXCEPT ![u] = cs]
  /\ UNCHANGED <<got, folder>>

Receive(u, c) ==
  /\ phase[u] = "partial" /\ c \in needs[u] \ got[u]
  /\ got' = [got EXCEPT ![u] = @ \cup {c}]
  /\ UNCHANGED <<phase, target, needs, folder>>

Store(u) ==
  /\ phase[u] = "partial" /\ got[u] = needs[u]
  /\ phase' = [phase EXCEPT ![u] = "stored"]
  /\ folder' = [folder EXCEPT ![target[u]] = u]
  /\ UNCHANGED <<target, needs, got>>

\* A failure, an abort, an expiry, a storage change or the end of the process.
Drop(us) ==
  /\ us # {} /\ \A u \in us : phase[u] = "partial"
  /\ phase' = [u \in Uploads |-> IF u \in us THEN "gone" ELSE phase[u]]
  /\ got' = [u \in Uploads |-> IF u \in us THEN {} ELSE got[u]]
  /\ UNCHANGED <<target, needs, folder>>

Vacate(u) ==
  /\ phase[u] \in {"partial", "gone"}
  /\ folder' = [folder EXCEPT ![target[u]] = Nothing]
  /\ UNCHANGED <<phase, target, needs, got>>

FolderNext ==
  \/ \E us \in SUBSET Uploads : Drop(us)
  \/ \E u \in Uploads :
       \/ Store(u) \/ Vacate(u)
       \/ \E c \in Chunks : Receive(u, c)
       \/ \E place \in Places, cs \in SUBSET Chunks : Open(u, place, cs)

FolderSpec == FolderInit /\ [][FolderNext]_folderVars
=============================================================================

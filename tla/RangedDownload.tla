--------------------------- MODULE RangedDownload ---------------------------
(***************************************************************************)
(* download_file and downloadFileParallel of web/script.js against         *)
(* handleDownload of internal/server/handler.go.                           *)
(*                                                                         *)
(* The script asks for the size once and then for one range after the      *)
(* other, on several connections and with retries.  Each request opens the *)
(* file anew, so each gets what has the name at that moment; a rename does *)
(* not disturb an answer under way.  A piece is the bytes of one range.    *)
(***************************************************************************)
EXTENDS Naturals

CONSTANTS
  Versions,     \* contents that may stand under the name
  Size,         \* their sizes in bytes
  PieceSize,    \* transferConfig.chunkSizeBytes
  MaxPieces,    \* bound on the pieces of a file
  Workers,      \* the script's parallel loops
  MaxAttempts,  \* MAX_CHUNK_RETRIES
  Nothing       \* no file, no data

ASSUME DownloadAssumption ==
  /\ Nothing \notin Versions /\ Workers # {}
  /\ PieceSize \in Nat \ {0} /\ MaxPieces \in Nat \ {0} /\ MaxAttempts \in Nat \ {0}
  /\ Size \in [Versions -> 0 .. PieceSize * MaxPieces]

VARIABLES
  current,      \* what stands under the name now
  step,         \* of the download
  total,        \* Content-Length of the HEAD answer
  nextPiece, failed,
  worker,       \* per worker: position in its loop, piece, attempt and data
  out,          \* what was written to the local file, by piece
  seen          \* what stood under the name since HEAD

script == <<step, total, nextPiece, failed, worker, out>>
downloadVars == <<current, script, seen>>

Pieces == 0 .. MaxPieces - 1
Empty == {v \in Versions : Size[v] = 0}

Init ==
  /\ current \in Versions \cup {Nothing}
  /\ step = "idle" /\ total = 0 /\ nextPiece = 0 /\ failed = FALSE
  /\ worker = [w \in Workers |-> [at |-> "next", piece |-> 0, attempt |-> 1, data |-> Nothing]]
  /\ out = [c \in Pieces |-> Nothing]
  /\ seen = {}

\* Somebody replaces or removes the file.
Change(v) ==
  /\ current' = v
  /\ seen' = seen \cup {v}
  /\ UNCHANGED script

-----------------------------------------------------------------------------
\* HEAD; without a size the browser downloads by itself.
AskSize ==
  /\ step = "idle"
  /\ step' = IF current = Nothing THEN "failed"
             ELSE IF current \in Empty THEN "native" ELSE "picking"
  /\ total' = IF current = Nothing THEN 0 ELSE Size[current]
  /\ seen' = {current}
  /\ UNCHANGED <<current, nextPiece, failed, worker, out>>

AskSizeFails ==
  /\ step = "idle" /\ step' = "failed"
  /\ UNCHANGED <<current, total, nextPiece, failed, worker, out, seen>>

\* The user picks a local file, which is opened.
Pick ==
  /\ step = "picking" /\ step' = "loading"
  /\ UNCHANGED <<current, total, nextPiece, failed, worker, out, seen>>

\* The user cancels, the browser has no permission and downloads by itself, or
\* the local file cannot be opened, of which the user is told.
PickFails ==
  /\ step = "picking" /\ step' \in {"cancelled", "native", "broken"}
  /\ UNCHANGED <<current, total, nextPiece, failed, worker, out, seen>>

First(c) == c * PieceSize
AfterLast(c) == IF First(c) + PieceSize < total THEN First(c) + PieceSize ELSE total

LeavesLoop == failed \/ First(nextPiece) >= total

\* The other workers do not learn that a write has failed.
Take(w) ==
  /\ step \in {"loading", "broken"} /\ worker[w].at = "next"
  /\ IF LeavesLoop
     THEN /\ worker' = [worker EXCEPT ![w].at = "done"]
          /\ UNCHANGED nextPiece
     ELSE /\ worker' = [worker EXCEPT ![w] =
               [at |-> "get", piece |-> nextPiece, attempt |-> 1, data |-> Nothing]]
          /\ nextPiece' = nextPiece + 1
  /\ UNCHANGED <<current, step, total, failed, out, seen>>

\* http.ServeContent: 206 with the bytes there are, 416 beyond the end; of an
\* empty file all of it with 200, which the script takes for the first piece.
BugAcceptable(c) == First(c) < Size[current]
Acceptable(c) ==
  \/ AfterLast(c) <= Size[current]
  \/ current \in Empty /\ First(c) = 0

Receive(w) ==
  /\ worker[w].at = "get" /\ current # Nothing /\ Acceptable(worker[w].piece)
  /\ worker' = [worker EXCEPT ![w] = [@ EXCEPT !.at = "write",
                    !.data = IF current \in Empty THEN Nothing ELSE current]]
  /\ UNCHANGED <<current, step, total, nextPiece, failed, out, seen>>

GiveUp(w) ==
  /\ worker' = [worker EXCEPT ![w].at = "done"]
  /\ failed' = TRUE

BugNextAttempt(w) == worker[w].attempt
NextAttempt(w) == worker[w].attempt + 1

\* A broken connection, a short answer, 416 or 500.
Again(w) ==
  /\ worker[w].at = "get"
  /\ IF worker[w].attempt = MaxAttempts THEN GiveUp(w)
     ELSE /\ worker' = [worker EXCEPT ![w].attempt = NextAttempt(w)]
          /\ UNCHANGED failed
  /\ UNCHANGED <<current, step, total, nextPiece, out, seen>>

Gone(w) ==
  /\ worker[w].at = "get" /\ current = Nothing
  /\ GiveUp(w)
  /\ UNCHANGED <<current, step, total, nextPiece, out, seen>>

\* queueWrite at the position of the piece; the worker waits for it.
Write(w) ==
  /\ step = "loading" /\ worker[w].at = "write"
  /\ out' = [out EXCEPT ![worker[w].piece] =
               IF worker[w].data = Nothing THEN @ ELSE worker[w].data]
  /\ worker' = [worker EXCEPT ![w].at = "next"]
  /\ UNCHANGED <<current, step, total, nextPiece, failed, seen>>

\* A rejected write rejects the whole queue and what waits for it: the user is
\* told, and the local file is neither closed nor aborted.
WriteFails(w) ==
  /\ worker[w].at = "write"
  /\ step' = "broken"
  /\ worker' = [worker EXCEPT ![w].at = "done"]
  /\ UNCHANGED <<current, total, nextPiece, failed, out, seen>>

Outcome == IF failed THEN "failed" ELSE "saved"

\* await Promise.all(workers), then close or abort the local file; should that
\* be rejected, the user is told, but the file is left as it is.
Finish ==
  /\ step = "loading" /\ \A w \in Workers : worker[w].at = "done"
  /\ step' \in {Outcome, "broken"}
  /\ UNCHANGED <<current, total, nextPiece, failed, worker, out, seen>>

-----------------------------------------------------------------------------
Fetch(w) == Receive(w) \/ Again(w) \/ Gone(w)
Load(w)  == Take(w) \/ Fetch(w) \/ Write(w) \/ WriteFails(w)
Download == AskSize \/ AskSizeFails \/ Pick \/ PickFails \/ Finish \/ \E w \in Workers : Load(w)

Next == Download \/ \E v \in Versions \cup {Nothing} : Change(v)

Spec == Init /\ [][Next]_downloadVars

\* The user clicks, requests are answered or fail; nobody has to touch the file
\* or to pick a local one.
DownloadFairness ==
  WF_downloadVars(AskSize) /\ WF_downloadVars(Finish)
    /\ \A w \in Workers : WF_downloadVars(Load(w))

FairSpec == Spec /\ DownloadFairness

-----------------------------------------------------------------------------
PiecesOf(size) == {c \in Pieces : First(c) < size}

\* A file that is reported as downloaded has all of its pieces, each whole,
\* at its place and from something that had the name during the download;
\* it is a copy of the file when nobody touched that meanwhile.  A file that
\* was empty for a moment may leave the first piece out.
SavedFaithful ==
  step = "saved" => \A c \in PiecesOf(total) :
    /\ out[c] \in seen \ {Nothing} \/ (c = 0 /\ out[c] = Nothing /\ seen \cap Empty # {})
    /\ out[c] # Nothing => AfterLast(c) <= Size[out[c]]
    /\ \A v \in Versions : seen = {v} => out[c] = v /\ total = Size[v]

\* A download ends, however often its ranges fail, and whichever call on the
\* local file is rejected.
DownloadSettles == (step = "loading") ~> (step \in {"saved", "failed", "broken"})
=============================================================================

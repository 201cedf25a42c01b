-------------------------- MODULE FileAccessProofs --------------------------
(***************************************************************************)
(* What downloads and the names of the shared folder guarantee, for every  *)
(* number of pieces, workers and attempts, for names of every length and   *)
(* every depth of escaping, whatever is put under a name meanwhile:        *)
(* a saved file is whole (SavedFaithful), a path stays below the root      *)
(* (StaysBelow), plain names agree (PlainNamesAgree), and every step of    *)
(* the composition is one of RangedDownload.                               *)
(***************************************************************************)
EXTENDS FileAccess, WellFoundedInduction, TLAPS

USE DEF script, downloadVars

-----------------------------------------------------------------------------
(* The download by itself: the strengthening.                              *)

Work == [at : {"next", "get", "write", "done"}, piece : Nat, attempt : 1 .. MaxAttempts,
         data : Versions \cup {Nothing}]

TypeOK ==
  /\ current \in Versions \cup {Nothing}
  /\ step \in {"idle", "picking", "cancelled", "native", "loading", "broken", "failed", "saved"}
  /\ total \in 0 .. PieceSize * MaxPieces
  /\ nextPiece \in Nat /\ failed \in BOOLEAN
  /\ worker \in [Workers -> Work]
  /\ out \in [Pieces -> Versions \cup {Nothing}]
  /\ seen \subseteq Versions \cup {Nothing}

\* v was there during the download and long enough for piece c, or nothing
\* was, and the file was empty for a moment.
Good(c, v) ==
  \/ v \in seen \ {Nothing} /\ AfterLast(c) <= Size[v]
  \/ v = Nothing /\ c = 0 /\ seen \cap Empty # {}

\* What stands under the name has been seen, and the size is that of
\* something that has.
SizeSeen ==
  step \notin {"idle", "failed"} =>
    current \in seen /\ \A v \in Versions : seen = {v} => total = Size[v]

\* Workers work while the download is under way, on pieces that exist, and
\* hold good data; they stop when there is nothing left to take.
WorkersOK ==
  \A w \in Workers :
    /\ worker[w].at \in {"get", "write"} => step \in {"loading", "broken"}
         /\ worker[w].piece \in Pieces /\ First(worker[w].piece) < total
    /\ worker[w].at = "write" => Good(worker[w].piece, worker[w].data)
    /\ worker[w].at = "done" => failed \/ step = "broken" \/ First(nextPiece) >= total
    /\ step = "idle" => worker[w].at = "next"
    /\ step = "saved" => ~failed /\ worker[w].at = "done"

\* Every piece is still to be taken, or in the hands of a worker, or written.
PiecesKept ==
  \A c \in Pieces :
    /\ out[c] = Nothing \/ Good(c, out[c])
    /\ \/ c >= nextPiece \/ failed \/ step = "broken" \/ Good(c, out[c])
       \/ \E w \in Workers : worker[w].at \in {"get", "write"} /\ worker[w].piece = c
    /\ step = "idle" => out[c] = Nothing /\ nextPiece = 0

DownloadInv == TypeOK /\ SizeSeen /\ WorkersOK /\ PiecesKept

-----------------------------------------------------------------------------
(* Positions.                                                              *)

\* Pieces lie in order, and the bound on them is the bound on sizes.
LEMMA Positions ==
  /\ \A c \in Nat : First(c) \in Nat
  /\ \A c, d \in Nat : c <= d => First(c) <= First(d)
  /\ \A c \in Nat : First(c) = 0 => c = 0
  /\ \A c \in Nat : First(c) < PieceSize * MaxPieces => c \in Pieces
  /\ Pieces \subseteq Nat
<1>1. PieceSize \in Nat \ {0} /\ MaxPieces \in Nat \ {0}
  BY DownloadAssumption
<1>2. ASSUME NEW c \in Nat, NEW d \in Nat, c <= d
      PROVE  c * PieceSize <= d * PieceSize
  <2>1. PICK k \in Nat : d = c + k
    <3>1. d - c \in Nat /\ d = c + (d - c)
      BY <1>2
    <3> QED
      BY <3>1
  <2>2. k * PieceSize \in Nat /\ c * PieceSize \in Nat
    BY <1>1, SMTT(30)
  <2>3. (c + k) * PieceSize = c * PieceSize + k * PieceSize
    BY <1>1, SMTT(30)
  <2> QED
    BY <2>1, <2>2, <2>3
<1>3. ASSUME NEW c \in Nat, c * PieceSize < PieceSize * MaxPieces
      PROVE  c < MaxPieces
  <2>1. MaxPieces * PieceSize = PieceSize * MaxPieces /\ MaxPieces * PieceSize \in Nat
        /\ c * PieceSize \in Nat
    BY <1>1, SMTT(30)
  <2>2. MaxPieces <= c => MaxPieces * PieceSize <= c * PieceSize
    BY <1>1, <1>2
  <2> QED
    BY <1>1, <1>3, <2>1, <2>2
<1>4. \A c \in Nat : c * PieceSize \in Nat
  BY <1>1, SMTT(30)
<1>5. ASSUME NEW c \in Nat, c * PieceSize = 0 PROVE c = 0
  <2>1. 1 * PieceSize = PieceSize
    BY <1>1
  <2>2. 1 <= c => 1 * PieceSize <= c * PieceSize
    BY <1>2
  <2> QED
    BY <1>1, <1>5, <2>1, <2>2
<1> QED
  BY <1>1, <1>2, <1>3, <1>4, <1>5 DEF First, Pieces

\* Sizes are numbers, and the script's arithmetic stays within them.
LEMMA Sizes ==
  ASSUME TypeOK
  PROVE  /\ total \in Nat
         /\ \A v \in Versions : Size[v] \in Nat /\ Size[v] <= PieceSize * MaxPieces
         /\ \A c \in Nat : AfterLast(c) \in Nat
         /\ PieceSize * MaxPieces \in Nat
<1>1. PieceSize \in Nat /\ PieceSize * MaxPieces \in Nat
  BY DownloadAssumption, SMTT(30)
<1>2. total \in Nat /\ \A v \in Versions : Size[v] \in Nat /\ Size[v] <= PieceSize * MaxPieces
  BY <1>1, DownloadAssumption DEF TypeOK
<1> QED
  BY <1>1, <1>2, Positions DEF AfterLast

\* More has been seen: what was good is still good.
LEMMA GoodKept ==
  ASSUME NEW c, NEW v, Good(c, v), seen \subseteq seen', total' = total
  PROVE  Good(c, v)'
  BY DEF Good, AfterLast

-----------------------------------------------------------------------------
LEMMA Attempts == MaxAttempts \in Nat /\ 1 \in 1 .. MaxAttempts
  BY DownloadAssumption

\* Before the click.
LEMMA InitInv == Init => DownloadInv
<1> SUFFICES ASSUME Init PROVE DownloadInv
  OBVIOUS
<1>1. PieceSize * MaxPieces \in Nat
  BY DownloadAssumption, SMTT(30)
<1>2. TypeOK
  <2>1. [at |-> "next", piece |-> 0, attempt |-> 1, data |-> Nothing] \in Work
    BY Attempts DEF Work
  <2>2. worker \in [Workers -> Work] /\ out \in [Pieces -> Versions \cup {Nothing}]
    BY <2>1 DEF Init
  <2>3. total \in 0 .. PieceSize * MaxPieces
    BY <1>1 DEF Init
  <2> QED
    BY <2>2, <2>3 DEF Init, TypeOK
<1>3. SizeSeen /\ WorkersOK
  BY DEF Init, SizeSeen, WorkersOK
<1>4. PiecesKept
  BY Positions DEF Init, PiecesKept
<1> QED
  BY <1>2, <1>3, <1>4 DEF DownloadInv

\* Every step of the script, and everything that happens to the file.
LEMMA NextInv == DownloadInv /\ [Next]_downloadVars => DownloadInv'
<1> SUFFICES ASSUME DownloadInv, [Next]_downloadVars PROVE DownloadInv'
  OBVIOUS
<1> USE DEF DownloadInv
<1>1. ASSUME NEW v \in Versions \cup {Nothing}, Change(v) PROVE DownloadInv'
  <2> USE <1>1 DEF Change
  <2>1. TypeOK'
    BY DEF TypeOK, Work
  <2>2. SizeSeen'
    BY DEF SizeSeen
  <2>3. \A c, u : Good(c, u) => Good(c, u)'
    BY GoodKept
  <2>4. WorkersOK'
    BY <2>3 DEF WorkersOK
  <2>5. PiecesKept'
    BY <2>3 DEF PiecesKept
  <2> QED
    BY <2>1, <2>2, <2>4, <2>5
<1>2. CASE AskSize
  <2> USE <1>2 DEF AskSize
  <2>1. TypeOK'
    BY Sizes, DownloadAssumption DEF TypeOK, Work
  <2>2. SizeSeen'
    BY DownloadAssumption DEF SizeSeen, TypeOK, Work
  <2>3. WorkersOK'
    BY DEF WorkersOK
  <2>4. PiecesKept'
    BY Positions DEF PiecesKept
  <2> QED
    BY <2>1, <2>2, <2>3, <2>4
<1>3. CASE AskSizeFails
  <2> USE <1>3 DEF AskSizeFails
  <2>1. TypeOK'
    BY DEF TypeOK, Work
  <2>2. WorkersOK'
    BY DEF WorkersOK
  <2>3. PiecesKept'
    BY Positions DEF PiecesKept
  <2> QED
    BY <2>1, <2>2, <2>3 DEF SizeSeen
<1>4. CASE Pick \/ PickFails
  <2> USE <1>4 DEF Pick, PickFails
  <2>1. TypeOK'
    BY DEF TypeOK, Work
  <2>2. SizeSeen'
    BY DEF SizeSeen
  <2>3. \A c, u : Good(c, u) => Good(c, u)'
    BY GoodKept
  <2>4. WorkersOK'
    BY <2>3 DEF WorkersOK
  <2>5. PiecesKept'
    BY <2>3 DEF PiecesKept
  <2> QED
    BY <2>1, <2>2, <2>4, <2>5
<1>5. CASE Finish
  <2> USE <1>5 DEF Finish, Outcome
  <2>1. TypeOK'
    BY DEF TypeOK, Work
  <2>2. SizeSeen'
    BY DEF SizeSeen
  <2>3. \A c, u : Good(c, u) => Good(c, u)'
    BY GoodKept
  <2>4. WorkersOK'
    BY <2>3 DEF WorkersOK
  <2>5. PiecesKept'
    BY <2>3 DEF PiecesKept
  <2> QED
    BY <2>1, <2>2, <2>4, <2>5
<1>6. ASSUME NEW w \in Workers, Load(w) PROVE DownloadInv'
  <2>1. seen' = seen /\ total' = total /\ current' = current
    BY <1>6 DEF Load, Take, Fetch, Receive, Again, GiveUp, Gone, Write, WriteFails
  <2>2. \A c, u : Good(c, u) => Good(c, u)'
    BY <2>1, GoodKept
  <2>3. CASE Take(w)
    <3> USE <2>1, <2>3 DEF Take, LeavesLoop
    <3>1. TypeOK'
      BY Attempts DEF TypeOK, Work
    <3>2. SizeSeen'
      BY DEF SizeSeen
    <3>3. First(nextPiece) < total => nextPiece \in Pieces
      BY Positions, Sizes DEF TypeOK, Work
    <3>4. First(nextPiece) >= total => First(nextPiece') >= total
      BY Positions, Sizes, SMTT(30) DEF TypeOK, Work
    <3>5. First(nextPiece) \in Nat /\ total \in Nat /\ Pieces \subseteq Nat
      BY Positions, Sizes DEF TypeOK, Work
    <3>6. WorkersOK'
      BY <2>2, <3>3, <3>4, <3>5 DEF WorkersOK, TypeOK, Work
    <3>7. step' = step /\ step # "idle" /\ out' = out /\ failed' = failed
      OBVIOUS
    <3>8. \A v \in Workers : worker[v].at \in {"get", "write"} => worker'[v] = worker[v]
      BY DEF TypeOK
    <3>9. \/ nextPiece' = nextPiece
          \/ /\ nextPiece' = nextPiece + 1
             /\ worker'[w].at = "get" /\ worker'[w].piece = nextPiece
      BY DEF TypeOK
    <3>10. nextPiece \in Nat
      BY DEF TypeOK
    <3> HIDE <2>3 DEF Take
    <3>11. PiecesKept'
      BY <2>2, <3>5, <3>7, <3>8, <3>9, <3>10 DEF PiecesKept
    <3> QED
      BY <3>1, <3>2, <3>6, <3>11
  <2>4. CASE Receive(w)
    <3> DEFINE c == worker[w].piece  v == worker'[w].data
    <3> USE <2>1, <2>4 DEF Receive
    <3>1. TypeOK'
      <4>1. v \in Versions \cup {Nothing}
        BY DEF TypeOK, Work
      <4>2. worker'[w] \in Work
        BY <4>1 DEF TypeOK, Work
      <4> QED
        BY <4>2 DEF TypeOK
    <3>2. SizeSeen'
      BY DEF SizeSeen
    <3>3. Good(c, v)
      <4>1. c \in Nat /\ First(c) < total /\ First(c) \in Nat /\ total \in Nat
            /\ PieceSize \in Nat \ {0} /\ current \in seen \ {Nothing} /\ current \in Versions
        BY Positions, Sizes, DownloadAssumption DEF WorkersOK, SizeSeen, TypeOK, Work
      <4>2. AfterLast(c) > 0 /\ AfterLast(c) \in Nat
        BY <4>1 DEF AfterLast
      <4>3. v = IF current \in Empty THEN Nothing ELSE current
        BY DEF TypeOK, Work
      <4>4. CASE current \in Empty
        <5>1. First(c) = 0
          BY <4>2, <4>4 DEF Acceptable, Empty
        <5> QED
          BY <4>1, <4>3, <4>4, <5>1, Positions DEF Good
      <4>5. CASE current \notin Empty
        BY <4>1, <4>3, <4>5 DEF Good, Acceptable
      <4> QED
        BY <4>4, <4>5
    <3>4. WorkersOK'
      BY <2>2, <3>3 DEF WorkersOK, TypeOK, Work
    <3>5. PiecesKept'
      BY <2>2 DEF PiecesKept, TypeOK, Work
    <3> QED
      BY <3>1, <3>2, <3>4, <3>5
  <2>5. CASE Again(w) \/ Gone(w)
    <3> USE <2>1, <2>5 DEF Again, Gone, GiveUp, NextAttempt
    <3>1. TypeOK'
      <4>1. /\ worker[w] \in Work
            /\ worker[w].attempt # MaxAttempts => worker[w].attempt + 1 \in 1 .. MaxAttempts
        BY Attempts DEF TypeOK, Work
      <4>2. worker'[w] \in Work
        BY <4>1 DEF TypeOK, Work
      <4>3. worker' \in [Workers -> Work]
        BY <4>2 DEF TypeOK
      <4> QED
        BY <4>3 DEF TypeOK
    <3>2. SizeSeen'
      BY DEF SizeSeen
    <3>3. WorkersOK'
      BY <2>2 DEF WorkersOK, TypeOK, Work
    <3>4. PiecesKept'
      BY <2>2 DEF PiecesKept, TypeOK, Work
    <3> QED
      BY <3>1, <3>2, <3>3, <3>4
  <2>6. CASE Write(w)
    <3> USE <2>1, <2>6 DEF Write
    <3>1. TypeOK'
      BY DEF TypeOK, Work
    <3>2. SizeSeen'
      BY DEF SizeSeen
    <3>3. WorkersOK'
      BY <2>2 DEF WorkersOK, TypeOK, Work
    <3>4. ASSUME NEW c \in Pieces, c = worker[w].piece PROVE Good(c, out'[c])
      BY <3>4 DEF WorkersOK, PiecesKept, TypeOK, Work
    <3>5. ASSUME NEW c \in Pieces, c # worker[w].piece PROVE out'[c] = out[c]
      BY <3>5 DEF TypeOK, Work
    <3>6. PiecesKept'
      <4>1. ASSUME NEW c \in Pieces
            PROVE  (out[c] = Nothing \/ Good(c, out[c]))'
        BY <2>2, <3>4, <3>5 DEF PiecesKept
      <4>2. ASSUME NEW c \in Pieces
            PROVE  (\/ c >= nextPiece \/ failed \/ step = "broken" \/ Good(c, out[c])
                    \/ \E q \in Workers : worker[q].at \in {"get", "write"}
                                          /\ worker[q].piece = c)'
        <5>1. CASE c = worker[w].piece
          BY <2>2, <3>4, <5>1
        <5>2. CASE c # worker[w].piece
          BY <2>2, <3>5, <5>2 DEF PiecesKept, TypeOK, Work
        <5> QED
          BY <5>1, <5>2
      <4> QED
        BY <4>1, <4>2 DEF PiecesKept
    <3> QED
      BY <3>1, <3>2, <3>3, <3>6
  <2>7. CASE WriteFails(w)
    <3> USE <2>1, <2>7 DEF WriteFails
    <3>1. TypeOK'
      BY DEF TypeOK, Work
    <3>2. SizeSeen'
      BY DEF SizeSeen, WorkersOK
    <3>3. WorkersOK'
      BY <2>2 DEF WorkersOK, TypeOK, Work
    <3>4. PiecesKept'
      BY <2>2 DEF PiecesKept, TypeOK, Work
    <3> QED
      BY <3>1, <3>2, <3>3, <3>4
  <2> QED
    BY <1>6, <2>3, <2>4, <2>5, <2>6, <2>7 DEF Load, Fetch
<1>7. CASE UNCHANGED downloadVars
  <2>1. TypeOK' /\ SizeSeen'
    BY <1>7 DEF TypeOK, SizeSeen
  <2>2. \A c, u : Good(c, u) => Good(c, u)'
    BY <1>7, GoodKept
  <2>3. WorkersOK'
    BY <1>7, <2>2 DEF WorkersOK
  <2>4. PiecesKept'
    BY <1>7, <2>2 DEF PiecesKept
  <2> QED
    BY <2>1, <2>3, <2>4
<1> QED
  BY <1>1, <1>2, <1>3, <1>4, <1>5, <1>6, <1>7 DEF Next, Download

\* A download that ends as saved holds every piece, whole and at its place,
\* from something that had the name meanwhile (script.js:362-424).
THEOREM DownloadFaithful == Spec => []SavedFaithful
<1>1. DownloadInv => SavedFaithful
  <2> SUFFICES ASSUME DownloadInv, step = "saved", NEW c \in PiecesOf(total)
               PROVE  /\ out[c] \in seen \ {Nothing}
                           \/ (c = 0 /\ out[c] = Nothing /\ seen \cap Empty # {})
                      /\ out[c] # Nothing => AfterLast(c) <= Size[out[c]]
                      /\ \A v \in Versions : seen = {v} => out[c] = v /\ total = Size[v]
    BY DEF SavedFaithful
  <2> USE DEF DownloadInv
  <2>1. /\ c \in Pieces /\ c \in Nat /\ First(c) \in Nat /\ total \in Nat
        /\ First(c) < total /\ nextPiece \in Nat /\ First(nextPiece) \in Nat
    BY Positions, Sizes DEF PiecesOf, TypeOK
  <2>2. PICK w \in Workers : ~failed /\ First(nextPiece) >= total
    BY DownloadAssumption DEF WorkersOK
  <2>3. ~(c >= nextPiece)
    BY <2>1, <2>2, Positions
  <2>4. Good(c, out[c])
    BY <2>1, <2>2, <2>3 DEF PiecesKept, WorkersOK
  <2>5. ASSUME NEW v \in Versions, seen = {v} PROVE out[c] = v /\ total = Size[v]
    BY <2>1, <2>4, <2>5, Sizes DEF SizeSeen, Good, Empty
  <2> QED
    BY <2>4, <2>5 DEF Good
<1> QED
  BY InitInv, NextInv, <1>1, PTL DEF Spec

-----------------------------------------------------------------------------
(* That a download ends is liveness, which only TLC checks; that it never  *)
(* goes back is the part of the argument that is safety.                   *)

Stage(where) ==
  CASE where = "idle" -> 0 [] where = "picking" -> 1 [] where = "loading" -> 2
    [] where = "broken" -> 3 [] OTHER -> 4

\* A worker takes a piece that nobody was given before, or has one attempt
\* less, or comes by its piece, or has it written, or stops.
WorkerOnward(w) ==
  /\ \A v \in Workers \ {w} : worker'[v] = worker[v]
  /\ \/ /\ worker[w].at = "next" /\ nextPiece' = nextPiece + 1
        /\ worker'[w] = [at |-> "get", piece |-> nextPiece, attempt |-> 1, data |-> Nothing]
     \/ /\ worker[w].at = "get" /\ nextPiece' = nextPiece
        /\ worker[w].attempt < MaxAttempts
        /\ worker'[w] = [worker[w] EXCEPT !.attempt = worker[w].attempt + 1]
     \/ worker[w].at = "get" /\ worker'[w].at = "write" /\ nextPiece' = nextPiece
     \/ worker[w].at = "write" /\ worker'[w].at = "next" /\ nextPiece' = nextPiece
     \/ worker[w].at # "done" /\ worker'[w].at = "done" /\ nextPiece' = nextPiece

Onward ==
  \/ UNCHANGED script
  \/ /\ Stage(step') > Stage(step)
     /\ UNCHANGED <<nextPiece, failed, worker, out>>
  \/ /\ step \in {"loading", "broken"} /\ step' \in {step, "broken"}
     /\ total' = total /\ (failed => failed')
     /\ \E w \in Workers : WorkerOnward(w)

\* Each step of the script brings the download closer to its end, by a rank
\* of the stages, the pieces still to be given out and the attempts left,
\* whatever happens to the file (script.js:327-461).
DownloadOnward == [][Onward]_downloadVars

THEOREM DownloadGoesOn == Spec => DownloadOnward
<1>1. DownloadInv /\ [Next]_downloadVars => [Onward]_downloadVars
  <2> SUFFICES ASSUME DownloadInv, Next PROVE Onward
    OBVIOUS
  <2> USE DEF DownloadInv
  <2>1. ASSUME NEW v \in Versions \cup {Nothing}, Change(v) PROVE Onward
    BY <2>1 DEF Change, Onward
  <2>2. CASE AskSize \/ AskSizeFails
    BY <2>2 DEF AskSize, AskSizeFails, Onward, Stage
  <2>3. CASE Pick \/ PickFails \/ Finish
    BY <2>3 DEF Pick, PickFails, Finish, Outcome, Onward, Stage
  <2>4. ASSUME NEW w \in Workers, Load(w) PROVE Onward
    <3>1. step \in {"loading", "broken"} /\ step' \in {step, "broken"} /\ total' = total
          /\ (failed => failed')
      BY <2>4 DEF Load, Take, Fetch, Receive, Again, Gone, GiveUp, Write, WriteFails, WorkersOK
    <3>2. \A v \in Workers \ {w} : worker'[v] = worker[v]
      BY <2>4 DEF Load, Take, Fetch, Receive, Again, Gone, GiveUp, Write, WriteFails,
                  TypeOK, Work
    <3>3. WorkerOnward(w)
      <4>1. CASE Take(w)
        BY <3>2, <4>1 DEF Take, WorkerOnward, TypeOK, Work
      <4>2. CASE Receive(w)
        BY <3>2, <4>2 DEF Receive, WorkerOnward, TypeOK, Work
      <4>3. CASE Again(w) /\ worker[w].attempt = MaxAttempts
        BY <3>2, <4>3 DEF Again, GiveUp, WorkerOnward, TypeOK, Work
      <4>4. CASE Again(w) /\ worker[w].attempt # MaxAttempts
        <5>1. worker[w].attempt < MaxAttempts
          BY <4>4, Attempts DEF TypeOK, Work
        <5>2. worker'[w] = [worker[w] EXCEPT !.attempt = worker[w].attempt + 1]
          BY <4>4 DEF Again, NextAttempt, TypeOK, Work
        <5> QED
          BY <3>2, <4>4, <5>1, <5>2 DEF Again, WorkerOnward
      <4>5. CASE Gone(w)
        BY <3>2, <4>5 DEF Gone, GiveUp, WorkerOnward, TypeOK, Work
      <4>6. CASE Write(w) \/ WriteFails(w)
        BY <3>2, <4>6 DEF Write, WriteFails, WorkerOnward, TypeOK, Work
      <4> QED
        BY <2>4, <4>1, <4>2, <4>3, <4>4, <4>5, <4>6 DEF Load, Fetch
    <3> QED
      BY <3>1, <3>3 DEF Onward
  <2> QED
    BY <2>1, <2>2, <2>3, <2>4 DEF Next, Download
<1> QED
  BY InitInv, NextInv, <1>1, PTL DEF Spec, DownloadOnward

-----------------------------------------------------------------------------
(* Recursion over the positions of a name.                                 *)

\* Induction over numbers, stated for sets of them.
LEMMA NatSetInduction ==
  ASSUME NEW S, 0 \in S, \A n \in Nat : n \in S => n + 1 \in S
  PROVE  Nat \subseteq S
<1> DEFINE T == Nat \ S
           R == {ss \in Nat \X Nat : ss[1] < ss[2]}
<1>1. SUFFICES ASSUME T # {} PROVE FALSE
  OBVIOUS
<1>2. IsWellFoundedOn(R, Nat)
  BY NatLessThanWellFounded, Zenon DEF OpToRel
<1>3. T \subseteq Nat
  OBVIOUS
<1> HIDE DEF T, R
<1>4. PICK x \in T : \A y \in T : ~ (<<y, x>> \in R)
  BY <1>1, <1>2, <1>3, WFMin
<1>5. \A y \in T : ~(y < x)
  BY <1>3, <1>4 DEF R, T
<1> USE DEF T
<1>6. x # 0 /\ x \in Nat
  OBVIOUS
<1>7. x - 1 \in Nat /\ x - 1 < x /\ (x - 1) + 1 = x
  BY <1>6
<1> QED
  BY <1>5, <1>7

\* f begins with base, and its value at i is what rule makes of the one before.
IsRun(f, n, V, base, rule) ==
  f \in [0 .. n -> V] /\ f[0] = base /\ \A i \in 1 .. n : f[i] = rule[i][f[i - 1]]

\* Such a function exists.
LEMMA RunExists ==
  ASSUME NEW n \in Nat, NEW V, NEW base \in V, NEW rule \in [1 .. n -> [V -> V]]
  PROVE  \E f : IsRun(f, n, V, base, rule)
<1> DEFINE Upto(k) == \E f : IsRun(f, k, V, base, rule)
           S == {k \in Nat : k <= n => Upto(k)}
<1>1. 0 \in S
  <2> DEFINE f == [i \in 0 .. 0 |-> base]
  <2>1. f \in [0 .. 0 -> V] /\ f[0] = base /\ 1 .. 0 = {}
    OBVIOUS
  <2> HIDE DEF f
  <2>2. Upto(0)
    BY <2>1 DEF IsRun
  <2> QED
    BY <2>2
<1>2. ASSUME NEW k \in Nat, k \in S PROVE k + 1 \in S
  <2>1. SUFFICES ASSUME k + 1 <= n PROVE Upto(k + 1)
    OBVIOUS
  <2>2. PICK f : /\ f \in [0 .. k -> V] /\ f[0] = base
                 /\ \A i \in 1 .. k : f[i] = rule[i][f[i - 1]]
    BY <1>2, <2>1 DEF IsRun
  <2> DEFINE g == [i \in 0 .. k + 1 |-> IF i <= k THEN f[i] ELSE rule[k + 1][f[k]]]
  <2>3. rule[k + 1][f[k]] \in V
    BY <2>1, <2>2
  <2>4. g \in [0 .. k + 1 -> V]
    BY <2>2, <2>3
  <2>5. g[0] = base
    BY <2>2
  <2>6. ASSUME NEW i \in 1 .. k + 1 PROVE g[i] = rule[i][g[i - 1]]
    <3>1. CASE i <= k
      <4>1. i \in 1 .. k /\ i - 1 \in 0 .. k /\ i \in 0 .. k + 1 /\ i - 1 \in 0 .. k + 1
        BY <3>1
      <4>2. g[i] = f[i] /\ g[i - 1] = f[i - 1]
        BY <3>1, <4>1
      <4> QED
        BY <2>2, <4>1, <4>2
    <3>2. CASE i = k + 1
      <4>1. i - 1 = k /\ k \in 0 .. k + 1 /\ ~(i <= k)
        BY <3>2
      <4> QED
        BY <3>2, <4>1
    <3> QED
      BY <3>1, <3>2
  <2> HIDE DEF g
  <2> QED
    BY <2>4, <2>5, <2>6 DEF IsRun
<1> HIDE DEF S
<1>3. Nat \subseteq S
  BY <1>1, <1>2, NatSetInduction
<1>4. Upto(n)
  <2>1. n \in S /\ n <= n
    BY <1>3
  <2> HIDE DEF Upto
  <2> QED
    BY <2>1 DEF S
<1> QED
  BY <1>4

-----------------------------------------------------------------------------
(* Names and their segments.                                               *)

\* Names without slashes over the characters in A, and lists of them.
Unslashed(A) == Seq(A \ {Slash})
SegmentLists(A) == Seq(Unslashed(A)) \ {<<>>}

\* What one more item makes of the segments so far.
LEMMA SplitStep ==
  ASSUME NEW A, NEW ss \in SegmentLists(A), NEW item \in A
  PROVE  /\ item = Slash => Append(ss, <<>>) \in SegmentLists(A)
         /\ item # Slash => Front(ss) \o <<Append(Last(ss), item)>> \in SegmentLists(A)
<1> USE DEF SegmentLists, Unslashed, Front, Last
<1>1. ss \in Seq(Unslashed(A)) /\ Len(ss) \in Nat \ {0}
  OBVIOUS
<1>2. Append(ss, <<>>) \in SegmentLists(A)
  <2>1. <<>> \in Unslashed(A)
    OBVIOUS
  <2> QED
    BY <1>1, <2>1
<1>3. ASSUME item # Slash PROVE Front(ss) \o <<Append(Last(ss), item)>> \in SegmentLists(A)
  <2>1. Last(ss) \in Unslashed(A)
    BY <1>1
  <2>2. Append(Last(ss), item) \in Unslashed(A)
    BY <1>3, <2>1
  <2>3. Front(ss) \in Seq(Unslashed(A))
    BY <1>1
  <2> QED
    BY <2>2, <2>3
<1> QED
  BY <1>2, <1>3

\* Segments is the value of the recursion at the end of the name, and every
\* value before is a list of segments without slashes.
LEMMA SegmentsDefined ==
  ASSUME NEW A, NEW raw \in Seq(A)
  PROVE  \E split \in [0 .. Len(raw) -> SegmentLists(A)] :
           /\ split[0] = <<(<<>>)>> /\ Segments(raw) = split[Len(raw)]
           /\ \A i \in 1 .. Len(raw) :
                split[i] = IF raw[i] = Slash THEN Append(split[i - 1], <<>>)
                           ELSE Front(split[i - 1]) \o <<Append(Last(split[i - 1]), raw[i])>>
<1> DEFINE n == Len(raw)
           NextSplit(ss, i) == IF raw[i] = Slash THEN Append(ss, <<>>)
                           ELSE Front(ss) \o <<Append(Last(ss), raw[i])>>
           IsSplit(f) == f = [i \in 0 .. n |-> IF i = 0 THEN <<(<<>>)>> ELSE NextSplit(f[i - 1], i)]
           splitting == [i \in 1 .. n |-> [ss \in SegmentLists(A) |-> NextSplit(ss, i)]]
<1>1. n \in Nat /\ \A i \in 1 .. n : raw[i] \in A
  OBVIOUS
<1>2. <<(<<>>)>> \in SegmentLists(A)
  BY DEF SegmentLists, Unslashed
<1>3. \A ss \in SegmentLists(A), i \in 1 .. n : NextSplit(ss, i) \in SegmentLists(A)
  BY <1>1, SplitStep
<1> HIDE DEF NextSplit, n
<1>4. splitting \in [1 .. n -> [SegmentLists(A) -> SegmentLists(A)]]
  BY <1>3
<1>5. PICK f : IsRun(f, n, SegmentLists(A), <<(<<>>)>>, splitting)
  <2> HIDE DEF splitting
  <2> QED
    BY <1>1, <1>2, <1>4, RunExists
<1>6. IsSplit(f)
  <2>1. ASSUME NEW i \in 1 .. n PROVE f[i] = NextSplit(f[i - 1], i)
    <3>1. i - 1 \in 0 .. n /\ f[i - 1] \in SegmentLists(A)
      BY <1>1, <1>5 DEF IsRun
    <3>2. splitting[i][f[i - 1]] = NextSplit(f[i - 1], i)
      BY <3>1
    <3> QED
      BY <1>5, <3>2 DEF IsRun
  <2>2. \A i \in 0 .. n : i # 0 => i \in 1 .. n
    BY <1>1
  <2>3. \A i \in 0 .. n : f[i] = IF i = 0 THEN <<(<<>>)>> ELSE NextSplit(f[i - 1], i)
    BY <1>5, <2>1, <2>2 DEF IsRun
  <2> QED
    BY <1>5, <2>3 DEF IsRun
<1> DEFINE split == CHOOSE g : IsSplit(g)
<1>7. IsSplit(split)
  <2> HIDE DEF IsSplit
  <2> QED
    BY <1>6
<1>8. Segments(raw) = split[n]
  BY DEF Segments, NextSplit, n
<1> HIDE DEF split
<1>9. split \in [0 .. n -> SegmentLists(A)]
  <2> DEFINE S == {k \in Nat : k <= n => split[k] \in SegmentLists(A)}
  <2>1. 0 \in S
    BY <1>1, <1>2, <1>7
  <2>2. ASSUME NEW k \in Nat, k \in S PROVE k + 1 \in S
    <3>1. k + 1 <= n => split[k + 1] = NextSplit(split[k], k + 1)
      BY <1>1, <1>7
    <3> QED
      BY <1>1, <1>3, <2>2, <3>1
  <2> HIDE DEF S
  <2>3. Nat \subseteq S
    BY <2>1, <2>2, NatSetInduction
  <2>4. \A k \in 0 .. n : split[k] \in SegmentLists(A)
    BY <1>1, <2>3 DEF S
  <2> QED
    BY <1>7, <2>4
<1>10. split[0] = <<(<<>>)>> /\ \A i \in 1 .. n : split[i] = NextSplit(split[i - 1], i)
  BY <1>1, <1>7
<1> QED
  BY <1>8, <1>9, <1>10 DEF NextSplit, n

\* So the segments of a name have no slashes.
LEMMA SegmentsOK ==
  ASSUME NEW A, NEW raw \in Seq(A)
  PROVE  Segments(raw) \in SegmentLists(A)
<1>1. PICK split \in [0 .. Len(raw) -> SegmentLists(A)] : Segments(raw) = split[Len(raw)]
  BY SegmentsDefined
<1>2. Len(raw) \in 0 .. Len(raw)
  OBVIOUS
<1> QED
  BY <1>1, <1>2

\* A name without slashes is its own segment.
LEMMA OneSegment ==
  ASSUME NEW A, NEW raw \in Unslashed(A)
  PROVE  Segments(raw) = <<raw>>
<1>1. raw \in Seq(A) /\ Len(raw) \in Nat /\ \A i \in 1 .. Len(raw) : raw[i] # Slash
  <2>1. raw \in Seq(A \ {Slash}) /\ Len(raw) \in Nat
    BY DEF Unslashed
  <2>2. \A i \in 1 .. Len(raw) : raw[i] \in A \ {Slash}
    BY <2>1
  <2> QED
    BY <2>1, <2>2
<1>2. PICK split \in [0 .. Len(raw) -> SegmentLists(A)] :
        /\ split[0] = <<(<<>>)>> /\ Segments(raw) = split[Len(raw)]
        /\ \A i \in 1 .. Len(raw) :
             split[i] = IF raw[i] = Slash THEN Append(split[i - 1], <<>>)
                        ELSE Front(split[i - 1]) \o <<Append(Last(split[i - 1]), raw[i])>>
  BY <1>1, SegmentsDefined
<1> DEFINE S == {k \in Nat : k <= Len(raw) => split[k] = <<SubSeq(raw, 1, k)>>}
<1>3. 0 \in S
  <2>1. SubSeq(raw, 1, 0) = <<>>
    BY <1>1
  <2> QED
    BY <1>2, <2>1
<1>4. ASSUME NEW k \in Nat, k \in S PROVE k + 1 \in S
  <2>1. SUFFICES ASSUME k + 1 <= Len(raw) PROVE split[k + 1] = <<SubSeq(raw, 1, k + 1)>>
    OBVIOUS
  <2> DEFINE before == SubSeq(raw, 1, k)
  <2>2. split[k] = <<before>> /\ before \in Seq(A) /\ Len(before) = k
    BY <1>1, <1>4, <2>1
  <2>3. k + 1 \in 1 .. Len(raw) /\ (k + 1) - 1 = k /\ raw[k + 1] # Slash /\ raw[k + 1] \in A
    BY <1>1, <2>1
  <2>4. split[k + 1] = Front(<<before>>) \o <<Append(Last(<<before>>), raw[k + 1])>>
    BY <1>2, <2>2, <2>3
  <2>5. Append(before, raw[k + 1]) = SubSeq(raw, 1, k + 1)
    BY <1>1, <2>1, <2>3
  <2> HIDE DEF before
  <2>6. Front(<<before>>) = <<>> /\ Last(<<before>>) = before
    BY DEF Front, Last
  <2>7. <<>> \o <<SubSeq(raw, 1, k + 1)>> = <<SubSeq(raw, 1, k + 1)>>
    OBVIOUS
  <2> QED
    BY <2>4, <2>5, <2>6, <2>7
<1> HIDE DEF S
<1>5. Nat \subseteq S
  BY <1>3, <1>4, NatSetInduction
<1>6. split[Len(raw)] = <<SubSeq(raw, 1, Len(raw))>>
  BY <1>1, <1>5 DEF S
<1>7. SubSeq(raw, 1, Len(raw)) = raw
  BY <1>1
<1> QED
  BY <1>2, <1>6, <1>7

-----------------------------------------------------------------------------
(* Paths.                                                                  *)

\* What a segment of a path may be.
PathSegments == Unslashed(Items) \ {<<>>, <<Dot>>, <<Dot, Dot>>}

\* A step into a folder, or out of it, keeps a path in order.
LEMMA EnterOK ==
  ASSUME NEW path \in Seq(PathSegments), NEW segment \in Unslashed(Items)
  PROVE  Enter(path, segment) \in Seq(PathSegments)
<1>1. path # <<>> => Front(path) \in Seq(PathSegments)
  BY DEF Front
<1>2. segment \in PathSegments => Append(path, segment) \in Seq(PathSegments)
  OBVIOUS
<1> QED
  BY <1>1, <1>2 DEF Enter, PathSegments

\* Clean is the value of the recursion at the end of the segments.
LEMMA CleanDefined ==
  ASSUME NEW raw \in Seq(Items)
  PROVE  LET segments == Segments(raw)
         IN \E entered \in [0 .. Len(segments) -> Seq(PathSegments)] :
              /\ entered[0] = <<>> /\ Clean(raw) = entered[Len(segments)]
              /\ \A i \in 1 .. Len(segments) :
                   entered[i] = Enter(entered[i - 1], segments[i])
<1> DEFINE segments == Segments(raw)
           n == Len(segments)
           IsWalk(f) == f = [i \in 0 .. n |-> IF i = 0 THEN <<>> ELSE Enter(f[i - 1], segments[i])]
           entering == [i \in 1 .. n |-> [path \in Seq(PathSegments) |-> Enter(path, segments[i])]]
<1>1. n \in Nat /\ \A i \in 1 .. n : segments[i] \in Unslashed(Items)
  BY SegmentsOK DEF SegmentLists
<1>2. <<>> \in Seq(PathSegments)
  OBVIOUS
<1>3. \A path \in Seq(PathSegments), i \in 1 .. n : Enter(path, segments[i]) \in Seq(PathSegments)
  BY <1>1, EnterOK
<1> HIDE DEF segments, n
<1>4. entering \in [1 .. n -> [Seq(PathSegments) -> Seq(PathSegments)]]
  BY <1>3
<1>5. PICK f : IsRun(f, n, Seq(PathSegments), <<>>, entering)
  <2> HIDE DEF entering
  <2> QED
    BY <1>1, <1>2, <1>4, RunExists
<1>6. IsWalk(f)
  <2>1. ASSUME NEW i \in 1 .. n PROVE f[i] = Enter(f[i - 1], segments[i])
    <3>1. i - 1 \in 0 .. n /\ f[i - 1] \in Seq(PathSegments)
      BY <1>1, <1>5 DEF IsRun
    <3>2. entering[i][f[i - 1]] = Enter(f[i - 1], segments[i])
      BY <3>1
    <3> QED
      BY <1>5, <3>2 DEF IsRun
  <2>2. \A i \in 0 .. n : i # 0 => i \in 1 .. n
    BY <1>1
  <2>3. \A i \in 0 .. n : f[i] = IF i = 0 THEN <<>> ELSE Enter(f[i - 1], segments[i])
    BY <1>5, <2>1, <2>2 DEF IsRun
  <2> QED
    BY <1>5, <2>3 DEF IsRun
<1> DEFINE entered == CHOOSE g : IsWalk(g)
<1>7. IsWalk(entered)
  <2> HIDE DEF IsWalk
  <2> QED
    BY <1>6
<1>8. Clean(raw) = entered[n]
  BY DEF Clean, segments, n
<1> HIDE DEF entered
<1>9. entered \in [0 .. n -> Seq(PathSegments)]
  <2> DEFINE S == {k \in Nat : k <= n => entered[k] \in Seq(PathSegments)}
  <2>1. 0 \in S
    BY <1>1, <1>2, <1>7
  <2>2. ASSUME NEW k \in Nat, k \in S PROVE k + 1 \in S
    <3>1. SUFFICES ASSUME k + 1 <= n PROVE entered[k + 1] \in Seq(PathSegments)
      OBVIOUS
    <3>2. k + 1 \in 0 .. n /\ k + 1 \in 1 .. n /\ k + 1 # 0 /\ (k + 1) - 1 = k
      BY <1>1, <3>1
    <3>3. entered[k + 1] = Enter(entered[k], segments[k + 1])
      BY <1>7, <3>2
    <3>4. entered[k] \in Seq(PathSegments)
      BY <1>1, <2>2, <3>1
    <3> QED
      BY <1>3, <3>2, <3>3, <3>4
  <2> HIDE DEF S
  <2>3. Nat \subseteq S
    BY <2>1, <2>2, NatSetInduction
  <2>4. \A k \in 0 .. n : entered[k] \in Seq(PathSegments)
    BY <1>1, <2>3 DEF S
  <2> QED
    BY <1>7, <2>4
<1>10. entered[0] = <<>> /\ \A i \in 1 .. n : entered[i] = Enter(entered[i - 1], segments[i])
  BY <1>1, <1>7
<1> QED
  BY <1>8, <1>9, <1>10 DEF segments, n

\* A clean path stays below the root.
LEMMA CleanOK ==
  ASSUME NEW raw \in Seq(Items)
  PROVE  Clean(raw) \in Seq(PathSegments)
<1>1. Len(Segments(raw)) \in Nat
  BY SegmentsOK DEF SegmentLists
<1> QED
  BY <1>1, CleanDefined

\* A name that is a file name already is its own path.
LEMMA CleanOne ==
  ASSUME NEW raw \in PathSegments
  PROVE  Clean(raw) = <<raw>>
<1>1. raw \in Unslashed(Items) /\ raw \in Seq(Items)
  BY DEF PathSegments, Unslashed
<1>2. Segments(raw) = <<raw>>
  BY <1>1, OneSegment
<1>3. PICK entered : /\ entered[0] = <<>> /\ Clean(raw) = entered[1]
                     /\ entered[1] = Enter(entered[0], raw)
  <2>1. Len(<<raw>>) = 1 /\ <<raw>>[1] = raw /\ 1 \in 1 .. 1 /\ 1 - 1 = 0
    OBVIOUS
  <2> QED
    BY <1>1, <1>2, <2>1, CleanDefined
<1>4. Enter(<<>>, raw) = <<raw>>
  BY DEF Enter, PathSegments
<1> QED
  BY <1>3, <1>4

\* Decoding undoes what a browser does to a name.
LEMMA DecodeEncode ==
  ASSUME NEW raw \in Seq(Items)
  PROVE  Decode(Encode(raw)) = raw
<1> USE DEF X, Dot, Slash, Backslash, Percent
<1> DEFINE code == Encode(raw)
<1>1. Len(raw) \in Nat /\ DOMAIN raw = 1 .. Len(raw) /\ \A i \in 1 .. Len(raw) : raw[i] \in Items
  OBVIOUS
<1>2. \A i \in 1 .. Len(raw) : raw[i] = <<raw[i][1], raw[i][2]>> /\ raw[i][2] \in Nat
  BY <1>1 DEF Items
<1>3. DOMAIN code = 1 .. Len(raw) /\ Len(code) = Len(raw)
  <2>1. code \in [1 .. Len(raw) -> {code[i] : i \in 1 .. Len(raw)}]
    BY <1>1 DEF Encode
  <2>2. code \in Seq({code[i] : i \in 1 .. Len(raw)})
    BY <1>1, <2>1
  <2> QED
    BY <1>1, <2>1, <2>2
<1>4. \A i \in 1 .. Len(raw) :
        code[i] = IF raw[i] \in {X, Dot} THEN raw[i] ELSE <<raw[i][1], raw[i][2] + 1>>
  BY <1>1 DEF Encode, Escaped
<1> HIDE DEF code
<1>5. ~Contains(code, Percent)
  BY <1>2, <1>3, <1>4 DEF Contains
<1>6. \A i \in 1 .. Len(raw) :
        (IF code[i][2] = 0 THEN code[i] ELSE <<code[i][1], code[i][2] - 1>>) = raw[i]
  <2> TAKE i \in 1 .. Len(raw)
  <2>1. CASE raw[i] \in {X, Dot}
    <3>1. X[2] = 0 /\ Dot[2] = 0
      OBVIOUS
    <3>2. raw[i][2] = 0 /\ code[i] = raw[i]
      BY <1>4, <2>1, <3>1
    <3> QED
      BY <3>2
  <2>2. CASE raw[i] \notin {X, Dot}
    <3> DEFINE c == raw[i][1]  k == raw[i][2]
    <3>1. raw[i] = <<c, k>> /\ k \in Nat /\ code[i] = <<c, k + 1>>
      BY <1>2, <1>4, <2>2
    <3> HIDE DEF c, k
    <3>2. code[i][1] = c /\ code[i][2] = k + 1 /\ k + 1 # 0 /\ (k + 1) - 1 = k
      BY <3>1
    <3> QED
      BY <3>1, <3>2
  <2> QED
    BY <2>1, <2>2
<1>7. Decode(code) = [i \in 1 .. Len(raw) |-> raw[i]]
  BY <1>3, <1>5, <1>6 DEF Decode
<1> QED
  BY <1>1, <1>7 DEF code

\* Neither decoding nor turning backslashes leaves the characters there are.
LEMMA Rewritten ==
  ASSUME NEW raw \in Seq(Items)
  PROVE  Decode(raw) \in Seq(Items) /\ Slashed(raw) \in Seq(Items \ {Backslash})
<1>1. Len(raw) \in Nat /\ DOMAIN raw = 1 .. Len(raw) /\ \A i \in 1 .. Len(raw) : raw[i] \in Items
  OBVIOUS
<1>2. \A i \in 1 .. Len(raw) : raw[i] = <<raw[i][1], raw[i][2]>> /\ raw[i][2] \in Nat
                              /\ raw[i][1] \in {c[1] : c \in Characters}
  BY <1>1 DEF Items
<1>3. Decode(raw) \in Seq(Items)
  <2>1. CASE Contains(raw, Percent)
    BY <2>1 DEF Decode, Unsafe
  <2>2. CASE ~Contains(raw, Percent)
    <3>1. \A i \in 1 .. Len(raw) : raw[i][2] # 0 => <<raw[i][1], raw[i][2] - 1>> \in Items
      BY <1>2 DEF Items
    <3>2. Decode(raw) = [i \in 1 .. Len(raw) |->
                           IF raw[i][2] = 0 THEN raw[i] ELSE <<raw[i][1], raw[i][2] - 1>>]
      BY <1>1, <2>2 DEF Decode
    <3>3. Decode(raw) \in [1 .. Len(raw) -> Items]
      BY <1>1, <3>1, <3>2
    <3> QED
      BY <1>1, <3>3
  <2> QED
    BY <2>1, <2>2
<1>4. Slashed(raw) \in Seq(Items \ {Backslash})
  <2>1. Slash \in Items \ {Backslash}
    <3>1. Slash[1] = "/" /\ Slash[2] = 0 /\ Backslash[1] = "\\" /\ Slash = <<"/", 0>>
      BY DEF Slash, Backslash
    <3>2. Slash \in Characters
      BY DEF Characters
    <3> QED
      BY <3>1, <3>2 DEF Items
  <2>2. Slashed(raw) \in [1 .. Len(raw) -> Items \ {Backslash}]
    BY <1>1, <2>1 DEF Slashed
  <2> QED
    BY <1>1, <2>2
<1> QED
  BY <1>3, <1>4

\* What SafeJoin returns stays below the root, whatever is sent.
LEMMA SafeJoinOK ==
  ASSUME NEW raw \in Seq(Items)
  PROVE  SafeJoin(raw) \in Seq(PathSegments)
<1>1. Decode(raw) \in Seq(Items)
  BY Rewritten
<1>2. Slashed(Decode(raw)) \in Seq(Items \ {Backslash})
  BY <1>1, Rewritten
<1>3. Slashed(Decode(raw)) \in Seq(Items)
  BY <1>2
<1> QED
  BY <1>3, CleanOK DEF SafeJoin

\* The names that are accepted for an upload.
FileNames == Unslashed(Items \ {Backslash}) \ {<<>>, <<Dot>>, <<Dot, Dot>>}

\* They are names of files.
LEMMA FileNamesGood == FileNames \subseteq PathSegments /\ FileNames \subseteq Seq(Items)
  BY DEF FileNames, PathSegments, Unslashed

\* SanitizeFilename accepts no others.
LEMMA SanitizeOK ==
  ASSUME NEW raw \in Seq(Items)
  PROVE  SanitizeFilename(raw) \in FileNames \cup {Unsafe}
<1> DEFINE segments == Segments(Slashed(raw))
           bases == {segments[i] : i \in {j \in DOMAIN segments :
                       /\ segments[j] \notin {<<>>, <<Dot>>, <<Dot, Dot>>}
                       /\ \A k \in DOMAIN segments : k > j => segments[k] = <<>>}}
<1>1. segments \in SegmentLists(Items \ {Backslash})
  BY Rewritten, SegmentsOK
<1>2. \A i \in DOMAIN segments : segments[i] \in Unslashed(Items \ {Backslash})
  BY <1>1 DEF SegmentLists
<1>3. SanitizeFilename(raw) = IF bases = {} THEN Unsafe ELSE CHOOSE base \in bases : TRUE
  BY DEF SanitizeFilename
<1> HIDE DEF segments
<1>4. bases \subseteq FileNames
  BY <1>2 DEF FileNames
<1> HIDE DEF bases
<1>5. bases # {} => (CHOOSE base \in bases : TRUE) \in bases
  OBVIOUS
<1> QED
  BY <1>3, <1>4, <1>5

\* A file name in which nothing looks like an escape is its own path.
LEMMA PlainPath ==
  ASSUME NEW n \in FileNames, Plain(n)
  PROVE  SafeJoin(n) = <<n>>
<1>1. n \in Seq(Items \ {Backslash, Slash}) /\ n \in Seq(Items) /\ n \in PathSegments
  BY FileNamesGood DEF FileNames, Unslashed
<1>2. Len(n) \in Nat /\ DOMAIN n = 1 .. Len(n) /\ n = [i \in 1 .. Len(n) |-> n[i]]
  BY <1>1
<1>3. \A i \in 1 .. Len(n) : n[i] # Backslash /\ n[i][2] = 0 /\ n[i] # Percent
  BY <1>1, <1>2 DEF Plain
<1>4. Decode(n) = n
  BY <1>2, <1>3 DEF Decode, Contains
<1>5. Slashed(n) = n
  BY <1>2, <1>3 DEF Slashed
<1> QED
  BY <1>1, <1>4, <1>5, CleanOne DEF SafeJoin

-----------------------------------------------------------------------------
(* Uploads, the listing and downloads together.                            *)

\* Only accepted names are stored, every path in the folder is that of a name
\* which was answered for it last, and nothing else is there.
AccessInv ==
  /\ name \in RawNames
  /\ incoming \in FileNames \cup {Unsafe}
  /\ Unsafe \notin DOMAIN shown
  /\ incoming # Unsafe => SafeJoin(incoming) # Unsafe
  /\ DOMAIN answered \subseteq FileNames
  /\ DOMAIN shown = {SafeJoin(n) : n \in DOMAIN answered}
  /\ \A path \in DOMAIN shown :
       /\ shown[path] \in Versions
       /\ \E n \in DOMAIN answered : SafeJoin(n) = path /\ answered[n] = shown[path]

\* The folder is empty of uploads in the beginning.
LEMMA InitAccessInv == AccessInit => Init /\ AccessInv
  BY DownloadAssumption DEF AccessInit, Init, AccessInv

\* What is looked up is something that was stored, or nothing.
LEMMA LookupOK ==
  ASSUME AccessInv, NEW relative
  PROVE  Lookup(shown, relative) \in Versions \cup {Nothing}
  BY DEF AccessInv, Lookup

\* Every upload, removal and click keeps the folder in order.
LEMMA NextAccessInv == AccessInv /\ [AccessNext]_accessVars => AccessInv'
<1> SUFFICES ASSUME AccessInv, [AccessNext]_accessVars PROVE AccessInv'
  OBVIOUS
<1> USE DEF AccessInv
<1>1. ASSUME NEW raw \in {name} \cup OtherNames, Begin(raw) PROVE AccessInv'
  <2>1. raw \in Seq(Items)
    BY AccessAssumption
  <2>2. SanitizeFilename(raw) \in FileNames \cup {Unsafe}
    BY <2>1, SanitizeOK
  <2> QED
    BY <1>1, <2>2 DEF Begin
<1>2. ASSUME NEW v \in Versions, Store(v) PROVE AccessInv'
  <2> DEFINE there == SafeJoin(incoming)
  <2>1. /\ incoming \in FileNames /\ incoming' = Unsafe /\ name' = name
        /\ answered' = With(answered, incoming, v)
        /\ shown' = With(shown, there, v)
    BY <1>2 DEF Store, Put
  <2>2. /\ DOMAIN answered' = DOMAIN answered \cup {incoming}
        /\ \A n \in DOMAIN answered' : answered'[n] = IF n = incoming THEN v ELSE answered[n]
    BY <2>1 DEF With
  <2> HIDE DEF there
  <2>3. /\ DOMAIN shown' = DOMAIN shown \cup {there}
        /\ \A p \in DOMAIN shown' : shown'[p] = IF p = there THEN v ELSE shown[p]
    BY <2>1 DEF With
  <2>4. DOMAIN shown' = {SafeJoin(n) : n \in DOMAIN answered'}
    BY <2>2, <2>3 DEF there
  <2>5. ASSUME NEW p \in DOMAIN shown'
        PROVE  /\ shown'[p] \in Versions
               /\ \E n \in DOMAIN answered' : SafeJoin(n) = p /\ answered'[n] = shown'[p]
    <3>1. CASE p = there
      BY <2>2, <2>3, <3>1 DEF there
    <3>2. CASE p # there
      <4>1. p \in DOMAIN shown /\ shown'[p] = shown[p]
        BY <2>3, <3>2
      <4>2. PICK n \in DOMAIN answered : SafeJoin(n) = p /\ answered[n] = shown[p]
        BY <4>1
      <4>3. n # incoming
        BY <3>2, <4>2 DEF there
      <4> QED
        BY <2>2, <4>1, <4>2, <4>3
    <3> QED
      BY <3>1, <3>2
  <2>6. Unsafe \notin DOMAIN shown'
    BY <1>2, <2>3 DEF Store, there
  <2> QED
    BY <2>1, <2>2, <2>4, <2>5, <2>6
<1>3. CASE Discard
  BY <1>3 DEF Discard
<1>4. ASSUME NEW path \in DOMAIN shown, Delete(path) PROVE AccessInv'
  <2>1. /\ answered' = [n \in {m \in DOMAIN answered : SafeJoin(m) # path} |-> answered[n]]
        /\ shown' = [p \in DOMAIN shown \ {path} |-> shown[p]]
        /\ UNCHANGED <<incoming, name>>
    BY <1>4 DEF Delete, Put, Restrict
  <2>2. DOMAIN shown' = {SafeJoin(n) : n \in DOMAIN answered'}
    BY <2>1
  <2>3. ASSUME NEW p \in DOMAIN shown'
        PROVE  /\ shown'[p] \in Versions
               /\ \E n \in DOMAIN answered' : SafeJoin(n) = p /\ answered'[n] = shown'[p]
    BY <2>1
  <2> QED
    BY <2>1, <2>2, <2>3
<1>5. CASE Click
  BY <1>5 DEF Click, uploads
<1>6. CASE DownloadStep
  BY <1>6 DEF DownloadStep, Kept, uploads
<1>7. CASE UNCHANGED accessVars
  BY <1>7 DEF accessVars, uploads
<1> QED
  BY <1>1, <1>2, <1>3, <1>4, <1>5, <1>6, <1>7 DEF AccessNext

\* The invariant holds of every behaviour.
THEOREM AccessInvHolds == AccessSpec => []AccessInv
<1>1. AccessInit => AccessInv
  BY InitAccessInv
<1> QED
  BY <1>1, NextAccessInv, PTL DEF AccessSpec

\* Storing and removing files, and clicking on one, are changes of what stands
\* under the name to a download (handler.go:283-307, script.js:309-424).
THEOREM AccessImplements == AccessSpec => Spec
<1>1. AccessInit => Init
  BY InitAccessInv
<1>2. AccessInv /\ AccessInv' /\ [AccessNext]_accessVars => [Next]_downloadVars
  <2> SUFFICES ASSUME AccessInv, AccessInv', [AccessNext]_accessVars
               PROVE  [Next]_downloadVars
    OBVIOUS
  <2>1. ASSUME NEW files, NEW relative, Change(Lookup(files, relative)),
               Lookup(files, relative) \in Versions \cup {Nothing}
        PROVE  Next
    BY <2>1 DEF Next
  <2>2. ASSUME NEW v \in Versions, Store(v) PROVE Next
    <3>1. Change(Lookup(shown', asked)) /\ asked' = asked
      BY <2>2 DEF Store, Put
    <3>2. Lookup(shown', asked) \in Versions \cup {Nothing}
      BY DEF AccessInv, Lookup
    <3> QED
      BY <2>1, <3>1, <3>2
  <2>3. ASSUME NEW path \in DOMAIN shown, Delete(path) PROVE Next
    <3>1. Change(Lookup(shown', asked))
      BY <2>3 DEF Delete, Put
    <3>2. Lookup(shown', asked) \in Versions \cup {Nothing}
      BY DEF AccessInv, Lookup
    <3> QED
      BY <2>1, <3>1, <3>2
  <2>4. CASE Click
    BY <2>1, <2>4, LookupOK DEF Click
  <2>5. CASE DownloadStep
    BY <2>5 DEF DownloadStep, Next
  <2>6. ASSUME NEW raw \in {name} \cup OtherNames, Begin(raw) PROVE UNCHANGED downloadVars
    BY <2>6 DEF Begin
  <2>7. CASE Discard \/ UNCHANGED accessVars
    BY <2>7 DEF Discard, accessVars
  <2> QED
    BY <2>2, <2>3, <2>4, <2>5, <2>6, <2>7 DEF AccessNext
<1> QED
  BY <1>1, <1>2, AccessInvHolds, PTL DEF AccessSpec, Spec

\* So a file that the user clicked on and that is reported as saved is whole,
\* whatever was uploaded or removed under whatever name meanwhile.
THEOREM ClickedFaithful == AccessSpec => []SavedFaithful
  BY AccessImplements, DownloadFaithful, PTL

\* No name, however long and however often escaped, is served from or written
\* to a place outside the shared folder (share.go:61-89).
THEOREM PathsStayBelow == AccessSpec => []StaysBelow
<1>1. AccessInv => StaysBelow
  <2> SUFFICES ASSUME AccessInv, NEW path \in DOMAIN shown \cup {SafeJoin(name)},
                      NEW i \in DOMAIN path
               PROVE  path[i] \notin {<<>>, <<Dot>>, <<Dot, Dot>>} /\ ~Contains(path[i], Slash)
    BY DEF StaysBelow, AccessInv
  <2>1. PICK n \in Seq(Items) : path = SafeJoin(n)
    BY AccessAssumption, FileNamesGood DEF AccessInv
  <2>2. path[i] \in PathSegments
    BY <2>1, SafeJoinOK
  <2>3. path[i] \in Seq(Items \ {Slash})
    BY <2>2 DEF PathSegments, Unslashed
  <2> QED
    BY <2>2, <2>3 DEF PathSegments, Contains
<1> QED
  BY <1>1, AccessInvHolds, PTL

\* What is answered for an upload, what is listed and what is found again are
\* the same names, unless one looks like an escape (handler.go:216-307,
\* share.go:91-106).
THEOREM NamesAgree == AccessSpec => []PlainNamesAgree
<1>1. AccessInv => PlainNamesAgree
  <2> SUFFICES ASSUME AccessInv, \A n \in DOMAIN answered : Plain(n)
               PROVE  /\ Listed \ {Temporary} = DOMAIN answered
                      /\ \A n \in DOMAIN answered :
                           Lookup(shown, Decode(Encode(n))) = answered[n]
    BY DEF PlainNamesAgree
  <2>1. \A n \in DOMAIN answered : n \in FileNames /\ n \in Seq(Items) /\ SafeJoin(n) = <<n>>
    BY PlainPath, FileNamesGood DEF AccessInv
  <2>2. DOMAIN shown = {<<n>> : n \in DOMAIN answered}
    BY <2>1 DEF AccessInv
  <2>3. \A n \in DOMAIN answered : answered[n] = shown[<<n>>]
    <3> TAKE n \in DOMAIN answered
    <3>1. <<n>> \in DOMAIN shown
      BY <2>2
    <3>2. PICK m \in DOMAIN answered : SafeJoin(m) = <<n>> /\ answered[m] = shown[<<n>>]
      BY <3>1 DEF AccessInv
    <3>3. m = n
      BY <2>1, <3>2
    <3> QED
      BY <3>2, <3>3
  <2>4. Temporary \notin DOMAIN answered
    <3>1. <<"mizban-upload", 0>> \notin Items
      <4>1. "mizban-upload" \notin {c[1] : c \in Characters}
        BY DEF Characters, X, Dot, Slash, Backslash, Percent
      <4> QED
        BY <4>1 DEF Items
    <3>2. Temporary \notin Seq(Items)
      <4>1. \A n \in Seq(Items) : Len(n) = 2 => n[2] \in Items
        OBVIOUS
      <4>2. ASSUME NEW a, NEW b, b \notin Items PROVE <<a, b>> \notin Seq(Items)
        <5>1. Len(<<a, b>>) = 2 /\ <<a, b>>[2] = b
          OBVIOUS
        <5> QED
          BY <4>1, <4>2, <5>1
      <4> QED
        BY <3>1, <4>2 DEF Temporary
    <3> QED
      BY <2>1, <3>2
  <2>5. Listed \ {Temporary} = DOMAIN answered
    <3>1. \A n : Len(<<n>>) = 1 /\ <<n>>[1] = n
      OBVIOUS
    <3>2. {p \in DOMAIN shown : Len(p) = 1} = {<<n>> : n \in DOMAIN answered}
      BY <2>2, <3>1
    <3>3. {path[1] : path \in {<<n>> : n \in DOMAIN answered}} = DOMAIN answered
      BY <3>1
    <3> QED
      BY <2>4, <3>2, <3>3 DEF Listed
  <2>6. \A n \in DOMAIN answered : Lookup(shown, Decode(Encode(n))) = answered[n]
    BY <2>1, <2>2, <2>3, DecodeEncode DEF Lookup
  <2> QED
    BY <2>5, <2>6
<1> QED
  BY <1>1, AccessInvHolds, PTL
=============================================================================

--------------------------- MODULE UploadGeometry ---------------------------
(***************************************************************************)
(* The arithmetic of chunked uploads in internal/server/upload_sessions.go *)
(* on its own: how limits and requested sizes are normalized, how a file   *)
(* of size bytes is cut into chunks, which (index, offset, length) a       *)
(* WriteChunk accepts and which bytes of the pre-sized file it then        *)
(* touches.  One session at a time; what requests do to each other is the  *)
(* subject of UploadManager.                                               *)
(***************************************************************************)
EXTENDS Integers, FiniteSets

CONSTANTS
  MinChunk,      \* 256 KiB in the code
  DefaultChunk,  \* 4 MiB
  LargestChunk,  \* 64 MiB
  HardLimit,     \* 100 GiB
  MaxInt64,
  Requested      \* the numbers a client or an administrator sends

ASSUME GeometryAssumption ==
  /\ MinChunk \in Nat \ {0} /\ DefaultChunk \in Nat /\ LargestChunk \in Nat
  /\ MinChunk <= DefaultChunk /\ DefaultChunk <= LargestChunk
  /\ HardLimit \in Nat \ {0} /\ MaxInt64 \in Nat
  /\ HardLimit + LargestChunk <= MaxInt64
  /\ Requested \subseteq Int

VARIABLES
  maxFile, chunkSize,   \* the limits of UploadManager
  size, cut, total,     \* of the session: size, chunkSize, totalChunks
  asked,                \* the chunk size its Init asked for
  complete, received,   \* its chunks in state "complete", and receivedCount
  touched,              \* <<byte, index>>: a WriteChunk of index wrote byte
  phase                 \* of the session: none, open or sealed

limits   == <<maxFile, chunkSize>>
geometry == <<size, cut, total, asked>>
progress == <<complete, received, touched>>
geometryVars == <<limits, geometry, progress, phase>>

-----------------------------------------------------------------------------
BugNormalizeChunkSize(v) == IF v <= 0 THEN DefaultChunk ELSE v
NormalizeChunkSize(v) ==
  LET w == IF v <= 0 THEN DefaultChunk ELSE v IN
  IF w < MinChunk THEN MinChunk ELSE IF w > LargestChunk THEN LargestChunk ELSE w

BugNormalizeMaxFile(v) == IF v <= 0 THEN HardLimit ELSE v
NormalizeMaxFile(v) == IF v <= 0 \/ v > HardLimit THEN HardLimit ELSE v

BugTotalChunks(n, cs) == n \div cs
TotalChunks(n, cs) == (n + cs - 1) \div cs

BugExpectedChunkSize(n, cs, i) == cs
ExpectedChunkSize(n, cs, i) ==
  LET remaining == n - i * cs IN IF remaining < cs THEN remaining ELSE cs

InRange(i) == i >= 0 /\ i < total

BugRightOffset(i, offset) == offset >= 0 /\ offset < size
RightOffset(i, offset) == offset = i * cut

RightLength(i, len) == len = ExpectedChunkSize(size, cut, i)

Accepts(i, offset, len) ==
  /\ len > 0
  /\ InRange(i) /\ RightOffset(i, offset) /\ RightLength(i, len)

-----------------------------------------------------------------------------
Init ==
  /\ maxFile \in {NormalizeMaxFile(v) : v \in Requested}
  /\ chunkSize \in {NormalizeChunkSize(v) : v \in Requested}
  /\ size = 0 /\ cut = 0 /\ total = 0 /\ asked = 0
  /\ complete = {} /\ received = 0 /\ touched = {}
  /\ phase = "none"

UpdateLimits(v, w) ==
  /\ maxFile' = NormalizeMaxFile(v)
  /\ chunkSize' = NormalizeChunkSize(w)
  /\ UNCHANGED <<geometry, progress, phase>>

\* UploadManager.Init with a size n and a chunk size cs, which may be absent
\* (not positive).  A request with a bad size changes nothing.
Open(n, cs) ==
  LET granted == NormalizeChunkSize(IF cs <= 0 THEN chunkSize ELSE cs) IN
  /\ phase = "none"
  /\ n > 0 /\ n <= maxFile
  /\ TotalChunks(n, granted) > 0
  /\ size' = n /\ cut' = granted /\ total' = TotalChunks(n, granted)
  /\ asked' = cs
  /\ phase' = "open"
  /\ UNCHANGED <<limits, progress>>

Touch(i, offset, len) == {<<b, i>> : b \in offset .. offset + len - 1}

\* The body of an accepted request arrives whole.
WriteChunk(i, offset, len) ==
  /\ phase = "open" /\ Accepts(i, offset, len)
  /\ i \notin complete
  /\ touched' = touched \cup Touch(i, offset, len)
  /\ complete' = complete \cup {i}
  /\ received' = received + 1
  /\ UNCHANGED <<limits, geometry, phase>>

\* It breaks off after some bytes; the chunk stays pending.
WriteBreaksOff(i, offset, len) ==
  /\ phase = "open" /\ Accepts(i, offset, len)
  /\ i \notin complete
  /\ \E written \in 0 .. len - 1 : touched' = touched \cup Touch(i, offset, written)
  /\ UNCHANGED <<limits, geometry, complete, received, phase>>

BugMissing == total - received - 1
Missing == total - received

Complete ==
  /\ phase = "open" /\ ~(Missing > 0)
  /\ phase' = "sealed"
  /\ UNCHANGED <<limits, geometry, progress>>

\* The session leaves the map; the next one starts afresh.
Close ==
  /\ phase \in {"open", "sealed"}
  /\ size' = 0 /\ cut' = 0 /\ total' = 0 /\ asked' = 0
  /\ complete' = {} /\ received' = 0 /\ touched' = {}
  /\ phase' = "none"
  /\ UNCHANGED limits

\* Requests outside these ranges are refused whatever the session is.
Indexes == -1 .. HardLimit
Offsets == -1 .. HardLimit
Lengths == 0 .. LargestChunk

Next ==
  \/ \E v, w \in Requested : UpdateLimits(v, w) \/ Open(v, w)
  \/ \E i \in Indexes, offset \in Offsets, len \in Lengths :
       WriteChunk(i, offset, len) \/ WriteBreaksOff(i, offset, len)
  \/ Complete \/ Close

Spec == Init /\ [][Next]_geometryVars

-----------------------------------------------------------------------------
TypeOK ==
  /\ maxFile \in 1 .. HardLimit /\ chunkSize \in MinChunk .. LargestChunk
  /\ phase \in {"none", "open", "sealed"}
  /\ size \in 0 .. HardLimit /\ total \in 0 .. HardLimit
  /\ cut \in {0} \cup (MinChunk .. LargestChunk) /\ asked \in Requested \cup {0}
  /\ complete \subseteq Nat /\ received \in Nat
  /\ touched \subseteq (0 .. HardLimit - 1) \X Nat

\* No two chunks ever write the same byte, so that concurrent WriteChunks of
\* different chunks cannot overwrite each other's data, and none writes
\* beyond the size the file was given.
WritesDisjoint ==
  \A t, u \in touched : t[1] < size /\ (t[1] = u[1] => t[2] = u[2])

\* A sealed upload has every one of its bytes written.
SealedFilled ==
  phase = "sealed" => \A b \in 0 .. size - 1 : \E i \in complete : <<b, i>> \in touched

\* The client of web/script.js slices the file by the chunk size Init has
\* answered: every one of its total_chunks slices is accepted, and together
\* they are as many as it would count itself - also after the administrator
\* has changed the limits in between.
ClientSlicesAccepted ==
  phase = "open" =>
    /\ \A i \in 0 .. total - 1 :
         LET start == i * cut
             end   == IF size < start + cut THEN size ELSE start + cut
         IN  Accepts(i, start, end - start)
    /\ size <= total * cut /\ (total - 1) * cut < size

\* With the limits of the code, no sum or product that Init and WriteChunk
\* compute for a session leaves the range of int64.
NoOverflow ==
  phase = "open" =>
    /\ size + cut - 1 <= MaxInt64
    /\ \A i \in 0 .. total - 1 : i * cut <= MaxInt64

-----------------------------------------------------------------------------
(* The strengthening that makes the invariants above inductive.            *)

\* An open session keeps the geometry its Init has computed.
SessionGeometry ==
  IF phase = "none"
  THEN size = 0 /\ cut = 0 /\ total = 0 /\ complete = {} /\ touched = {}
  ELSE size > 0 /\ cut # 0 /\ total = TotalChunks(size, cut)

\* A chunk touches its own interval of the file and nothing else ...
TouchedWithin ==
  \A t \in touched :
    /\ t[2] \in 0 .. total - 1
    /\ t[2] * cut <= t[1] /\ t[1] < t[2] * cut + cut /\ t[1] < size

\* ... and all of it, once it is complete.
CompleteFilled ==
  \A i \in complete :
    /\ i \in 0 .. total - 1
    /\ \A b \in i * cut .. i * cut + ExpectedChunkSize(size, cut, i) - 1 : <<b, i>> \in touched

Counted == IsFiniteSet(complete) /\ received = Cardinality(complete)

SealedReceived == phase = "sealed" => received >= total

GeometryInv ==
  TypeOK /\ SessionGeometry /\ TouchedWithin /\ CompleteFilled /\ Counted /\ SealedReceived

-----------------------------------------------------------------------------
\* upload_sessions_test.go:66-74: an Init that asks for 4-byte chunks is
\* followed by 4-byte chunks.
RequestedChunksAccepted ==
  phase = "open" /\ asked > 0 =>
    \A i \in 0 .. size \div asked :
      i * asked + asked <= size => Accepts(i, i * asked, asked)
=============================================================================

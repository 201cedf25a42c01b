------------------------ MODULE UploadGeometryProofs ------------------------
(***************************************************************************)
(* The geometry of chunked uploads for every file size, every chunk size   *)
(* and every value of the limits.                                          *)
(***************************************************************************)
EXTENDS UploadGeometry, FiniteSetTheorems, TLAPS

USE DEF geometryVars, limits, geometry, progress

-----------------------------------------------------------------------------
(* Cutting n bytes into chunks of cs bytes.                                *)

\* What division rounds to.
LEMMA Division ==
  ASSUME NEW n \in Nat, NEW d \in Nat \ {0}
  PROVE  /\ n \div d \in Nat
         /\ (n \div d) * d <= n /\ n < (n \div d) * d + d
  BY SMTT(30)

\* A chunk ends where or before the next one starts.
LEMMA ChunkOrder ==
  ASSUME NEW i \in Nat, NEW j \in Nat, NEW d \in Nat, i < j
  PROVE  i * d + d <= j * d
<1>1. PICK k \in Nat : j = i + 1 + k
  <2>1. j - i - 1 \in Nat /\ j = i + 1 + (j - i - 1)
    OBVIOUS
  <2> QED
    BY <2>1
<1>2. k * d \in Nat /\ i * d \in Nat
  OBVIOUS
<1>3. j * d = i * d + d + k * d
  BY <1>1, SMTT(30)
<1> QED
  BY <1>2, <1>3

\* TotalChunks chunks cover the file, and one less would not.
LEMMA TotalCovers ==
  ASSUME NEW n \in Nat \ {0}, NEW d \in Nat \ {0}
  PROVE  /\ TotalChunks(n, d) \in Nat \ {0}
         /\ n <= TotalChunks(n, d) * d
         /\ (TotalChunks(n, d) - 1) * d < n
<1> DEFINE m == n + d - 1  t == m \div d
<1>1. m \in Nat
  OBVIOUS
<1>2. t \in Nat /\ t * d <= m /\ m < t * d + d
  BY <1>1, Division
<1> HIDE DEF t
<1>3. t # 0
  BY <1>2, SMTT(30)
<1>4. (t - 1) * d = t * d - d
  BY <1>2, SMTT(30)
<1>5. t * d \in Nat
  BY <1>2
<1>6. t = TotalChunks(n, d)
  BY DEF t, TotalChunks
<1> QED
  BY <1>2, <1>3, <1>4, <1>5, <1>6

\* There are no more chunks than bytes.
LEMMA TotalBounded ==
  ASSUME NEW n \in Nat \ {0}, NEW d \in Nat \ {0}
  PROVE  TotalChunks(n, d) \in 1 .. n
<1> DEFINE t == TotalChunks(n, d)
<1>1. t \in Nat \ {0} /\ (t - 1) * d < n
  BY TotalCovers
<1> HIDE DEF t
<1>2. t - 1 <= (t - 1) * d
  BY <1>1, SMTT(30)
<1>3. (t - 1) * d \in Int
  BY <1>1
<1>4. t \in 1 .. n
  BY <1>1, <1>2, <1>3
<1> QED
  BY <1>4 DEF t

\* Every chunk starts inside the file and has at least one byte.
LEMMA ChunkNotEmpty ==
  ASSUME NEW n \in Nat \ {0}, NEW d \in Nat \ {0}, NEW i \in 0 .. TotalChunks(n, d) - 1
  PROVE  /\ i * d \in Nat /\ i * d < n
         /\ ExpectedChunkSize(n, d, i) \in 1 .. d
         /\ i * d + ExpectedChunkSize(n, d, i) <= n
<1> DEFINE t == TotalChunks(n, d)
<1>1. t \in Nat \ {0} /\ (t - 1) * d < n
  BY TotalCovers
<1> HIDE DEF t
<1>2. i \in Nat /\ i <= t - 1
  BY <1>1 DEF t
<1>3. i * d \in Nat /\ (t - 1) * d \in Nat
  BY <1>1, <1>2
<1>4. i * d <= (t - 1) * d
  <2>1. CASE i = t - 1
    BY <2>1, <1>3
  <2>2. CASE i < t - 1
    BY <2>2, <1>1, <1>2, <1>3, ChunkOrder
  <2> QED
    BY <1>1, <1>2, <2>1, <2>2
<1>5. i * d < n
  BY <1>1, <1>3, <1>4
<1> QED
  BY <1>3, <1>5 DEF ExpectedChunkSize

\* The chunk that holds byte b is one of them.
LEMMA ByteHasChunk ==
  ASSUME NEW n \in Nat \ {0}, NEW d \in Nat \ {0}, NEW b \in 0 .. n - 1
  PROVE  \E i \in 0 .. TotalChunks(n, d) - 1 :
           b \in i * d .. i * d + ExpectedChunkSize(n, d, i) - 1
<1> DEFINE t == TotalChunks(n, d)  i == b \div d
<1>1. t \in Nat \ {0} /\ n <= t * d
  BY TotalCovers
<1>2. i \in Nat /\ i * d <= b /\ b < i * d + d
  BY Division
<1> HIDE DEF t, i
<1>3. i * d \in Nat /\ t * d \in Nat
  BY <1>1, <1>2
<1>4. i < t
  <2>1. CASE t < i
    BY <2>1, <1>1, <1>2, <1>3, ChunkOrder
  <2>2. CASE t = i
    BY <2>2, <1>1, <1>2, <1>3
  <2> QED
    BY <2>1, <2>2, <1>1, <1>2
<1>5. b \in i * d .. i * d + ExpectedChunkSize(n, d, i) - 1
  BY <1>2, <1>3 DEF ExpectedChunkSize
<1> QED
  BY <1>1, <1>2, <1>4, <1>5 DEF t

-----------------------------------------------------------------------------
(* The invariant.                                                          *)

\* Whatever is asked for, the limits and the granted chunk size are in range.
LEMMA NormalizedInRange ==
  ASSUME NEW v \in Int
  PROVE  /\ NormalizeChunkSize(v) \in MinChunk .. LargestChunk
         /\ NormalizeMaxFile(v) \in 1 .. HardLimit
  BY GeometryAssumption DEF NormalizeChunkSize, NormalizeMaxFile

\* What an open session is made of.
LEMMA SessionFacts ==
  ASSUME TypeOK, SessionGeometry, phase # "none"
  PROVE  /\ size \in Nat \ {0} /\ cut \in Nat \ {0} /\ total \in Nat \ {0}
         /\ total = TotalChunks(size, cut)
<1>1. size \in Nat \ {0} /\ cut \in Nat \ {0} /\ total = TotalChunks(size, cut)
  BY GeometryAssumption DEF TypeOK, SessionGeometry
<1> QED
  BY <1>1, TotalCovers

\* The bytes of an accepted chunk belong to it and lie in the file.
LEMMA TouchWithin ==
  ASSUME TypeOK, SessionGeometry, phase # "none", NEW i \in Indexes, NEW offset \in Offsets,
         NEW len \in Lengths, Accepts(i, offset, len), NEW written \in 0 .. len,
         NEW t \in Touch(i, offset, written)
  PROVE  /\ t[2] \in 0 .. total - 1 /\ t \in (0 .. HardLimit - 1) \X Nat
         /\ t[2] * cut <= t[1] /\ t[1] < t[2] * cut + cut /\ t[1] < size
<1>1. i \in 0 .. total - 1 /\ offset = i * cut /\ len = ExpectedChunkSize(size, cut, i)
  BY SessionFacts, GeometryAssumption DEF Accepts, InRange, RightOffset, RightLength, Indexes
<1>2. /\ i * cut \in Nat
      /\ ExpectedChunkSize(size, cut, i) \in 1 .. cut
      /\ i * cut + ExpectedChunkSize(size, cut, i) <= size
  BY <1>1, SessionFacts, ChunkNotEmpty
<1>3. PICK b \in offset .. offset + written - 1 : t = <<b, i>>
  BY DEF Touch
<1>4. b \in Nat /\ b >= i * cut /\ b < i * cut + cut /\ b < size
  BY <1>1, <1>2, <1>3, SessionFacts
<1>5. size <= HardLimit /\ HardLimit \in Nat
  BY GeometryAssumption DEF TypeOK
<1>6. t[1] = b /\ t[2] = i
  BY <1>3
<1>7. b \in 0 .. HardLimit - 1 /\ i \in Nat
  BY <1>1, <1>4, <1>5, SessionFacts
<1> QED
  BY <1>1, <1>3, <1>4, <1>6, <1>7

\* Nothing is open at the start.
LEMMA InitGeometryInv == Init => GeometryInv
<1> SUFFICES ASSUME Init PROVE GeometryInv
  OBVIOUS
<1>1. TypeOK
  BY NormalizedInRange, GeometryAssumption DEF Init, TypeOK
<1>2. Counted
  BY FS_EmptySet DEF Init, Counted
<1> QED
  BY <1>1, <1>2
     DEF Init, GeometryInv, SessionGeometry, TouchedWithin, CompleteFilled, SealedReceived

\* A new session has the geometry of its request or of the limits.
LEMMA OpenKeeps ==
  ASSUME GeometryInv, NEW n \in Requested, NEW cs \in Requested, Open(n, cs)
  PROVE  GeometryInv'
<1> USE GeometryAssumption DEF GeometryInv
<1> DEFINE granted == NormalizeChunkSize(IF cs <= 0 THEN chunkSize ELSE cs)
<1>1. n \in 1 .. HardLimit /\ granted \in MinChunk .. LargestChunk
  BY NormalizedInRange DEF Open, TypeOK
<1>2. size' = n /\ cut' = granted /\ total' = TotalChunks(n, granted)
  BY DEF Open
<1> HIDE DEF granted
<1>3. TotalChunks(n, granted) \in 1 .. n
  BY <1>1, TotalBounded
<1>4. TypeOK'
  BY <1>1, <1>2, <1>3 DEF Open, TypeOK
<1>5. SessionGeometry'
  BY <1>1, <1>2 DEF Open, SessionGeometry, TypeOK
<1>6. TouchedWithin' /\ CompleteFilled'
  BY DEF Open, SessionGeometry, TouchedWithin, CompleteFilled
<1>7. Counted' /\ SealedReceived'
  BY DEF Open, Counted, SealedReceived
<1> QED
  BY <1>4, <1>5, <1>6, <1>7

\* A write that arrives whole fills its chunk.
LEMMA WriteKeeps ==
  ASSUME GeometryInv, NEW i \in Indexes, NEW offset \in Offsets, NEW len \in Lengths,
         WriteChunk(i, offset, len)
  PROVE  GeometryInv'
<1> USE GeometryAssumption DEF GeometryInv
<1>1. /\ phase = "open" /\ Accepts(i, offset, len) /\ i \notin complete
      /\ touched' = touched \cup Touch(i, offset, len)
      /\ complete' = complete \cup {i} /\ received' = received + 1
      /\ UNCHANGED <<limits, geometry, phase>>
  BY DEF WriteChunk
<1>2. i \in 0 .. total - 1 /\ offset = i * cut /\ len = ExpectedChunkSize(size, cut, i)
  BY <1>1, SessionFacts DEF Accepts, InRange, RightOffset, RightLength, Indexes
<1>3. len \in Nat /\ len \in 0 .. len
  BY DEF Lengths
<1>4. \A t \in Touch(i, offset, len) :
        /\ t[2] \in 0 .. total - 1 /\ t \in (0 .. HardLimit - 1) \X Nat
        /\ t[2] * cut <= t[1] /\ t[1] < t[2] * cut + cut /\ t[1] < size
  BY <1>1, <1>3, TouchWithin
<1>5. TypeOK'
  BY <1>1, <1>2, <1>4, SessionFacts DEF TypeOK
<1>6. SessionGeometry'
  BY <1>1 DEF SessionGeometry
<1>7. TouchedWithin'
  BY <1>1, <1>4 DEF TouchedWithin
<1>8. \A b \in i * cut .. i * cut + ExpectedChunkSize(size, cut, i) - 1 : <<b, i>> \in touched'
  BY <1>1, <1>2 DEF Touch
<1>9. CompleteFilled'
  BY <1>1, <1>2, <1>8 DEF CompleteFilled
<1>10. Counted'
  BY <1>1, FS_AddElement DEF Counted
<1>11. SealedReceived'
  BY <1>1 DEF SealedReceived
<1> QED
  BY <1>5, <1>6, <1>7, <1>9, <1>10, <1>11

\* A write that breaks off touches no byte of another chunk.
LEMMA BrokenWriteKeeps ==
  ASSUME GeometryInv, NEW i \in Indexes, NEW offset \in Offsets, NEW len \in Lengths,
         WriteBreaksOff(i, offset, len)
  PROVE  GeometryInv'
<1> USE GeometryAssumption DEF GeometryInv
<1>1. PICK written \in 0 .. len - 1 : touched' = touched \cup Touch(i, offset, written)
  BY DEF WriteBreaksOff
<1>2. /\ phase = "open" /\ Accepts(i, offset, len)
      /\ UNCHANGED <<limits, geometry, complete, received, phase>>
  BY DEF WriteBreaksOff
<1>3. written \in 0 .. len
  BY DEF Lengths
<1>4. \A t \in Touch(i, offset, written) :
        /\ t[2] \in 0 .. total - 1 /\ t \in (0 .. HardLimit - 1) \X Nat
        /\ t[2] * cut <= t[1] /\ t[1] < t[2] * cut + cut /\ t[1] < size
  BY <1>2, <1>3, TouchWithin
<1>5. TypeOK'
  BY <1>1, <1>2, <1>4 DEF TypeOK
<1>6. TouchedWithin'
  BY <1>1, <1>2, <1>4 DEF TouchedWithin
<1>7. SessionGeometry' /\ CompleteFilled'
  BY <1>1, <1>2 DEF SessionGeometry, CompleteFilled
<1>8. Counted' /\ SealedReceived'
  BY <1>2 DEF Counted, SealedReceived
<1> QED
  BY <1>5, <1>6, <1>7, <1>8

\* Every step keeps the invariant.
LEMMA NextGeometryInv == GeometryInv /\ [Next]_geometryVars => GeometryInv'
<1> SUFFICES ASSUME GeometryInv, [Next]_geometryVars PROVE GeometryInv'
  OBVIOUS
<1>1. ASSUME NEW v \in Requested, NEW w \in Requested, UpdateLimits(v, w) PROVE GeometryInv'
  BY <1>1, NormalizedInRange, GeometryAssumption
     DEF UpdateLimits, GeometryInv, TypeOK, SessionGeometry, TouchedWithin, CompleteFilled,
         Counted, SealedReceived
<1>2. ASSUME NEW v \in Requested, NEW w \in Requested, Open(v, w) PROVE GeometryInv'
  BY <1>2, OpenKeeps
<1>3. ASSUME NEW i \in Indexes, NEW offset \in Offsets, NEW len \in Lengths,
             WriteChunk(i, offset, len)
      PROVE  GeometryInv'
  BY <1>3, WriteKeeps
<1>4. ASSUME NEW i \in Indexes, NEW offset \in Offsets, NEW len \in Lengths,
             WriteBreaksOff(i, offset, len)
      PROVE  GeometryInv'
  BY <1>4, BrokenWriteKeeps
<1>5. CASE Complete
  BY <1>5 DEF Complete, Missing, GeometryInv, TypeOK, SessionGeometry, TouchedWithin,
              CompleteFilled, Counted, SealedReceived
<1>6. CASE Close
  BY <1>6, FS_EmptySet, GeometryAssumption
     DEF Close, GeometryInv, TypeOK, SessionGeometry, TouchedWithin, CompleteFilled,
         Counted, SealedReceived
<1>7. CASE UNCHANGED geometryVars
  BY <1>7 DEF GeometryInv, TypeOK, SessionGeometry, TouchedWithin, CompleteFilled,
              Counted, SealedReceived
<1> QED
  BY <1>1, <1>2, <1>3, <1>4, <1>5, <1>6, <1>7 DEF Next

-----------------------------------------------------------------------------
(* The theorems.                                                           *)

\* The invariant holds in every reachable state.
THEOREM GeometryInvHolds == Spec => []GeometryInv
  BY InitGeometryInv, NextGeometryInv, PTL DEF Spec

\* The limits, and the geometry of a session, are in range whatever a client
\* or an administrator asks for.
THEOREM GeometryTypes == Spec => []TypeOK
<1>1. GeometryInv => TypeOK
  BY DEF GeometryInv
<1> QED
  BY <1>1, GeometryInvHolds, PTL

\* Two chunks never write the same byte, and none writes beyond the file.
THEOREM NoOverlap == Spec => []WritesDisjoint
<1>1. GeometryInv => WritesDisjoint
  <2> SUFFICES ASSUME GeometryInv, NEW t \in touched, NEW u \in touched
               PROVE  t[1] < size /\ (t[1] = u[1] => t[2] = u[2])
    BY DEF WritesDisjoint
  <2>1. /\ t[1] \in Nat /\ t[2] \in Nat /\ u[1] \in Nat /\ u[2] \in Nat
        /\ cut \in Nat
    BY GeometryAssumption DEF GeometryInv, TypeOK
  <2>2. /\ t[2] * cut <= t[1] /\ t[1] < t[2] * cut + cut /\ t[1] < size
        /\ u[2] * cut <= u[1] /\ u[1] < u[2] * cut + cut
    BY DEF GeometryInv, TouchedWithin
  <2>3. t[2] * cut \in Nat /\ u[2] * cut \in Nat
    BY <2>1
  <2>4. CASE t[2] < u[2]
    <3>1. t[2] * cut + cut <= u[2] * cut
      BY <2>1, <2>4, ChunkOrder
    <3> QED
      BY <2>1, <2>2, <2>3, <3>1
  <2>5. CASE u[2] < t[2]
    <3>1. u[2] * cut + cut <= t[2] * cut
      BY <2>1, <2>5, ChunkOrder
    <3> QED
      BY <2>1, <2>2, <2>3, <3>1
  <2> QED
    BY <2>1, <2>2, <2>4, <2>5
<1> QED
  BY <1>1, GeometryInvHolds, PTL

\* A sealed upload has no hole.
THEOREM NoHole == Spec => []SealedFilled
<1>1. GeometryInv => SealedFilled
  <2> SUFFICES ASSUME GeometryInv, phase = "sealed", NEW b \in 0 .. size - 1
               PROVE  \E i \in complete : <<b, i>> \in touched
    BY DEF SealedFilled
  <2>1. /\ TypeOK /\ SessionGeometry /\ CompleteFilled /\ Counted /\ SealedReceived
    BY DEF GeometryInv
  <2>2. /\ size \in Nat \ {0} /\ cut \in Nat \ {0} /\ total \in Nat \ {0}
        /\ total = TotalChunks(size, cut)
    BY <2>1, SessionFacts
  <2>3. complete \subseteq 0 .. total - 1
    BY <2>1 DEF CompleteFilled
  <2>4. IsFiniteSet(0 .. total - 1) /\ Cardinality(0 .. total - 1) = total
    <3> 0 \in Int /\ total - 1 \in Int /\ ~(0 > total - 1) /\ total - 1 - 0 + 1 = total
      BY <2>2
    <3> QED
      BY FS_Interval
  <2>5. Cardinality(complete) >= total /\ Cardinality(complete) \in Nat
    BY <2>1 DEF Counted, SealedReceived, TypeOK
  <2>6. complete = 0 .. total - 1
    <3>1. Cardinality(complete) <= total
      BY <2>3, <2>4, FS_Subset
    <3>2. Cardinality(complete) = total
      BY <3>1, <2>2, <2>5
    <3> QED
      BY <3>2, <2>3, <2>4, FS_Subset
  <2>7. PICK i \in 0 .. total - 1 : b \in i * cut .. i * cut + ExpectedChunkSize(size, cut, i) - 1
    BY <2>2, ByteHasChunk
  <2> QED
    BY <2>1, <2>6, <2>7 DEF CompleteFilled
<1> QED
  BY <1>1, GeometryInvHolds, PTL

\* The slices of web/script.js are the chunks the server accepts.
THEOREM ClientAgrees == Spec => []ClientSlicesAccepted
<1>1. GeometryInv => ClientSlicesAccepted
  <2> SUFFICES ASSUME GeometryInv, phase = "open"
               PROVE  /\ \A i \in 0 .. total - 1 :
                           Accepts(i, i * cut,
                             (IF size < i * cut + cut THEN size ELSE i * cut + cut) - i * cut)
                      /\ size <= total * cut /\ (total - 1) * cut < size
    BY DEF ClientSlicesAccepted
  <2>1. /\ size \in Nat \ {0} /\ cut \in Nat \ {0} /\ total \in Nat \ {0}
        /\ total = TotalChunks(size, cut)
    BY SessionFacts DEF GeometryInv
  <2>2. size <= total * cut /\ (total - 1) * cut < size
    BY <2>1, TotalCovers
  <2>3. ASSUME NEW i \in 0 .. total - 1
        PROVE  Accepts(i, i * cut,
                 (IF size < i * cut + cut THEN size ELSE i * cut + cut) - i * cut)
    <3>1. i * cut \in Nat /\ i * cut < size /\ i \in Nat /\ i < total
      BY <2>1, ChunkNotEmpty
    <3> QED
      BY <2>1, <3>1 DEF Accepts, InRange, RightOffset, RightLength, ExpectedChunkSize
  <2> QED
    BY <2>2, <2>3
<1> QED
  BY <1>1, GeometryInvHolds, PTL

\* The arithmetic stays within int64.
THEOREM FitsInt64 == Spec => []NoOverflow
<1>1. GeometryInv => NoOverflow
  <2> SUFFICES ASSUME GeometryInv, phase = "open"
               PROVE  /\ size + cut - 1 <= MaxInt64
                      /\ \A i \in 0 .. total - 1 : i * cut <= MaxInt64
    BY DEF NoOverflow
  <2>1. /\ size \in Nat \ {0} /\ cut \in Nat \ {0} /\ total = TotalChunks(size, cut)
    BY SessionFacts DEF GeometryInv
  <2>2. size <= HardLimit /\ cut <= LargestChunk
    BY GeometryAssumption DEF GeometryInv, TypeOK
  <2>3. \A i \in 0 .. total - 1 : i * cut \in Nat /\ i * cut < size
    BY <2>1, ChunkNotEmpty
  <2> QED
    BY <2>1, <2>2, <2>3, GeometryAssumption
<1> QED
  BY <1>1, GeometryInvHolds, PTL
=============================================================================

------------------------ MODULE LimitedBuffer_proofs ------------------------
(***************************************************************************)
(* The promise of the output buffer for every limit, every byte set and    *)
(* every way of cutting the output into chunks, and the length of the text *)
(* that is made of what it retains.                                        *)
(***************************************************************************)
EXTENDS CheckOutput, SequenceTheorems, FiniteSetTheorems, TLAPS

\* A chunk is a finite sequence of bytes.
LEMMA ChunkIsSequence == Chunk \subseteq Seq(Byte)
  BY ChunkAssumption, SeqDef DEF Chunk

\* The part of a chunk that fits is a beginning of it, as long as there is room.
LEMMA FittingProperties ==
  ASSUME TypeOK, NEW chunk \in Seq(Byte)
  PROVE  LET k == IF Len(chunk) > Remaining THEN Remaining ELSE Len(chunk)
         IN  /\ k \in 0 .. Len(chunk) /\ k <= Remaining
             /\ Fitting(chunk) \in Seq(Byte)
             /\ Len(Fitting(chunk)) = k
             /\ \A i \in 1 .. k : Fitting(chunk)[i] = chunk[i]
<1> DEFINE k == IF Len(chunk) > Remaining THEN Remaining ELSE Len(chunk)
<1>1. Len(data) \in Nat /\ Len(chunk) \in Nat /\ Remaining \in Nat
  BY LimitAssumption, LenProperties DEF TypeOK, Remaining
<1>2. k \in 0 .. Len(chunk) /\ k <= Remaining
  BY <1>1
<1>3. \A i \in 1 .. k : chunk[i] \in Byte
  BY <1>1, <1>2, ElementOfSeq
<1>4. /\ SubSeq(chunk, 1, k) \in Seq(Byte)
      /\ Len(SubSeq(chunk, 1, k)) = k
      /\ \A i \in 1 .. k : SubSeq(chunk, 1, k)[i] = chunk[i]
  <2> HIDE DEF k
  <2>1. k \in Nat
    BY <1>1, <1>2
  <2>2. /\ SubSeq(chunk, 1, k) \in Seq(Byte)
        /\ Len(SubSeq(chunk, 1, k)) = IF 1 <= k THEN k - 1 + 1 ELSE 0
        /\ \A i \in 1 .. k - 1 + 1 : SubSeq(chunk, 1, k)[i] = chunk[1 + i - 1]
    BY <1>3, <2>1, SubSeqProperties
  <2> QED BY <2>1, <2>2
<1> QED BY <1>2, <1>4 DEF Fitting

\* A beginning of the offered bytes, element by element.
LEMMA PrefixOf ==
  ASSUME NEW s \in Seq(Byte), NEW n \in 0 .. Len(s)
  PROVE  /\ SubSeq(s, 1, n) \in Seq(Byte)
         /\ Len(SubSeq(s, 1, n)) = n
         /\ \A i \in 1 .. n : SubSeq(s, 1, n)[i] = s[i]
<1>1. n \in Nat /\ Len(s) \in Nat
  BY LenProperties
<1>2. \A i \in 1 .. n : s[i] \in Byte
  BY <1>1, ElementOfSeq
<1>3. /\ SubSeq(s, 1, n) \in Seq(Byte)
      /\ Len(SubSeq(s, 1, n)) = IF 1 <= n THEN n - 1 + 1 ELSE 0
      /\ \A i \in 1 .. n - 1 + 1 : SubSeq(s, 1, n)[i] = s[1 + i - 1]
  BY <1>1, <1>2, SubSeqProperties
<1> QED BY <1>1, <1>3

\* One Write keeps the buffer well formed and a beginning of what was offered.
LEMMA WriteStep ==
  ASSUME TypeOK, RetainsPrefix, NEW chunk \in Seq(Byte), Write(chunk)
  PROVE  TypeOK' /\ RetainsPrefix'
<1> DEFINE k == IF Len(chunk) > Remaining THEN Remaining ELSE Len(chunk)
           f == Fitting(chunk)
<1>1. /\ Len(data) \in Nat /\ Len(offered) \in Nat /\ Len(chunk) \in Nat
      /\ Limit \in Nat /\ Len(data) <= Limit
  BY LimitAssumption, LenProperties DEF TypeOK
<1>2. k \in 0 .. Len(chunk) /\ k <= Remaining /\ f \in Seq(Byte) /\ Len(f) = k
  BY FittingProperties
<1>3. \A i \in 1 .. k : f[i] = chunk[i]
  BY FittingProperties
<1> HIDE DEF f
<1>4. /\ data' \in Seq(Byte) /\ Len(data') = Len(data) + k
      /\ \A i \in 1 .. Len(data) + k :
           data'[i] = IF i <= Len(data) THEN data[i] ELSE f[i - Len(data)]
  <2>1. data' = data \o f /\ data \in Seq(Byte)
    BY DEF TypeOK, Write, f
  <2> HIDE DEF k
  <2> QED BY <1>2, <2>1, ConcatProperties
<1>5. /\ offered' \in Seq(Byte) /\ Len(offered') = Len(offered) + Len(chunk)
      /\ \A i \in 1 .. Len(offered) + Len(chunk) :
           offered'[i] = IF i <= Len(offered) THEN offered[i]
                         ELSE chunk[i - Len(offered)]
  BY ConcatProperties DEF TypeOK, Write
<1>6. TypeOK'
  BY <1>1, <1>2, <1>4, <1>5 DEF TypeOK, Write, Remaining
<1>7. Kept \in 0 .. Len(offered) /\ Len(data) = Kept
  <2>1. Kept \in 0 .. Len(offered)
    BY <1>1 DEF Kept
  <2> QED BY <2>1, PrefixOf DEF TypeOK, RetainsPrefix
<1>8. \A i \in 1 .. Len(data) : data[i] = offered[i]
  BY <1>7, PrefixOf DEF TypeOK, RetainsPrefix
<1>9. Len(data') = Kept' /\ Kept' \in 0 .. Len(offered')
  <2>1. Len(data') = Len(data) + k /\ Len(offered') = Len(offered) + Len(chunk)
    BY <1>4, <1>5
  <2>2. Limit' = Limit
    OBVIOUS
  <2>4. Len(data) = IF Len(offered) > Limit THEN Limit ELSE Len(offered)
    BY <1>7 DEF Kept
  <2>5. Len(data) + k = IF Len(offered) + Len(chunk) > Limit
                        THEN Limit ELSE Len(offered) + Len(chunk)
    <3>1. Remaining = Limit - Len(data)
      BY DEF Remaining
    <3>2. k = IF Len(chunk) > Limit - Len(data) THEN Limit - Len(data)
              ELSE Len(chunk)
      BY <3>1
    <3> HIDE DEF k
    <3>3. Len(data) \in Nat /\ Len(offered) \in Nat /\ Len(chunk) \in Nat
          /\ Limit \in Nat
      BY <1>1
    <3>4. CASE Len(offered) > Limit
      BY <2>4, <3>2, <3>3, <3>4
    <3>5. CASE Len(offered) <= Limit /\ Len(chunk) > Limit - Len(data)
      <4>1. Len(data) = Len(offered)
        BY <2>4, <3>3, <3>5
      <4>2. k = Limit - Len(data)
        BY <3>2, <3>5
      <4>3. Len(offered) + Len(chunk) > Limit /\ Len(data) + k = Limit
        BY <3>3, <3>5, <4>1, <4>2
      <4> QED BY <4>3
    <3>6. CASE Len(offered) <= Limit /\ ~(Len(chunk) > Limit - Len(data))
      <4>1. Len(data) = Len(offered)
        BY <2>4, <3>3, <3>6
      <4>2. k = Len(chunk)
        BY <3>2, <3>6
      <4>3. ~(Len(offered) + Len(chunk) > Limit)
        BY <3>3, <3>6, <4>1
      <4> QED BY <4>1, <4>2, <4>3
    <3> QED BY <3>3, <3>4, <3>5, <3>6
  <2>6. Kept' = IF Len(offered') > Limit THEN Limit ELSE Len(offered')
    BY DEF Kept
  <2>7. Len(data') = Kept'
    BY <2>1, <2>5, <2>6
  <2> HIDE DEF k
  <2>8. Kept' \in 0 .. Len(offered')
    BY <1>1, <2>1, <2>6
  <2> QED BY <2>7, <2>8
<1>10. \A i \in 1 .. Kept' : data'[i] = offered'[i]
  <2> SUFFICES ASSUME NEW i \in 1 .. Kept' PROVE data'[i] = offered'[i]
    OBVIOUS
  <2>1. i \in 1 .. Len(data) + k
    BY <1>4, <1>9
  <2>2. i \in 1 .. Len(offered) + Len(chunk)
    BY <1>1, <1>5, <1>9
  <2>3. CASE i <= Len(data)
    BY <1>1, <1>4, <1>5, <1>7, <1>8, <2>1, <2>2, <2>3
  <2>4. CASE i > Len(data)
    <3>1. k > 0 /\ i - Len(data) \in 1 .. k
      BY <1>1, <1>2, <2>1, <2>4
    <3>2. Len(data) = Len(offered)
      BY <1>1, <1>2, <1>7, <3>1 DEF Kept, Remaining
    <3> QED BY <1>1, <1>3, <1>4, <1>5, <2>1, <2>2, <2>4, <3>1, <3>2
  <2> QED BY <1>1, <2>1, <2>3, <2>4
<1>11. data' = SubSeq(offered', 1, Kept')
  <2> DEFINE t == SubSeq(offered', 1, Kept')
  <2>1. t \in Seq(Byte) /\ Len(t) = Kept' /\ \A i \in 1 .. Kept' : t[i] = offered'[i]
    BY <1>5, <1>9, PrefixOf
  <2> HIDE DEF t
  <2>2. data' = t
    BY <1>4, <1>9, <1>10, <2>1, SeqEqual
  <2> QED BY <2>2 DEF t
<1>12. truncated' <=> Len(offered') > Limit
  <2>1. Len(offered') = Len(offered) + Len(chunk)
    BY <1>5
  <2>2. truncated' <=> truncated \/ Len(chunk) > Remaining
    BY DEF Write
  <2>3. truncated <=> Len(offered) > Limit
    BY DEF RetainsPrefix
  <2>4. Len(offered) > Limit \/ Len(chunk) > Remaining
          <=> Len(offered) + Len(chunk) > Limit
    BY <1>1, <1>7 DEF Kept, Remaining
  <2> QED BY <2>1, <2>2, <2>3, <2>4
<1> QED BY <1>6, <1>11, <1>12 DEF RetainsPrefix

\* The buffer stays well formed and a beginning of what was offered (check.go
\* 211-230).
THEOREM Invariance == Spec => [](TypeOK /\ RetainsPrefix)
<1>1. Init => TypeOK /\ RetainsPrefix
  <2> SUFFICES ASSUME Init PROVE TypeOK /\ RetainsPrefix
    OBVIOUS
  <2>1. <<>> \in Seq(Byte) /\ Len(<<>>) = 0
    BY EmptySeq
  <2>2. Kept = 0 /\ SubSeq(<<>>, 1, 0) = <<>>
    BY <2>1, LimitAssumption, SubSeqEmpty DEF Init, Kept
  <2>3. data = <<>> /\ offered = <<>> /\ truncated = FALSE
    BY DEF Init
  <2>4. TypeOK
    <3>1. data \in Seq(Byte) /\ offered \in Seq(Byte) /\ Len(data) = 0
      BY <2>1, <2>3
    <3>2. Len(data) <= Limit
      BY <3>1, LimitAssumption
    <3>3. truncated \in BOOLEAN
      BY <2>3
    <3> QED BY <3>1, <3>2, <3>3 DEF TypeOK
  <2>5. data = SubSeq(offered, 1, Kept)
    BY <2>2, <2>3
  <2>6. ~(Len(offered) > Limit)
    BY <2>1, <2>3, LimitAssumption
  <2> QED BY <2>3, <2>4, <2>5, <2>6 DEF RetainsPrefix
<1>2. TypeOK /\ RetainsPrefix /\ [Next]_buffer => TypeOK' /\ RetainsPrefix'
  <2> SUFFICES ASSUME TypeOK, RetainsPrefix, [Next]_buffer
               PROVE  TypeOK' /\ RetainsPrefix'
    OBVIOUS
  <2>1. CASE Next
    BY <2>1, ChunkIsSequence, WriteStep DEF Next
  <2>2. CASE UNCHANGED buffer
    BY <2>2 DEF buffer, TypeOK, RetainsPrefix, Kept
  <2> QED BY <2>1, <2>2
<1> QED BY <1>1, <1>2, PTL DEF Spec

\* The retained output is exactly the beginning of what the script wrote, and
\* its truncation is reported exactly when something is missing.
THEOREM Retention == Spec => []RetainsPrefix
  BY Invariance, PTL

-----------------------------------------------------------------------------
(* The length of the text.                                                 *)

\* Two disjoint sets of positions fit beside each other.
LEMMA DisjointPositions ==
  ASSUME NEW n \in Nat, NEW A \in SUBSET (1 .. n), NEW R \in SUBSET (1 .. n),
         A \cap R = {}
  PROVE  /\ Cardinality(A) \in Nat /\ Cardinality(R) \in Nat
         /\ Cardinality(A) + Cardinality(R) <= n
<1>1. IsFiniteSet(1 .. n) /\ Cardinality(1 .. n) = n
  BY FS_Interval
<1>2. IsFiniteSet(A) /\ IsFiniteSet(R) /\ A \cup R \in SUBSET (1 .. n)
  BY <1>1, FS_Subset
<1>3. Cardinality(A \cup R) <= n
  BY <1>1, <1>2, FS_Subset, Zenon
<1>4. Cardinality(A) \in Nat /\ Cardinality(R) \in Nat
  BY <1>2, FS_CardinalityType
<1>5. Cardinality(A \cup R)
        = Cardinality(A) + Cardinality(R) - Cardinality(A \cap R)
  BY <1>2, FS_Union
<1>6. Cardinality(A \cap R) = 0
  BY FS_EmptySet
<1> QED
  BY <1>3, <1>4, <1>5, <1>6

\* Between two runs of invalid bytes lies a byte that is neither invalid nor
\* trimmed: the one before the later run.
LEMMA BetweenRuns ==
  ASSUME NEW S, NEW b \in Seq(S), NEW q \in RunStart(b), NEW r \in RunStart(b), q < r
  PROVE  r - 1 \in (1 .. Len(b)) \ (InvalidAt(b) \cup Trimmed(b))
<1>1. /\ q \in 1 .. Len(b) /\ r \in 1 .. Len(b) /\ Len(b) \in Nat
      /\ b[q] # "space" /\ b[r] # "space" /\ r - 1 \notin InvalidAt(b)
      /\ q \in InvalidAt(b)
  BY LenProperties DEF RunStart, InvalidAt
<1>2. r - 1 \in 1 .. Len(b) /\ q # r - 1
  BY <1>1
<1>3. q \in 1 .. r - 1 /\ r \in r - 1 .. Len(b)
  BY <1>1, <1>2
<1>4. r - 1 \notin Trimmed(b)
  BY <1>1, <1>3 DEF Trimmed
<1> QED
  BY <1>1, <1>2, <1>4

\* Every run of invalid bytes but the first is preceded by such a byte.
LEMMA RunsAndBytes ==
  ASSUME NEW S, NEW b \in Seq(S)
  PROVE  LET A == (1 .. Len(b)) \ (InvalidAt(b) \cup Trimmed(b))
         IN  Cardinality(RunStart(b)) <= Cardinality(A) + 1
<1> DEFINE n == Len(b)
           A == (1 .. n) \ (InvalidAt(b) \cup Trimmed(b))
           R == RunStart(b)
           Later == {r \in R : \E q \in R : q < r}
           before == [r \in Later |-> r - 1]
<1>1. n \in Nat /\ R \in SUBSET (1 .. n) /\ A \in SUBSET (1 .. n)
  BY LenProperties DEF RunStart, InvalidAt
<1>2. \A r \in Later : r - 1 \in A
  BY BetweenRuns
<1> HIDE DEF n, A, R
<1>3. IsFiniteSet(1 .. n)
  BY <1>1, FS_Interval
<1>4. IsFiniteSet(A) /\ IsFiniteSet(R)
  BY <1>1, <1>3, FS_Subset
<1>5. IsFiniteSet(Later) /\ Cardinality(Later) <= Cardinality(A)
  <2>1. \A r \in Later : r \in Int
    BY <1>1
  <2>2. before \in Injection(Later, A)
    BY <1>2, <2>1 DEF Injection, IsInjective
  <2> HIDE DEF before, Later
  <2> QED
    BY <1>4, <2>2, FS_Injection
<1>6. Cardinality(R) <= Cardinality(Later) + 1
  <2>1. CASE R = Later
    <3>1. Cardinality(R) \in Nat
      BY <1>4, FS_CardinalityType
    <3> HIDE DEF Later
    <3> QED
      BY <2>1, <3>1
  <2>2. CASE R # Later
    <3>1. PICK x \in R : x \notin Later
      BY <2>2
    <3>2. \A r \in R : r = x \/ r \in Later
      BY <1>1, <3>1
    <3>3. R = Later \cup {x}
      BY <3>1, <3>2
    <3> HIDE DEF Later
    <3>4. Cardinality(R) = Cardinality(Later) + 1
      BY <1>5, <3>1, <3>3, FS_AddElement
    <3> QED
      BY <1>4, <3>4, FS_CardinalityType
  <2> QED
    BY <2>1, <2>2
<1> HIDE DEF Later
<1>7. Cardinality(R) \in Nat /\ Cardinality(A) \in Nat /\ Cardinality(Later) \in Nat
  BY <1>4, <1>5, FS_CardinalityType
<1>8. Cardinality(R) <= Cardinality(A) + 1
  BY <1>5, <1>6, <1>7
<1> QED
  BY <1>8 DEF n, A, R

\* The text of n bytes has at most 2n + 1.
LEMMA TextBound ==
  ASSUME NEW S, NEW b \in Seq(S)
  PROVE  ReportedLength(b) \in Nat /\ ReportedLength(b) <= 2 * Len(b) + 1
<1> DEFINE n == Len(b)
           A == (1 .. n) \ (InvalidAt(b) \cup Trimmed(b))
           R == RunStart(b)
<1>1. /\ n \in Nat /\ A \in SUBSET (1 .. n) /\ R \in SUBSET (1 .. n)
      /\ A \cap R = {}
  BY LenProperties DEF RunStart, InvalidAt
<1>2. Cardinality(R) <= Cardinality(A) + 1
  BY RunsAndBytes
<1>3. ReportedLength(b) = Cardinality(A) + 3 * Cardinality(R)
  BY DEF ReportedLength, ReplacementLength
<1> HIDE DEF n, A, R
<1>4. /\ Cardinality(A) \in Nat /\ Cardinality(R) \in Nat
      /\ Cardinality(A) + Cardinality(R) <= n
  BY <1>1, DisjointPositions
<1>5. /\ Cardinality(A) + 3 * Cardinality(R) \in Nat
      /\ Cardinality(A) + 3 * Cardinality(R) <= 2 * n + 1
  BY <1>1, <1>2, <1>4
<1> QED
  BY <1>3, <1>5 DEF n

\* The limit bounds the retained bytes, and the text made of them is at most
\* twice as long and one byte more, whatever the bytes are (check.go 235).
THEOREM TextWithinTwice == Spec => []OutputWithinTwice
<1>1. TypeOK => OutputWithinTwice
  <2> SUFFICES ASSUME TypeOK PROVE OutputWithinTwice
    OBVIOUS
  <2>1. data \in Seq(Byte) /\ Len(data) \in Nat /\ Limit \in Nat
        /\ Len(data) <= Limit
    BY LimitAssumption, LenProperties DEF TypeOK
  <2>2. ReportedLength(data) \in Nat /\ ReportedLength(data) <= 2 * Len(data) + 1
    BY <2>1, TextBound
  <2> QED
    BY <2>1, <2>2 DEF OutputWithinTwice
<1> QED
  BY <1>1, Invariance, PTL
=============================================================================

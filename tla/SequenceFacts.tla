--------------------------- MODULE SequenceFacts ---------------------------
(***************************************************************************)
(* Facts about sequences that the proof modules share.                     *)
(***************************************************************************)
EXTENDS Naturals, SequencesExt, FiniteSets, Functions, SequenceTheorems, FiniteSetTheorems,
        WellFoundedInduction, TLAPS

\* RemoveAt keeps the type of a sequence and shortens it by one.
LEMMA RemoveAtType ==
  ASSUME NEW S, NEW q \in Seq(S), NEW i \in 1..Len(q)
  PROVE  RemoveAt(q, i) \in Seq(S) /\ Len(RemoveAt(q, i)) = Len(q) - 1
<1> DEFINE a == SubSeq(q, 1, i - 1)
           b == SubSeq(q, i + 1, Len(q))
<1>1. Len(q) \in Nat
  BY LenProperties
<1>2. a \in Seq(S) /\ Len(a) = i - 1
  BY <1>1, SubSeqProperties, ElementOfSeq
<1>3. b \in Seq(S) /\ Len(b) = Len(q) - i
  BY <1>1, SubSeqProperties, ElementOfSeq
<1>4. RemoveAt(q, i) = a \o b
  BY DEF RemoveAt
<1> HIDE DEF a, b
<1>5. a \o b \in Seq(S) /\ Len(a \o b) = Len(a) + Len(b)
  BY <1>2, <1>3, ConcatProperties
<1>6. Len(a \o b) = Len(q) - 1
  BY <1>1, <1>2, <1>3, <1>5
<1>7. QED
  BY <1>4, <1>5, <1>6

-----------------------------------------------------------------------------
\* How many elements of a sequence lie in a set.
Occ(q, S) == Cardinality({i \in DOMAIN q : q[i] \in S})

\* The number of occurrences is a natural number, zero exactly when there is no
\* occurrence, at most one exactly when no two positions have one, and at most
\* the length.
LEMMA OccNat ==
  ASSUME NEW A, NEW q \in Seq(A), NEW S
  PROVE  /\ Occ(q, S) \in Nat
         /\ Occ(q, S) <= Len(q)
         /\ IsFiniteSet({i \in DOMAIN q : q[i] \in S})
         /\ Occ(q, S) = 0 <=> \A i \in DOMAIN q : q[i] \notin S
         /\ Occ(q, S) <= 1 =>
              \A i, j \in DOMAIN q : q[i] \in S /\ q[j] \in S => i = j
<1> DEFINE P == {i \in DOMAIN q : q[i] \in S}
<1>1. Len(q) \in Nat /\ DOMAIN q = 1..Len(q)
  BY LenProperties
<1>2. IsFiniteSet(DOMAIN q) /\ Cardinality(DOMAIN q) = Len(q)
  BY <1>1, FS_Interval
<1>3. IsFiniteSet(P) /\ Cardinality(P) <= Len(q) /\ Cardinality(P) \in Nat
  <2>1. P \in SUBSET DOMAIN q
    OBVIOUS
  <2>2. QED
    BY <1>2, <2>1, FS_Subset, FS_CardinalityType
<1>4. Cardinality(P) = 0 <=> P = {}
  BY <1>3, FS_EmptySet
<1>5. ASSUME Cardinality(P) <= 1 PROVE \A i, j \in P : i = j
  <2>1. Cardinality(P) = 0 \/ Cardinality(P) = 1
    BY <1>3, <1>5
  <2>2. P = {} \/ \E x : P = {x}
    BY <2>1, <1>3, <1>4, FS_Singleton
  <2>3. QED
    BY <2>2
<1>6. Occ(q, S) = Cardinality(P)
  BY DEF Occ
<1>7. QED
  BY <1>3, <1>4, <1>5, <1>6

\* The empty sequence has no occurrence of anything.
LEMMA OccEmpty == \A S : Occ(<<>>, S) = 0
<1> SUFFICES ASSUME NEW S PROVE Occ(<<>>, S) = 0
  OBVIOUS
<1>1. {i \in DOMAIN <<>> : <<>>[i] \in S} = {}
  OBVIOUS
<1>2. QED
  BY <1>1, FS_EmptySet DEF Occ

\* An element added at the end counts if it lies in the set.
LEMMA OccAppend ==
  ASSUME NEW A, NEW q \in Seq(A), NEW e \in A, NEW S
  PROVE  Occ(Append(q, e), S) = Occ(q, S) + (IF e \in S THEN 1 ELSE 0)
<1> DEFINE r == Append(q, e)
           P == {i \in DOMAIN q : q[i] \in S}
           R == {i \in DOMAIN r : r[i] \in S}
<1>1. Len(q) \in Nat /\ DOMAIN q = 1..Len(q)
  BY LenProperties
<1>2. r \in Seq(A) /\ Len(r) = Len(q) + 1 /\ r[Len(q) + 1] = e
      /\ \A i \in 1..Len(q) : r[i] = q[i]
  BY AppendProperties
<1>3. DOMAIN r = 1..(Len(q) + 1)
  BY <1>2, LenProperties
<1>4. IsFiniteSet(P) /\ Cardinality(P) \in Nat
  BY OccNat DEF Occ
<1> HIDE DEF r
<1>5. R = IF e \in S THEN P \union {Len(q) + 1} ELSE P
  BY <1>1, <1>2, <1>3
<1>6. Len(q) + 1 \notin P
  BY <1>1
<1>7. Cardinality(R) = Cardinality(P) + (IF e \in S THEN 1 ELSE 0)
  <2> HIDE DEF P, R
  <2>1. Cardinality(P \union {Len(q) + 1}) = Cardinality(P) + 1
    BY <1>4, <1>6, FS_AddElement
  <2>2. QED
    BY <1>4, <1>5, <2>1
<1>8. QED
  BY <1>7 DEF Occ, r

\* r is the sequence q without its element at k.
Without(r, q, k) ==
  /\ Len(r) = Len(q) - 1
  /\ \A i \in 1..Len(r) : r[i] = IF i < k THEN q[i] ELSE q[i + 1]

\* It has one occurrence fewer if that element lies in the set.
LEMMA OccWithout ==
  ASSUME NEW A, NEW q \in Seq(A), NEW r \in Seq(A), NEW k \in 1..Len(q), NEW S,
         Without(r, q, k)
  PROVE  Occ(r, S) = Occ(q, S) - (IF q[k] \in S THEN 1 ELSE 0)
<1> DEFINE P == {i \in DOMAIN q : q[i] \in S}
           R == {i \in DOMAIN r : r[i] \in S}
           f == [i \in R |-> IF i < k THEN i ELSE i + 1]
<1>0. Len(r) = Len(q) - 1 /\ \A i \in 1..Len(r) : r[i] = IF i < k THEN q[i] ELSE q[i + 1]
  BY DEF Without
<1>1. Len(q) \in Nat /\ DOMAIN q = 1..Len(q) /\ Len(r) \in Nat /\ DOMAIN r = 1..Len(r)
  BY LenProperties
<1>2. IsFiniteSet(P) /\ Cardinality(P) \in Nat /\ IsFiniteSet(R) /\ Cardinality(R) \in Nat
  <2>1. IsFiniteSet(P) /\ Occ(q, S) \in Nat
    BY OccNat
  <2>2. IsFiniteSet(R) /\ Occ(r, S) \in Nat
    BY OccNat
  <2>3. QED
    BY <2>1, <2>2 DEF Occ
<1>3. f \in [R -> P \ {k}]
  BY <1>1, <1>0
<1>4. \A i, j \in R : f[i] = f[j] => i = j
  BY <1>1, <1>0
<1>5. ASSUME NEW j \in P \ {k} PROVE \E i \in R : f[i] = j
  <2>1. CASE j < k
    <3>1. j \in R /\ f[j] = j
      BY <1>1, <1>0, <1>5, <2>1
    <3>2. QED
      BY <3>1
  <2>2. CASE k < j
    <3>1. j - 1 \in R /\ f[j - 1] = j
      BY <1>1, <1>0, <1>5, <2>2
    <3>2. QED
      BY <3>1
  <2>3. j \in Nat /\ k \in Nat /\ j # k
    BY <1>1, <1>5
  <2>4. j < k \/ k < j
    BY <2>3
  <2>5. QED
    BY <2>1, <2>2, <2>4
<1> HIDE DEF f
<1>6. f \in Bijection(R, P \ {k})
  BY <1>3, <1>4, <1>5 DEF Bijection, Injection, Surjection, IsInjective
<1>7. Cardinality(P \ {k}) = Cardinality(R)
  BY <1>2, <1>6, FS_Bijection DEF ExistsBijection
<1>8. Cardinality(P \ {k}) = Cardinality(P) - (IF q[k] \in S THEN 1 ELSE 0)
  <2>1. k \in P <=> q[k] \in S
    BY <1>1, <1>0
  <2> HIDE DEF P
  <2>2. Cardinality(P \ {k}) = IF k \in P THEN Cardinality(P) - 1 ELSE Cardinality(P)
    BY <1>2, FS_RemoveElement
  <2>3. QED
    BY <1>2, <2>1, <2>2
<1>9. QED
  BY <1>7, <1>8 DEF Occ

\* The first element leaves the sequence.
LEMMA OccTail ==
  ASSUME NEW A, NEW q \in Seq(A), q # <<>>, NEW S
  PROVE  Occ(Tail(q), S) = Occ(q, S) - (IF Head(q) \in S THEN 1 ELSE 0)
<1>1. Len(q) \in Nat /\ Len(q) # 0
  BY LenProperties, EmptySeq
<1>2. /\ Tail(q) \in Seq(A) /\ Len(Tail(q)) = Len(q) - 1
      /\ \A i \in 1..Len(Tail(q)) : Tail(q)[i] = q[i + 1]
  BY HeadTailProperties
<1>3. \A i \in 1..Len(Tail(q)) : Tail(q)[i] = IF i < 1 THEN q[i] ELSE q[i + 1]
  BY <1>2, LenProperties
<1>4. 1 \in 1..Len(q) /\ Head(q) = q[1]
  BY <1>1
<1> DEFINE r == Tail(q)
<1>5. r \in Seq(A) /\ Without(r, q, 1)
  BY <1>2, <1>3 DEF Without
<1> HIDE DEF r
<1>6. Occ(r, S) = Occ(q, S) - (IF q[1] \in S THEN 1 ELSE 0)
  BY <1>4, <1>5, OccWithout
<1>7. QED
  BY <1>4, <1>6 DEF r

\* What RemoveAt leaves of a sequence.
LEMMA RemoveAtElements ==
  ASSUME NEW A, NEW q \in Seq(A), NEW k \in 1..Len(q)
  PROVE  \A i \in 1..(Len(q) - 1) : RemoveAt(q, k)[i] = IF i < k THEN q[i] ELSE q[i + 1]
<1> DEFINE a == SubSeq(q, 1, k - 1)
           b == SubSeq(q, k + 1, Len(q))
<1>1. Len(q) \in Nat
  BY LenProperties
<1>2. a \in Seq(A) /\ Len(a) = k - 1 /\ \A i \in 1..(k - 1) : a[i] = q[i]
  <2>1. \A i \in 1..(k - 1) : q[i] \in A
    BY <1>1, ElementOfSeq
  <2>2. a \in Seq(A) /\ Len(a) = (IF 1 <= k - 1 THEN k - 1 - 1 + 1 ELSE 0)
        /\ \A i \in 1..(k - 1 - 1 + 1) : a[i] = q[1 + i - 1]
    BY <1>1, <2>1, SubSeqProperties
  <2> HIDE DEF a
  <2>3. QED
    BY <1>1, <2>2
<1>3. b \in Seq(A) /\ Len(b) = Len(q) - k /\ \A i \in 1..(Len(q) - k) : b[i] = q[k + i]
  <2>1. \A i \in (k + 1)..Len(q) : q[i] \in A
    BY <1>1, ElementOfSeq
  <2>2. b \in Seq(A) /\ Len(b) = (IF k + 1 <= Len(q) THEN Len(q) - (k + 1) + 1 ELSE 0)
        /\ \A i \in 1..(Len(q) - (k + 1) + 1) : b[i] = q[k + 1 + i - 1]
    BY <1>1, <2>1, SubSeqProperties
  <2> HIDE DEF b
  <2>3. QED
    BY <1>1, <2>2
<1>4. RemoveAt(q, k) = a \o b
  BY DEF RemoveAt
<1> HIDE DEF a, b
<1>5. \A i \in 1..(Len(a) + Len(b)) : (a \o b)[i] = IF i <= Len(a) THEN a[i] ELSE b[i - Len(a)]
  BY <1>2, <1>3, ConcatProperties
<1>6. ASSUME NEW i \in 1..(Len(q) - 1)
      PROVE  (a \o b)[i] = IF i < k THEN q[i] ELSE q[i + 1]
  <2>1. (a \o b)[i] = IF i <= Len(a) THEN a[i] ELSE b[i - Len(a)]
    BY <1>1, <1>2, <1>3, <1>5
  <2>2. CASE i < k
    BY <1>1, <1>2, <2>1, <2>2
  <2>3. CASE ~ (i < k)
    <3>1. ~ (i <= Len(a)) /\ i - Len(a) \in 1..(Len(q) - k) /\ k + (i - Len(a)) = i + 1
      BY <1>1, <1>2, <2>3
    <3>2. b[i - Len(a)] = q[k + (i - Len(a))]
      BY <1>3, <3>1
    <3>3. QED
      BY <2>1, <2>3, <3>1, <3>2
  <2>4. QED
    BY <2>2, <2>3
<1>7. QED
  BY <1>4, <1>6

\* An element is removed from the sequence.
LEMMA OccRemoveAt ==
  ASSUME NEW A, NEW q \in Seq(A), NEW k \in 1..Len(q), NEW S
  PROVE  Occ(RemoveAt(q, k), S) = Occ(q, S) - (IF q[k] \in S THEN 1 ELSE 0)
<1> DEFINE r == RemoveAt(q, k)
<1>1. r \in Seq(A) /\ Without(r, q, k)
  BY RemoveAtType, RemoveAtElements DEF Without
<1> HIDE DEF r
<1>2. Occ(r, S) = Occ(q, S) - (IF q[k] \in S THEN 1 ELSE 0)
  BY <1>1, OccWithout
<1>3. QED
  BY <1>2 DEF r

-----------------------------------------------------------------------------
\* The elements of a longer and of a shorter sequence.
LEMMA ElementsOfAppend ==
  ASSUME NEW A, NEW q \in Seq(A), NEW e \in A
  PROVE  \A j \in DOMAIN Append(q, e) :
           Append(q, e)[j] = e \/ \E k \in DOMAIN q : Append(q, e)[j] = q[k]
<1> DEFINE r == Append(q, e)
<1>1. /\ r \in Seq(A) /\ Len(r) = Len(q) + 1 /\ r[Len(q) + 1] = e
      /\ \A i \in 1..Len(q) : r[i] = q[i]
  BY AppendProperties
<1>2. Len(q) \in Nat /\ DOMAIN q = 1..Len(q) /\ DOMAIN r = 1..Len(r)
  BY <1>1, LenProperties
<1> HIDE DEF r
<1>3. \A j \in DOMAIN r : r[j] = e \/ \E k \in DOMAIN q : r[j] = q[k]
  BY <1>1, <1>2
<1>4. QED
  BY <1>3 DEF r

\* Those of the tail, and of a sequence without one position, are among those of
\* the sequence.
LEMMA ElementsOfTail ==
  ASSUME NEW A, NEW q \in Seq(A), q # <<>>
  PROVE  /\ \E k \in DOMAIN q : Head(q) = q[k]
         /\ \A j \in DOMAIN Tail(q) : \E k \in DOMAIN q : Tail(q)[j] = q[k]
<1> DEFINE r == Tail(q)
<1>1. r \in Seq(A) /\ Len(r) = Len(q) - 1 /\ \A i \in 1..Len(r) : r[i] = q[i + 1]
  BY HeadTailProperties
<1>2. Len(q) \in Nat \ {0} /\ DOMAIN q = 1..Len(q) /\ DOMAIN r = 1..Len(r)
  BY <1>1, LenProperties, EmptySeq
<1>3. Head(q) = q[1]
  OBVIOUS
<1> HIDE DEF r
<1>4. \A j \in DOMAIN r : \E k \in DOMAIN q : r[j] = q[k]
  <2> SUFFICES ASSUME NEW j \in DOMAIN r PROVE \E k \in DOMAIN q : r[j] = q[k]
    OBVIOUS
  <2>1. j + 1 \in DOMAIN q /\ r[j] = q[j + 1]
    BY <1>1, <1>2
  <2>2. QED
    BY <2>1
<1>5. 1 \in DOMAIN q
  BY <1>2
<1>6. QED
  BY <1>3, <1>4, <1>5 DEF r

\* RemoveAt puts no new element into a sequence.
LEMMA ElementsOfRemoveAt ==
  ASSUME NEW A, NEW q \in Seq(A), NEW i \in 1..Len(q)
  PROVE  \A j \in DOMAIN RemoveAt(q, i) : \E k \in DOMAIN q : RemoveAt(q, i)[j] = q[k]
<1> DEFINE r == RemoveAt(q, i)
<1>1. r \in Seq(A) /\ Len(r) = Len(q) - 1
      /\ \A j \in 1..(Len(q) - 1) : r[j] = IF j < i THEN q[j] ELSE q[j + 1]
  BY RemoveAtType, RemoveAtElements
<1>2. Len(q) \in Nat /\ DOMAIN q = 1..Len(q) /\ DOMAIN r = 1..Len(r)
  BY <1>1, LenProperties
<1> HIDE DEF r
<1>3. \A j \in DOMAIN r : \E k \in DOMAIN q : r[j] = q[k]
  <2> SUFFICES ASSUME NEW j \in DOMAIN r PROVE \E k \in DOMAIN q : r[j] = q[k]
    OBVIOUS
  <2>1. j \in DOMAIN q /\ j + 1 \in DOMAIN q
    BY <1>1, <1>2
  <2>2. r[j] = q[j] \/ r[j] = q[j + 1]
    BY <1>1, <1>2
  <2>3. QED
    BY <2>1, <2>2
<1>4. QED
  BY <1>3 DEF r

-----------------------------------------------------------------------------
\* Every nonempty set of positions has a first one.
LEMMA FirstPosition ==
  ASSUME NEW T \in SUBSET Nat, T # {}
  PROVE  \E x \in T : \A y \in T : x <= y
<1> DEFINE R == {ss \in Nat \X Nat : ss[1] < ss[2]}
<1>1. IsWellFoundedOn(R, Nat)
  BY NatLessThanWellFounded DEF OpToRel
<1>2. \A x, y \in T : y < x => <<y, x>> \in R
  OBVIOUS
<1> HIDE DEF R
<1>3. PICK x \in T : \A y \in T : <<y, x>> \notin R
  BY <1>1, WFMin
<1>4. \A y \in T : x <= y
  <2> SUFFICES ASSUME NEW y \in T, ~ (x <= y) PROVE FALSE
    OBVIOUS
  <2>1. x \in Nat /\ y \in Nat
    OBVIOUS
  <2>2. y < x
    BY <2>1
  <2>3. QED
    BY <1>2, <1>3, <2>2
<1>5. QED
  BY <1>4

\* Sequences of one length that have elements of a set at the same positions
\* have as many of them.
LEMMA OccSame ==
  ASSUME NEW q, NEW r, NEW S, DOMAIN r = DOMAIN q,
         \A i \in DOMAIN q : r[i] \in S <=> q[i] \in S
  PROVE  Occ(r, S) = Occ(q, S)
<1>1. {i \in DOMAIN r : r[i] \in S} = {i \in DOMAIN q : q[i] \in S}
  OBVIOUS
<1>2. QED
  BY <1>1 DEF Occ

=============================================================================

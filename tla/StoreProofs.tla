---------------------------- MODULE StoreProofs ----------------------------
(***************************************************************************)
(* Proofs about module Store: its types, its inductive invariant, and that *)
(* it implements module OrderedMap.  The first part is about the data: the *)
(* keys a scan meets one after the other, and batches.                     *)
(***************************************************************************)
EXTENDS Store, FiniteSetTheorems, TLAPS

----------------------------------------------------------------------------
(* Finite sets of keys *)

\* A key k comes before j in a scan.
Before(k, j, reverse) == IF reverse THEN k > j ELSE k < j

IsFirst(k, S, reverse) == k \in S /\ \A j \in S \ {k} : Before(k, j, reverse)

\* What a finite set of keys holds before one of them.
Earlier(S, k, reverse) == {j \in S : Before(j, k, reverse)}

\* A finite set of integers has a first element in either direction.
LEMMA FirstExists ==
  ASSUME NEW S \in SUBSET Int, IsFiniteSet(S), S # {}, NEW reverse
  PROVE  \E k \in S : \A j \in S \ {k} : Before(k, j, reverse)
<1> DEFINE T == {Earlier(S, k, reverse) : k \in S}
<1>1. T \subseteq FiniteSubsetsOf(S) /\ T # {}
  <2>1. FiniteSubsetsOf(S) = SUBSET S
    BY FS_FiniteSubsetsOfFinite
  <2>2. \A k : Earlier(S, k, reverse) \subseteq S
    BY DEF Earlier
  <2>3. PICK k : k \in S
    OBVIOUS
  <2>4. Earlier(S, k, reverse) \in T
    BY <2>3
  <2> QED BY <2>1, <2>2, <2>4
<1>2. PICK k \in S : \A j \in S :
        <<Earlier(S, j, reverse), Earlier(S, k, reverse)>> \notin StrictSubsetOrdering(S)
  <2> HIDE DEF T
  <2>1. \E x \in T : \A y \in T : ~(<<y, x>> \in StrictSubsetOrdering(S))
    BY <1>1, FS_StrictSubsetOrderingWellFounded, WFMin
  <2> QED BY <2>1 DEF T
<1>3. ASSUME NEW j \in S \ {k} PROVE Before(k, j, reverse)
  <2>1. SUFFICES ASSUME Before(j, k, reverse) PROVE FALSE
    BY DEF Before
  <2>2. Earlier(S, j, reverse) \subseteq Earlier(S, k, reverse)
    <3>1. SUFFICES ASSUME NEW x \in Earlier(S, j, reverse) PROVE Before(x, k, reverse)
      BY DEF Earlier
    <3>2. x \in Int /\ j \in Int /\ k \in Int /\ Before(x, j, reverse)
      BY <3>1 DEF Earlier
    <3> HIDE DEF T
    <3> QED BY <2>1, <3>2 DEF Before
  <2>3. j \in Earlier(S, k, reverse) /\ j \notin Earlier(S, j, reverse)
    BY <2>1 DEF Earlier, Before
  <2>4. Earlier(S, j, reverse) \in SUBSET S /\ Earlier(S, k, reverse) \in SUBSET S
    BY DEF Earlier
  <2>5. <<Earlier(S, j, reverse), Earlier(S, k, reverse)>> \in StrictSubsetOrdering(S)
    BY <2>2, <2>3, <2>4 DEF StrictSubsetOrdering
  <2> QED BY <1>2, <2>5
<1> QED BY <1>3

\* Where the engine's iterator stands after a seek or a step.
LEMMA LeastIs ==
  ASSUME NEW S \in SUBSET Int, IsFiniteSet(S)
  PROVE  /\ S = {} => Least(S) = Invalid
         /\ S # {} => Least(S) \in S /\ \A j \in S : Least(S) <= j
<1>1. CASE S = {}
  BY <1>1 DEF Least
<1>2. CASE S # {}
  <2>1. PICK k \in S : \A j \in S \ {k} : Before(k, j, FALSE)
    BY <1>2, FirstExists
  <2>2. \E n \in S : \A j \in S : n <= j
    <3>1. \A j \in S : k <= j
      BY <2>1 DEF Before
    <3> QED BY <3>1
  <2> QED BY <1>2, <2>2 DEF Least
<1> QED BY <1>1, <1>2

LEMMA GreatestIs ==
  ASSUME NEW S \in SUBSET Int, IsFiniteSet(S)
  PROVE  /\ S = {} => Greatest(S) = Invalid
         /\ S # {} => Greatest(S) \in S /\ \A j \in S : Greatest(S) >= j
<1>1. CASE S = {}
  BY <1>1 DEF Greatest
<1>2. CASE S # {}
  <2>1. PICK k \in S : \A j \in S \ {k} : Before(k, j, TRUE)
    BY <1>2, FirstExists
  <2>2. \E n \in S : \A j \in S : n >= j
    <3>1. \A j \in S : k >= j
      BY <2>1 DEF Before
    <3> QED BY <3>1
  <2> QED BY <1>2, <2>2 DEF Greatest
<1> QED BY <1>1, <1>2
----------------------------------------------------------------------------
(* Batches *)

LEMMA BoundedIsSeq ==
  ASSUME NEW S, NEW m \in Nat, NEW s
  PROVE  s \in BoundedSeq(S, m) <=> s \in Seq(S) /\ Len(s) <= m
<1>1. ASSUME s \in BoundedSeq(S, m) PROVE s \in Seq(S) /\ Len(s) <= m
  <2>1. PICK n \in 0 .. m : s \in [1 .. n -> S]
    BY <1>1 DEF BoundedSeq, SeqOf
  <2> QED BY <2>1
<1>2. ASSUME s \in Seq(S), Len(s) <= m PROVE s \in BoundedSeq(S, m)
  <2>1. Len(s) \in 0 .. m /\ s \in [1 .. Len(s) -> S]
    BY <1>2
  <2> QED BY <2>1 DEF BoundedSeq, SeqOf
<1> QED BY <1>1, <1>2

LEMMA EmptyBounded ==
  ASSUME NEW S, NEW m \in Nat
  PROVE  <<>> \in BoundedSeq(S, m)
<1>1. \A s : s \in BoundedSeq(S, m) <=> s \in Seq(S) /\ Len(s) <= m
  BY BoundedIsSeq
<1>2. <<>> \in Seq(S)
  OBVIOUS
<1>3. Len(<<>>) <= m
  OBVIOUS
<1> QED BY <1>1, <1>2, <1>3

LEMMA EntriesAre ==
  ASSUME NEW es \in Seq(Entry), NEW k, EntriesFor(es, k) # {}
  PROVE  /\ LastFor(es, k) \in EntriesFor(es, k)
         /\ \A n \in EntriesFor(es, k) : n <= LastFor(es, k)
<1> DEFINE E == EntriesFor(es, k)
<1>1. IsFiniteSet(1 .. Len(es)) /\ E \in SUBSET (1 .. Len(es))
  BY FS_Interval DEF EntriesFor
<1>2. IsFiniteSet(E) /\ E \in SUBSET Int
  BY <1>1, FS_Subset
<1>3. PICK n \in E : \A j \in E \ {n} : Before(n, j, TRUE)
  <2> HIDE DEF E
  <2>1. E # {}
    BY DEF E
  <2> QED BY <1>2, <2>1, FirstExists
<1>4. \A j \in E : j <= n
  BY <1>2, <1>3 DEF Before
<1> QED BY <1>3, <1>4 DEF LastFor

LEMMA ApplyToType ==
  ASSUME NEW c \in Contents, NEW es \in Seq(Entry)
  PROVE  ApplyTo(c, es) \in Contents
<1>1. ASSUME NEW k \in Key, EntriesFor(es, k) # {}
      PROVE  es[LastFor(es, k)].value \in Value \cup {Missing}
  <2>1. LastFor(es, k) \in 1 .. Len(es)
    BY <1>1, EntriesAre DEF EntriesFor
  <2>2. es[LastFor(es, k)] \in Entry
    BY <2>1
  <2> QED BY <2>2 DEF Entry
<1> QED BY <1>1 DEF ApplyTo, Contents

----------------------------------------------------------------------------
(* Listings *)

LEMMA RankIs ==
  ASSUME NEW S, IsFiniteSet(S), NEW k, NEW reverse
  PROVE  /\ Rank(S, k, reverse) = Cardinality(Earlier(S, k, reverse))
         /\ IsFiniteSet(Earlier(S, k, reverse)) /\ Rank(S, k, reverse) \in Nat
<1>1. Earlier(S, k, reverse) = {j \in S : IF reverse THEN j > k ELSE j < k}
  BY DEF Earlier, Before
<1>2. Rank(S, k, reverse) = Cardinality(Earlier(S, k, reverse))
  BY <1>1 DEF Rank
<1>3. Earlier(S, k, reverse) \in SUBSET S
  BY DEF Earlier
<1> QED BY <1>2, <1>3, FS_Subset, FS_CardinalityType

\* Without its first key p, a set is left with the later keys, each one earlier.
LEMMA RankShift ==
  ASSUME NEW S \in SUBSET Int, IsFiniteSet(S), NEW reverse,
         NEW p \in S, \A j \in S \ {p} : Before(p, j, reverse)
  PROVE  /\ Rank(S, p, reverse) = 0
         /\ \A k \in S \ {p} : Rank(S, k, reverse) = Rank(S \ {p}, k, reverse) + 1
<1>1. IsFiniteSet(S \ {p})
  BY FS_RemoveElement
<1>2. Rank(S, p, reverse) = 0
  <2>1. ASSUME NEW j \in Earlier(S, p, reverse) PROVE FALSE
    <3>1. j \in Int /\ p \in Int /\ Before(j, p, reverse) /\ j \in S
      BY <2>1 DEF Earlier
    <3>2. j # p
      BY <3>1 DEF Before
    <3> QED BY <3>1, <3>2 DEF Before
  <2>2. Earlier(S, p, reverse) = {}
    BY <2>1
  <2> QED BY <2>2, RankIs, FS_EmptySet
<1>3. ASSUME NEW k \in S \ {p}
      PROVE  Rank(S, k, reverse) = Rank(S \ {p}, k, reverse) + 1
  <2>1. Earlier(S, k, reverse) = Earlier(S \ {p}, k, reverse) \cup {p}
    <3>1. Before(p, k, reverse)
      OBVIOUS
    <3> QED BY <3>1 DEF Earlier
  <2>2. p \notin Earlier(S \ {p}, k, reverse)
    BY DEF Earlier
  <2>3. IsFiniteSet(Earlier(S \ {p}, k, reverse))
    BY <1>1, RankIs
  <2>4. Cardinality(Earlier(S, k, reverse)) = Cardinality(Earlier(S \ {p}, k, reverse)) + 1
    BY <2>1, <2>2, <2>3, FS_AddElement
  <2> QED BY <2>4, <1>1, RankIs
<1> QED BY <1>2, <1>3

LEMMA EmptyListing ==
  ASSUME NEW c, NEW reverse, NEW include_value
  PROVE  Listing(c, {}, reverse, include_value) = <<>>
<1>1. 1 .. Cardinality({}) = {}
  BY FS_EmptySet
<1> QED BY <1>1 DEF Listing

IsCons(s, first, rest) == s # <<>> /\ Head(s) = first /\ Tail(s) = rest

\* A scan first meets the first key and then what is left.
LEMMA ListingStep ==
  ASSUME NEW c, NEW S, S \in SUBSET Int, IsFiniteSet(S), NEW reverse,
         NEW include_value, NEW p, IsFirst(p, S, reverse)
  PROVE  IsCons(Listing(c, S, reverse, include_value), Item(c, p, include_value),
                Listing(c, S \ {p}, reverse, include_value))
<1> DEFINE s == Listing(c, S, reverse, include_value)
           m == Cardinality(S)
           T == S \ {p}
<1>0. p \in S /\ \A j \in S \ {p} : Before(p, j, reverse)
  BY DEF IsFirst
<1>1. IsFiniteSet(T) /\ m \in Nat /\ Cardinality(T) = m - 1 /\ m - 1 \in Nat
  <2>1. IsFiniteSet(T) /\ m \in Nat /\ Cardinality(T) = m - 1
    BY <1>0, FS_RemoveElement, FS_CardinalityType
  <2>2. Cardinality(T) \in Nat
    BY <2>1, FS_CardinalityType
  <2> QED BY <2>1, <2>2
<1>2. /\ Rank(S, p, reverse) = 0
      /\ \A k \in T : Rank(S, k, reverse) = Rank(T, k, reverse) + 1
      /\ \A k \in T : Rank(T, k, reverse) \in Nat
  BY <1>0, <1>1, RankShift, RankIs
<1>3. NthKey(S, 1, reverse) = p
  <2>1. \A k \in S : Rank(S, k, reverse) = 0 <=> k = p
    BY <1>2
  <2>2. 1 - 1 = 0
    OBVIOUS
  <2>3. NthKey(S, 1, reverse) = CHOOSE k \in S : Rank(S, k, reverse) = 0
    BY <2>2 DEF NthKey
  <2> HIDE DEF T, m, s
  <2> QED BY <1>0, <2>1, <2>3
<1>4. ASSUME NEW n \in 1 .. m - 1
      PROVE  NthKey(S, n + 1, reverse) = NthKey(T, n, reverse)
  <2>1. \A k : (k \in S /\ Rank(S, k, reverse) = (n + 1) - 1)
               <=> (k \in T /\ Rank(T, k, reverse) = n - 1)
    <3> TAKE k
    <3>1. CASE k = p
      BY <1>1, <1>2, <3>1
    <3>2. CASE k \in T
      <4>1. Rank(S, k, reverse) = Rank(T, k, reverse) + 1 /\ Rank(T, k, reverse) \in Nat
        BY <1>2, <3>2
      <4> QED BY <1>1, <3>2, <4>1
    <3>3. CASE k \notin S
      BY <3>3
    <3> QED BY <3>1, <3>2, <3>3
  <2>2. (CHOOSE k : k \in S /\ Rank(S, k, reverse) = (n + 1) - 1)
        = CHOOSE k : k \in T /\ Rank(T, k, reverse) = n - 1
    <3> HIDE DEF T, m, s
    <3> QED BY <2>1, Zenon
  <2> QED BY <2>2 DEF NthKey
<1>5. s = [n \in 1 .. m |-> Item(c, NthKey(S, n, reverse), include_value)]
  BY DEF Listing
<1>6. s[1] = Item(c, p, include_value)
  BY <1>1, <1>3, <1>5
<1>7. \A n \in 1 .. m - 1 : s[n + 1] = Item(c, NthKey(T, n, reverse), include_value)
  <2>1. \A n \in 1 .. m - 1 : n + 1 \in 1 .. m
    BY <1>1
  <2> HIDE DEF m, T, s
  <2> QED BY <2>1, <1>4, <1>5
<1>8. Listing(c, T, reverse, include_value)
      = [n \in 1 .. m - 1 |-> Item(c, NthKey(T, n, reverse), include_value)]
  BY <1>1 DEF Listing
<1>9. \E U : s \in Seq(U) /\ Len(s) = m
  <2>1. \A n \in 1 .. m : s[n] \in {s[j] : j \in 1 .. m}
    OBVIOUS
  <2>2. s \in [1 .. m -> {s[j] : j \in 1 .. m}]
    BY <1>5, <2>1
  <2>3. ASSUME NEW U, s \in [1 .. m -> U] PROVE s \in Seq(U) /\ Len(s) = m
    <3> HIDE DEF s, m, T
    <3> QED BY <1>1, <2>3
  <2> HIDE DEF s, m, T
  <2> QED BY <2>2, <2>3
<1> HIDE DEF s, m, T
<1>10. s # <<>> /\ Head(s) = Item(c, p, include_value)
  BY <1>1, <1>6, <1>9
<1>11. Tail(s) = [n \in 1 .. m - 1 |-> s[n + 1]]
  <2>1. PICK U : s \in Seq(U) /\ Len(s) = m
    BY <1>9
  <2>2. s # <<>>
    BY <1>10
  <2>3. Tail(s) \in Seq(U) /\ Len(Tail(s)) = m - 1
    BY <2>1, <2>2
  <2>4. \A n \in 1 .. m - 1 : Tail(s)[n] = s[n + 1]
    BY <1>1, <2>1, <2>2
  <2>5. Tail(s) = [n \in 1 .. m - 1 |-> Tail(s)[n]]
    <3>1. ASSUME NEW q \in Seq(U), Len(q) = m - 1 PROVE q = [n \in 1 .. m - 1 |-> q[n]]
      <4>1. q \in [1 .. m - 1 -> U]
        BY <3>1
      <4> QED BY <4>1
    <3> QED BY <2>3, <3>1
  <2> QED BY <2>4, <2>5
<1>12. Tail(s) = Listing(c, T, reverse, include_value)
  BY <1>7, <1>8, <1>11
<1> QED BY <1>10, <1>12 DEF s, T, IsCons

----------------------------------------------------------------------------
(* Seeks *)

LEMMA PresentFinite ==
  ASSUME NEW c, NEW S \in SUBSET Present(c)
  PROVE  S \in SUBSET Int /\ S \in SUBSET Key /\ IsFiniteSet(S)
<1>1. S \in SUBSET Key
  BY DEF Present
<1> QED BY <1>1, MapDataAssumption, FS_Subset

\* What an iterator on the contents v has still to return when it stands at pos.
Ahead(v, pos, bound, reverse) ==
  {k \in Present(v) : IF reverse THEN k <= pos /\ (bound = NoBound \/ k >= bound)
                                 ELSE k >= pos /\ (bound = NoBound \/ k <= bound)}

LEMMA SeekIs ==
  ASSUME NEW v, NEW k \in Int
  PROVE  \/ Seek(v, k) = Invalid /\ \A j \in Present(v) : j < k
         \/ /\ Seek(v, k) \in Present(v) /\ Seek(v, k) >= k
            /\ \A j \in Present(v) : j >= k => Seek(v, k) <= j
<1> DEFINE S == {j \in Present(v) : j >= k}
<1>1. S \in SUBSET Int /\ IsFiniteSet(S) /\ Present(v) \in SUBSET Int
  BY PresentFinite
<1>2. Seek(v, k) = Least(S)
  BY DEF Seek
<1>3. CASE S = {}
  BY <1>1, <1>2, <1>3, LeastIs
<1>4. CASE S # {}
  <2>1. Least(S) \in S /\ \A j \in S : Least(S) <= j
    <3> HIDE DEF S
    <3> QED BY <1>1, <1>4, LeastIs
  <2> QED BY <1>2, <2>1
<1> QED BY <1>3, <1>4

\* RangeIter leaves the iterator at the first key of the range, in the
\* direction of the scan: nothing of the range is behind it.
LEMMA StartIsFirst ==
  ASSUME NEW v, NEW from \in Bound, NEW to \in Bound, NEW reverse
  PROVE  LET pos == StartPos(v, from, to, reverse)
         IN  /\ pos = Invalid => InRange(v, from, to) = {}
             /\ pos # Invalid =>
                  /\ pos \in Present(v)
                  /\ Ahead(v, pos, IF reverse THEN from ELSE to, reverse) = InRange(v, from, to)
<1> DEFINE pos == StartPos(v, from, to, reverse)
           P == Present(v)
<1>1. P \in SUBSET Int /\ IsFiniteSet(P)
  BY PresentFinite
<1>2. Invalid \notin P
  BY <1>1, StoreAssumption
<1>3. CASE ~reverse /\ from = NoBound
  <2>1. pos = Least(P)
    BY <1>3 DEF StartPos, SeekToFirst
  <2> HIDE DEF pos, P
  <2>2. CASE P = {}
    BY <1>3, <2>1, <2>2, <1>1, LeastIs DEF P, pos, InRange
  <2>3. CASE P # {}
    <3>1. pos \in P /\ \A j \in P : pos <= j
      BY <1>1, <2>1, <2>3, LeastIs
    <3>2. Ahead(v, pos, to, reverse) = InRange(v, from, to)
      BY <1>1, <1>3, <3>1 DEF Ahead, InRange, P
    <3> QED BY <1>2, <1>3, <3>1, <3>2 DEF P, pos
  <2> QED BY <2>2, <2>3
<1>4. CASE ~reverse /\ from # NoBound
  <2>1. pos = Seek(v, from) /\ from \in Int
    BY <1>4 DEF StartPos, Bound
  <2> HIDE DEF pos
  <2>2. CASE pos = Invalid
    <3>1. \A j \in P : j < from
      BY <1>2, <2>1, <2>2, SeekIs
    <3>2. InRange(v, from, to) = {}
      BY <1>1, <1>4, <2>1, <3>1 DEF InRange
    <3> QED BY <2>2, <3>2 DEF pos
  <2>3. CASE pos # Invalid
    <3>1. pos \in P /\ pos >= from /\ \A j \in P : j >= from => pos <= j
      BY <2>1, <2>3, SeekIs
    <3>2. \A j \in P : j >= pos <=> from <= j
      BY <1>1, <2>1, <3>1
    <3>3. Ahead(v, pos, to, reverse) = InRange(v, from, to)
      BY <1>1, <1>4, <3>2 DEF Ahead, InRange
    <3> QED BY <1>4, <2>3, <3>1, <3>3 DEF pos
  <2> QED BY <2>2, <2>3
<1>5. CASE reverse /\ (to = NoBound \/ Seek(v, to) = Invalid)
  <2>1. pos = Greatest(P)
    BY <1>5 DEF StartPos, SeekToLast
  <2>2. \A j \in P : to = NoBound \/ j <= to
    <3>1. CASE to = NoBound
      BY <3>1
    <3>2. CASE to # NoBound
      <4>1. to \in Int
        BY <3>2 DEF Bound
      <4>2. \A j \in P : j < to
        BY <1>2, <1>5, <3>2, <4>1, SeekIs
      <4> QED BY <1>1, <4>1, <4>2
    <3> QED BY <3>1, <3>2
  <2> HIDE DEF pos
  <2>3. CASE P = {}
    <3>1. pos = Invalid
      BY <1>1, <2>1, <2>3, GreatestIs
    <3> QED BY <2>3, <3>1 DEF pos, InRange
  <2>4. CASE P # {}
    <3> HIDE DEF P
    <3>1. pos \in P /\ \A j \in P : pos >= j
      BY <1>1, <2>1, <2>4, GreatestIs
    <3>2. \A j \in P : j <= pos
      BY <1>1, <3>1
    <3>3. \A j \in P : from = NoBound \/ (j >= from <=> from <= j)
      BY <1>1 DEF Bound
    <3>4. Ahead(v, pos, from, reverse) = InRange(v, from, to)
      BY <1>5, <2>2, <3>2, <3>3 DEF Ahead, InRange, P
    <3> QED BY <1>2, <1>5, <3>1, <3>4 DEF P, pos
  <2> QED BY <2>3, <2>4
<1>6. CASE reverse /\ to # NoBound /\ Seek(v, to) # Invalid
  <2> DEFINE at == Seek(v, to)
  <2>1. to \in Int /\ at \in P /\ at >= to /\ \A j \in P : j >= to => at <= j
    <3>1. to \in Int
      BY <1>6 DEF Bound
    <3> QED BY <1>6, <3>1, SeekIs
  <2>2. pos = IF at = to THEN at ELSE PrevOf(v, at)
    BY <1>6 DEF StartPos
  <2>3. \A j \in P : from = NoBound \/ (j >= from <=> from <= j)
    BY <1>1 DEF Bound
  <2> HIDE DEF pos, at
  <2>4. CASE at = to
    <3>1. pos = to
      BY <2>2, <2>4
    <3>2. Ahead(v, pos, from, reverse) = InRange(v, from, to)
      BY <1>6, <2>3, <3>1 DEF Ahead, InRange
    <3> QED BY <1>2, <1>6, <2>1, <2>4, <3>1, <3>2 DEF pos
  <2>5. CASE at # to
    <3> DEFINE S == {j \in P : j < at}
    <3>1. S \in SUBSET Int /\ IsFiniteSet(S)
      BY PresentFinite
    <3>2. pos = Greatest(S)
      BY <2>2, <2>5 DEF PrevOf
    <3>3. \A j \in P : j < at <=> j <= to
      BY <1>1, <2>1, <2>5
    <3>4. CASE S = {}
      <4>1. pos = Invalid
        BY <3>1, <3>2, <3>4, GreatestIs
      <4>2. \A j \in P : ~(j <= to)
        BY <3>3, <3>4
      <4>3. InRange(v, from, to) = {}
        BY <1>6, <4>2 DEF InRange
      <4> QED BY <4>1, <4>3 DEF pos
    <3>5. CASE S # {}
      <4>1. pos \in S /\ \A j \in S : pos >= j
        <5> HIDE DEF S
        <5> QED BY <3>1, <3>2, <3>5, GreatestIs
      <4>2. \A j \in P : j <= to <=> j <= pos
        BY <1>1, <2>1, <3>3, <4>1
      <4>3. Ahead(v, pos, from, reverse) = InRange(v, from, to)
        BY <1>6, <2>3, <4>2 DEF Ahead, InRange
      <4> QED BY <1>2, <1>6, <4>1, <4>3 DEF pos
    <3> QED BY <3>4, <3>5
  <2> QED BY <2>4, <2>5
<1> QED BY <1>3, <1>4, <1>5, <1>6
\* Next() and Prev() leave out nothing.
LEMMA StepIs ==
  ASSUME NEW v, NEW p \in Int, NEW reverse
  PROVE  LET q == IF reverse THEN PrevOf(v, p) ELSE NextOf(v, p)
         IN  \/ q = Invalid /\ \A k \in Present(v) : ~Before(p, k, reverse)
             \/ /\ q \in Present(v) /\ Before(p, q, reverse)
                /\ \A k \in Present(v) : Before(p, k, reverse) => k = q \/ Before(q, k, reverse)
<1>0. Present(v) \in SUBSET Int
  BY PresentFinite
<1>1. CASE reverse
  <2> DEFINE S == {j \in Present(v) : j < p}
  <2>1. S \in SUBSET Int /\ IsFiniteSet(S) /\ PrevOf(v, p) = Greatest(S)
    BY PresentFinite DEF PrevOf
  <2>2. CASE S = {}
    <3>1. PrevOf(v, p) = Invalid
      BY <2>1, <2>2, GreatestIs
    <3>2. \A k \in Present(v) : ~Before(p, k, reverse)
      BY <1>0, <1>1, <2>2 DEF Before
    <3> QED BY <1>1, <3>1, <3>2
  <2>3. CASE S # {}
    <3> DEFINE q == PrevOf(v, p)
    <3>1. q \in S /\ \A j \in S : q >= j
      <4> HIDE DEF S
      <4> QED BY <2>1, <2>3, GreatestIs
    <3>2. q \in Present(v) /\ q \in Int /\ Before(p, q, reverse)
      BY <1>0, <1>1, <3>1 DEF Before
    <3>3. ASSUME NEW k \in Present(v), Before(p, k, reverse)
          PROVE  k = q \/ Before(q, k, reverse)
      <4>1. k \in Int /\ k \in S
        BY <1>0, <1>1, <3>3 DEF Before
      <4>2. q >= k
        BY <3>1, <4>1
      <4> HIDE DEF q, S
      <4> QED BY <1>1, <3>2, <4>1, <4>2 DEF Before
    <3> QED BY <1>1, <3>2, <3>3
  <2> QED BY <2>2, <2>3
<1>2. CASE ~reverse
  <2> DEFINE S == {j \in Present(v) : j > p}
  <2>1. S \in SUBSET Int /\ IsFiniteSet(S) /\ NextOf(v, p) = Least(S)
    BY PresentFinite DEF NextOf
  <2>2. CASE S = {}
    <3>1. NextOf(v, p) = Invalid
      BY <2>1, <2>2, LeastIs
    <3>2. \A k \in Present(v) : ~Before(p, k, reverse)
      BY <1>0, <1>2, <2>2 DEF Before
    <3> QED BY <1>2, <3>1, <3>2
  <2>3. CASE S # {}
    <3> DEFINE q == NextOf(v, p)
    <3>1. q \in S /\ \A j \in S : q <= j
      <4> HIDE DEF S
      <4> QED BY <2>1, <2>3, LeastIs
    <3>2. q \in Present(v) /\ q \in Int /\ Before(p, q, reverse)
      BY <1>0, <1>2, <3>1 DEF Before
    <3>3. ASSUME NEW k \in Present(v), Before(p, k, reverse)
          PROVE  k = q \/ Before(q, k, reverse)
      <4>1. k \in Int /\ k \in S
        BY <1>0, <1>2, <3>3 DEF Before
      <4>2. q <= k
        BY <3>1, <4>1
      <4> HIDE DEF q, S
      <4> QED BY <1>2, <3>2, <4>1, <4>2 DEF Before
    <3> QED BY <1>2, <3>2, <3>3
  <2> QED BY <2>2, <2>3
<1> QED BY <1>1, <1>2

----------------------------------------------------------------------------
(* The inductive invariant *)

LEMMA EmptyType == Empty \in Contents
BY DEF Empty, Contents

LEMMA CleanType ==
  /\ Cleaned \in IterStruct /\ Clean(Cleaned) = Cleaned /\ ~Cleaned.open
  /\ \A it \in IterStruct : /\ Clean(it) \in IterStruct /\ ~Clean(it).open
                            /\ Clean(Clean(it)) = Clean(it)
BY EmptyType DEF Cleaned, Clean, IterStruct, Bound

\* What the threads know of the call they are in.
LEMMA CallIs ==
  ASSUME NEW c \in Call
  PROVE  /\ c.op \in {"idle", "put", "write", "push", "get", "scan"}
         /\ c.op = "idle" => c = Idle
         /\ c.op \in {"put", "write"} =>
              c.entries \in BoundedSeq(Entry, MaxBatch) /\ c.sync \in BOOLEAN
         /\ c.op = "write" => c.batch \in Batch
         /\ c.op = "push" => c.batch \in Batch /\ c.entry \in Entry
         /\ c.op = "get" => c.source \in Source /\ c.key \in Key
         /\ c.op = "scan" => /\ c.source \in Source /\ c.iter \in Iter
                             /\ c.from \in Bound /\ c.to \in Bound
                             /\ c.is_reverse \in BOOLEAN /\ c.include_value \in BOOLEAN
BY DEF Call, Idle

LEMMA InitInv == Init => StoreInv
<1> SUFFICES ASSUME Init PROVE StoreInv
  OBVIOUS
<1>1. disk \in Seq(Contents) /\ disk # <<>>
  BY EmptyType DEF Init
<1>2. batch \in [Batch -> BoundedSeq(Entry, MaxBatch)]
  <2>1. <<>> \in BoundedSeq(Entry, MaxBatch)
    <3>1. MaxBatch \in Nat
      BY StoreAssumption
    <3> QED BY <3>1, EmptyBounded
  <2> QED BY <2>1 DEF Init
<1>3. th \in [Thread -> Call] /\ \A t \in Thread : th[t].op = "idle"
  BY DEF Init, Call, Idle
<1>4. snap \in [Snap -> Contents \cup {Closed}]
  BY DEF Init
<1>5. iter \in [Iter -> IterStruct] /\ \A i \in Iter : iter[i] = Cleaned
  BY CleanType DEF Init
<1>6. TypeOK
  BY <1>1, <1>2, <1>3, <1>4, <1>5, CleanType DEF TypeOK
<1> QED BY <1>3, <1>5, <1>6, CleanType DEF StoreInv, CallsOnOpen, PosPresent

\* What the live database and an open snapshot hold.
LEMMA ViewType ==
  ASSUME TypeOK, NEW source \in Source, IsOpen(source)
  PROVE  View(source) \in Contents /\ View(source) # Closed
<1>1. Last(disk) \in Contents
  BY DEF TypeOK, Last
<1> QED BY <1>1, StoreAssumption DEF TypeOK, View, Source, IsOpen

\* A call is only begun.
Begins(t, call) ==
  /\ call \in Call /\ Begin(t, call)
  /\ call.op \in {"get", "scan"} => IsOpen(call.source)
  /\ Map!Sound(call)
  /\ answer' = <<>>
  /\ UNCHANGED <<disk, snap, batch, iter>>

Starts(t) == \E call : Begins(t, call)

LEMMA BeginInv ==
  ASSUME StoreInv, NEW t \in Thread, NEW call, Begins(t, call)
  PROVE  StoreInv'
<1>0. /\ call \in Call /\ Begin(t, call)
      /\ call.op \in {"get", "scan"} => IsOpen(call.source)
      /\ UNCHANGED <<disk, snap, batch, iter>>
  BY DEF Begins
<1>1. th' \in [Thread -> Call] /\ \A u \in Thread : th'[u] = IF u = t THEN call ELSE th[u]
  BY <1>0 DEF StoreInv, TypeOK, Begin
<1>2. TypeOK'
  BY <1>0, <1>1 DEF StoreInv, TypeOK
<1>3. CallsOnOpen'
  BY <1>0, <1>1 DEF StoreInv, CallsOnOpen, IsOpen
<1>4. PosPresent'
  BY <1>0 DEF StoreInv, PosPresent
<1> QED BY <1>2, <1>3, <1>4 DEF StoreInv

\* A call returns.
LEMMA BackInv ==
  ASSUME StoreInv, NEW t \in Thread, Back(t), UNCHANGED snap
  PROVE  th' \in [Thread -> Call] /\ CallsOnOpen'
<1>1. /\ th' \in [Thread -> Call]
      /\ \A u \in Thread : th'[u] = IF u = t THEN Idle ELSE th[u]
  BY DEF StoreInv, TypeOK, Back, Call
<1>2. Idle.op \notin {"get", "scan"}
  BY DEF Idle
<1> QED BY <1>1, <1>2 DEF StoreInv, CallsOnOpen, IsOpen
LEMMA WritesBegin ==
  ASSUME StoreInv, NEW t \in Thread, NEW sync \in Synced
  PROVE  /\ \A k \in Key, v \in Value : PyLevelDB_Put(t, k, v, sync) => Starts(t)
         /\ \A k \in Key : PyLevelDB_Delete(t, k, sync) => Starts(t)
         /\ \A b \in Batch : PyLevelDB_Write(t, b, sync) => Starts(t)
<1>1. MaxBatch \in Nat /\ 1 <= MaxBatch /\ sync \in BOOLEAN
  BY StoreAssumption
<1>2. ASSUME NEW k \in Key, NEW v \in Value \cup {Missing},
             Begin(t, [op |-> "put", entries |-> <<[key |-> k, value |-> v]>>, sync |-> sync]),
             answer' = <<>>, UNCHANGED <<disk, snap, batch, iter>>
      PROVE  Starts(t)
  <2> DEFINE es == <<[key |-> k, value |-> v]>>
             call == [op |-> "put", entries |-> es, sync |-> sync]
  <2>1. es \in Seq(Entry) /\ Len(es) = 1
    <3>1. [key |-> k, value |-> v] \in Entry
      BY DEF Entry
    <3> QED BY <3>1
  <2>2. Begin(t, call)
    BY <1>2
  <2> HIDE DEF es
  <2>3. es \in BoundedSeq(Entry, MaxBatch)
    BY <1>1, <2>1, BoundedIsSeq
  <2>4. call \in Call /\ call.op = "put" /\ call.entries = es
    BY <1>1, <2>3 DEF Call
  <2> HIDE DEF call
  <2> QED BY <1>2, <2>1, <2>2, <2>4 DEF Starts, Begins, Map!Sound
<1>3. ASSUME NEW b \in Batch, PyLevelDB_Write(t, b, sync) PROVE Starts(t)
  <2> DEFINE call == [op |-> "write", batch |-> b, entries |-> batch[b], sync |-> sync]
  <2>1. batch[b] \in BoundedSeq(Entry, MaxBatch)
    BY DEF StoreInv, TypeOK
  <2>2. /\ call \in Call /\ call.op = "write"
        /\ call.entries = batch[b] /\ call.batch = b
    BY <1>1, <2>1 DEF Call
  <2>3. /\ Begin(t, call)
        /\ answer' = <<>> /\ UNCHANGED <<disk, snap, batch, iter>>
    BY <1>3 DEF PyLevelDB_Write
  <2> HIDE DEF call
  <2> QED BY <2>2, <2>3 DEF Starts, Begins, Map!Sound
<1>4. ASSUME NEW k \in Key, NEW v \in Value, PyLevelDB_Put(t, k, v, sync) PROVE Starts(t)
  BY <1>2, <1>4 DEF PyLevelDB_Put
<1>5. ASSUME NEW k \in Key, PyLevelDB_Delete(t, k, sync) PROVE Starts(t)
  BY <1>2, <1>5 DEF PyLevelDB_Delete
<1> QED BY <1>3, <1>4, <1>5

LEMMA BatchesInv ==
  ASSUME StoreInv, NEW t \in Thread
  PROVE  /\ \A b \in Batch, e \in Entry : PyWriteBatch_Put(t, b, e) => Starts(t)
         /\ \A b \in Batch : PyWriteBatch_init(t, b) => StoreInv'
         /\ Push(t) => StoreInv'
<1>1. MaxBatch \in Nat
  BY StoreAssumption
<1>2. ASSUME NEW b \in Batch, NEW e \in Entry, PyWriteBatch_Put(t, b, e)
      PROVE  Starts(t)
  <2> DEFINE call == [op |-> "push", batch |-> b, entry |-> e]
  <2>1. call \in Call /\ call.op = "push"
    BY DEF Call
  <2>2. Begin(t, call) /\ answer' = <<>> /\ UNCHANGED <<disk, snap, batch, iter>>
    BY <1>2 DEF PyWriteBatch_Put
  <2> HIDE DEF call
  <2> QED BY <2>1, <2>2 DEF Starts, Begins, Map!Sound
<1>3. ASSUME NEW b \in Batch, PyWriteBatch_init(t, b) PROVE StoreInv'
  <2>1. <<>> \in BoundedSeq(Entry, MaxBatch)
    BY <1>1, EmptyBounded
  <2>2. TypeOK'
    BY <1>3, <2>1 DEF PyWriteBatch_init, StoreInv, TypeOK
  <2> QED BY <1>3, <2>2 DEF PyWriteBatch_init, StoreInv, CallsOnOpen, PosPresent, IsOpen
<1>4. ASSUME Push(t) PROVE StoreInv'
  <2> DEFINE b == th[t].batch
             e == th[t].entry
  <2>1. b \in Batch /\ e \in Entry
    <3>1. th[t] \in Call
      BY DEF StoreInv, TypeOK
    <3>2. th[t].op = "push"
      BY <1>4 DEF Push, At
    <3> QED BY <3>1, <3>2, CallIs
  <2>2. Append(batch[b], e) \in BoundedSeq(Entry, MaxBatch)
    <3>1. batch[b] \in BoundedSeq(Entry, MaxBatch) /\ Len(batch[b]) < MaxBatch
      BY <1>4, <2>1 DEF Push, StoreInv, TypeOK
    <3>2. batch[b] \in Seq(Entry)
      BY <1>1, <3>1, BoundedIsSeq
    <3> HIDE DEF b, e
    <3>3. /\ Append(batch[b], e) \in Seq(Entry)
          /\ Len(Append(batch[b], e)) <= MaxBatch
      BY <1>1, <2>1, <3>1, <3>2
    <3> QED BY <1>1, <3>3, BoundedIsSeq
  <2>3. th' \in [Thread -> Call] /\ CallsOnOpen'
    BY <1>4, BackInv DEF Push
  <2>4. TypeOK'
    BY <1>4, <2>1, <2>2, <2>3 DEF Push, StoreInv, TypeOK
  <2> QED BY <1>4, <2>3, <2>4 DEF Push, StoreInv, PosPresent
<1> QED BY <1>2, <1>3, <1>4

LEMMA EngineWriteInv ==
  ASSUME StoreInv, NEW t \in Thread, EngineWrite(t)
  PROVE  StoreInv'
<1>1. th[t] \in Call /\ th[t].op \in {"put", "write"}
  BY DEF StoreInv, TypeOK, EngineWrite, InWrite
<1>2. th[t].entries \in Seq(Entry)
  <2>1. MaxBatch \in Nat
    BY StoreAssumption
  <2> QED BY <1>1, <2>1, CallIs, BoundedIsSeq
<1>3. Last(disk) \in Contents
  BY DEF StoreInv, TypeOK, Last
<1>4. ApplyTo(Last(disk), th[t].entries) \in Contents
  BY <1>2, <1>3, ApplyToType
<1>5. disk' \in Seq(Contents) /\ disk' # <<>>
  BY <1>4 DEF EngineWrite, StoreInv, TypeOK
<1>6. th' \in [Thread -> Call] /\ CallsOnOpen'
  BY BackInv DEF EngineWrite
<1>7. TypeOK'
  BY <1>5, <1>6 DEF EngineWrite, StoreInv, TypeOK
<1> QED BY <1>6, <1>7 DEF EngineWrite, StoreInv, PosPresent

LEMMA ReadsInv ==
  ASSUME StoreInv, NEW t \in Thread
  PROVE  /\ \A source \in Source, k \in Key : PyLevelDB_Get(t, source, k) => Starts(t)
         /\ EngineGet(t) => StoreInv'
<1>1. ASSUME NEW source \in Source, NEW k \in Key, PyLevelDB_Get(t, source, k) PROVE Starts(t)
  <2> DEFINE call == [op |-> "get", source |-> source, key |-> k]
  <2>1. call \in Call /\ call.source = source /\ call.op = "get"
    BY DEF Call
  <2>2. /\ Begin(t, call) /\ IsOpen(source)
        /\ answer' = <<>> /\ UNCHANGED <<disk, snap, batch, iter>>
    BY <1>1 DEF PyLevelDB_Get
  <2> HIDE DEF call
  <2> QED BY <2>1, <2>2 DEF Starts, Begins, Map!Sound
<1>2. ASSUME EngineGet(t) PROVE StoreInv'
  <2>1. th' \in [Thread -> Call] /\ CallsOnOpen'
    BY <1>2, BackInv DEF EngineGet
  <2>2. TypeOK'
    BY <1>2, <2>1 DEF EngineGet, StoreInv, TypeOK
  <2> QED BY <1>2, <2>1, <2>2 DEF EngineGet, StoreInv, PosPresent
<1> QED BY <1>1, <1>2

LEMMA SnapshotsInv ==
  ASSUME StoreInv, NEW t \in Thread, NEW s \in Snap
  PROVE  /\ PyLevelDB_CreateSnapshot(t, s) => StoreInv'
         /\ PyLevelDBSnapshot_dealloc(t, s) => StoreInv'
<1>1. ASSUME PyLevelDB_CreateSnapshot(t, s) PROVE StoreInv'
  <2>1. Last(disk) \in Contents
    BY DEF StoreInv, TypeOK, Last
  <2>2. TypeOK'
    BY <1>1, <2>1 DEF PyLevelDB_CreateSnapshot, StoreInv, TypeOK
  <2>3. \A source : IsOpen(source) => IsOpen(source)'
    BY <1>1, <2>1, StoreAssumption DEF PyLevelDB_CreateSnapshot, IsOpen, StoreInv, TypeOK
  <2>4. CallsOnOpen'
    BY <1>1, <2>3 DEF PyLevelDB_CreateSnapshot, StoreInv, CallsOnOpen
  <2> QED BY <1>1, <2>2, <2>4 DEF PyLevelDB_CreateSnapshot, StoreInv, PosPresent
<1>2. ASSUME PyLevelDBSnapshot_dealloc(t, s) PROVE StoreInv'
  <2>1. TypeOK'
    BY <1>2 DEF PyLevelDBSnapshot_dealloc, StoreInv, TypeOK
  <2>2. ASSUME NEW u \in Thread, th[u].op \in {"get", "scan"} PROVE IsOpen(th[u].source)'
    <3>1. th[u].source # s /\ IsOpen(th[u].source)
      BY <1>2, <2>2 DEF PyLevelDBSnapshot_dealloc, Busy, StoreInv, CallsOnOpen
    <3> QED BY <1>2, <3>1 DEF PyLevelDBSnapshot_dealloc, IsOpen, StoreInv, TypeOK
  <2>3. CallsOnOpen'
    BY <1>2, <2>2 DEF PyLevelDBSnapshot_dealloc, CallsOnOpen
  <2> QED BY <1>2, <2>1, <2>3 DEF PyLevelDBSnapshot_dealloc, StoreInv, PosPresent
<1> QED BY <1>1, <1>2
\* An iterator is replaced.
LEMMA IterInv ==
  ASSUME StoreInv, NEW i \in Iter, NEW it \in IterStruct,
         iter' = [iter EXCEPT ![i] = it],
         it.open \/ it = Clean(it),
         it.open => it.pos \in Present(it.view) \cup {Invalid}
  PROVE  /\ iter' \in [Iter -> IterStruct]
         /\ \A j \in Iter : iter'[j].open \/ iter'[j] = Clean(iter'[j])
         /\ PosPresent'
<1>1. \A j \in Iter : iter'[j] = IF j = i THEN it ELSE iter[j]
  BY DEF StoreInv, TypeOK
<1> QED BY <1>1 DEF StoreInv, TypeOK, PosPresent

LEMMA RangeIterBegins ==
  ASSUME StoreInv, NEW t \in Thread, NEW i \in Iter, NEW source \in Source,
         NEW from \in Limits, NEW to \in Limits,
         NEW is_reverse \in BOOLEAN, NEW include_value \in BOOLEAN,
         PyLevelDB_RangeIter(t, i, source, from, to, is_reverse, include_value)
  PROVE  Starts(t)
<1> DEFINE call == [op |-> "scan", source |-> source, iter |-> i, from |-> from, to |-> to,
                    is_reverse |-> is_reverse, include_value |-> include_value]
<1>1. from \in Bound /\ to \in Bound
  BY StoreAssumption
<1>2. call \in Call /\ call.source = source /\ call.op = "scan"
  BY <1>1 DEF Call
<1>3. /\ Begin(t, call) /\ IsOpen(source)
      /\ answer' = <<>> /\ UNCHANGED <<disk, snap, batch, iter>>
  BY DEF PyLevelDB_RangeIter
<1> HIDE DEF call
<1> QED BY <1>2, <1>3 DEF Starts, Begins, Map!Sound

LEMMA EngineSeekInv ==
  ASSUME StoreInv, NEW t \in Thread, EngineSeek(t)
  PROVE  StoreInv'
<1> DEFINE c == th[t]
           v == View(c.source)
           pos == StartPos(v, c.from, c.to, c.is_reverse)
           new == [open |-> TRUE, view |-> v, pos |-> pos,
                   bound |-> IF c.is_reverse THEN c.from ELSE c.to,
                   is_reverse |-> c.is_reverse, include_value |-> c.include_value]
           it == IF pos = Invalid THEN Cleaned ELSE new
<1>1. c \in Call /\ c.op = "scan"
  BY DEF StoreInv, TypeOK, EngineSeek, At
<1>2. /\ c.source \in Source /\ c.iter \in Iter
      /\ c.from \in Bound /\ c.to \in Bound
      /\ c.is_reverse \in BOOLEAN /\ c.include_value \in BOOLEAN
  BY <1>1, CallIs
<1>3. v \in Contents
  <2>1. IsOpen(c.source)
    BY <1>1 DEF StoreInv, CallsOnOpen
  <2> QED BY <1>2, <2>1, ViewType DEF StoreInv
<1>4. pos = Invalid \/ pos \in Present(v)
  BY <1>2, StartIsFirst
<1>5. pos \in Key \cup {Invalid}
  BY <1>4 DEF Present
<1>6. iter' = [iter EXCEPT ![c.iter] = it]
  BY DEF EngineSeek
<1> HIDE DEF c, v, pos
<1>7. new \in IterStruct /\ new.open /\ new.pos = pos /\ new.view = v
  BY <1>2, <1>3, <1>5 DEF IterStruct
<1>8. /\ it \in IterStruct /\ (it.open \/ it = Clean(it))
      /\ it.open => it.pos \in Present(it.view) \cup {Invalid}
  <2> HIDE DEF new
  <2>1. CASE pos = Invalid
    BY <2>1, CleanType
  <2>2. CASE pos # Invalid
    BY <1>4, <1>7, <2>2
  <2> QED BY <2>1, <2>2
<1> HIDE DEF it
<1>9. /\ iter' \in [Iter -> IterStruct]
      /\ \A j \in Iter : iter'[j].open \/ iter'[j] = Clean(iter'[j])
      /\ PosPresent'
  BY <1>2, <1>6, <1>8, IterInv
<1>10. th' \in [Thread -> Call] /\ CallsOnOpen'
  BY BackInv DEF EngineSeek
<1>11. TypeOK'
  BY <1>9, <1>10 DEF EngineSeek, StoreInv, TypeOK
<1> QED BY <1>9, <1>10, <1>11 DEF StoreInv

\* The calls that have only to do with an iterator.
LEMMA NextCallsInv ==
  ASSUME StoreInv, NEW t \in Thread, NEW i \in Iter
  PROVE  /\ PyLevelDBIter_next_end(t, i) => StoreInv'
         /\ PyLevelDBIter_next_item(t, i) => StoreInv'
         /\ PyLevelDBIter_dealloc(t, i) => StoreInv'
<1>0. iter[i] \in IterStruct
  BY DEF StoreInv, TypeOK
<1>1. ASSUME NEW it \in IterStruct,
             iter' = [iter EXCEPT ![i] = it], UNCHANGED <<disk, snap, batch, th>>,
             it.open \/ it = Clean(it),
             it.open => it.pos \in Present(it.view) \cup {Invalid}
      PROVE  StoreInv'
  <2>1. /\ iter' \in [Iter -> IterStruct]
        /\ \A j \in Iter : iter'[j].open \/ iter'[j] = Clean(iter'[j])
        /\ PosPresent'
    BY <1>1, IterInv
  <2>2. TypeOK'
    BY <1>1, <2>1 DEF StoreInv, TypeOK
  <2> QED BY <1>1, <2>1, <2>2 DEF StoreInv, CallsOnOpen, IsOpen
<1>2. ASSUME PyLevelDBIter_next_end(t, i) PROVE StoreInv'
  <2> DEFINE it == Clean(iter[i])
  <2>1. it \in IterStruct /\ it = Clean(it) /\ ~it.open
    BY <1>0, CleanType
  <2>2. iter' = [iter EXCEPT ![i] = it] /\ UNCHANGED <<disk, snap, batch, th>>
    BY <1>2 DEF PyLevelDBIter_next_end, StoreInv, TypeOK
  <2> HIDE DEF it
  <2> QED BY <1>1, <2>1, <2>2
<1>3. ASSUME PyLevelDBIter_next_item(t, i) PROVE StoreInv'
  <2> DEFINE v == iter[i].view
             p == iter[i].pos
             q == IF iter[i].is_reverse THEN PrevOf(v, p) ELSE NextOf(v, p)
             it == [iter[i] EXCEPT !.pos = q]
  <2>1. iter[i].open /\ p \in Present(v)
    BY <1>3 DEF PyLevelDBIter_next_item, Finished, StoreInv, PosPresent
  <2>2. p \in Int /\ Present(v) \subseteq Key /\ iter[i].is_reverse \in BOOLEAN
    BY <1>0, <2>1, MapDataAssumption DEF IterStruct, Present
  <2>3. q \in Present(v) \cup {Invalid}
    <3> HIDE DEF p, v
    <3> QED BY <2>2, StepIs
  <2>4. iter' = [iter EXCEPT ![i] = it] /\ UNCHANGED <<disk, snap, batch, th>>
    BY <1>3 DEF PyLevelDBIter_next_item, StoreInv, TypeOK
  <2> HIDE DEF q
  <2>5. /\ it \in IterStruct /\ it.open
        /\ it.pos = q /\ it.view = v
    BY <1>0, <2>1, <2>2, <2>3 DEF IterStruct
  <2> HIDE DEF it
  <2> QED BY <1>1, <2>3, <2>4, <2>5
<1>4. ASSUME PyLevelDBIter_dealloc(t, i) PROVE StoreInv'
  BY <1>1, <1>4, CleanType DEF PyLevelDBIter_dealloc
<1> QED BY <1>2, <1>3, <1>4

LEMMA CrashInv ==
  ASSUME StoreInv, Crash
  PROVE  StoreInv'
<1>1. disk' \in Seq(Contents) /\ disk' # <<>>
  <2>1. PICK n \in DOMAIN disk : disk' = <<disk[n]>>
    BY DEF Crash
  <2>2. disk[n] \in Contents
    BY <2>1 DEF StoreInv, TypeOK
  <2> QED BY <2>1, <2>2
<1>2. batch' \in [Batch -> BoundedSeq(Entry, MaxBatch)]
  <2>1. MaxBatch \in Nat
    BY StoreAssumption
  <2> QED BY <2>1, EmptyBounded DEF Crash
<1>3. th' \in [Thread -> Call] /\ \A t \in Thread : th'[t].op = "idle"
  BY DEF Crash, Call, Idle
<1>4. snap' \in [Snap -> Contents \cup {Closed}]
  BY DEF Crash
<1>5. iter' \in [Iter -> IterStruct] /\ \A i \in Iter : iter'[i] = Cleaned
  BY CleanType DEF Crash
<1>6. TypeOK'
  BY <1>1, <1>2, <1>3, <1>4, <1>5, CleanType DEF TypeOK
<1> QED BY <1>3, <1>5, <1>6, CleanType DEF StoreInv, CallsOnOpen, PosPresent

LEMMA NextInv == StoreInv /\ [Next]_vars => StoreInv'
<1> SUFFICES ASSUME StoreInv, [Next]_vars PROVE StoreInv'
  OBVIOUS
<1>1. CASE UNCHANGED vars
  BY <1>1 DEF vars, StoreInv, TypeOK, CallsOnOpen, PosPresent, IsOpen
<1>2. CASE Crash
  BY <1>2, CrashInv
<1>3. \A t \in Thread : \A call : Begins(t, call) => StoreInv'
  BY BeginInv
<1>4. ASSUME NEW t \in Thread, Native(t) PROVE StoreInv'
  BY <1>4, EngineWriteInv, BatchesInv, ReadsInv, EngineSeekInv DEF Native
<1>5. ASSUME NEW t \in Thread, Update(t) PROVE StoreInv'
  BY <1>3, <1>5, WritesBegin, BatchesInv DEF Update, Starts
<1>6. ASSUME NEW t \in Thread, Query(t) PROVE StoreInv'
  BY <1>3, <1>6, ReadsInv, SnapshotsInv, NextCallsInv, RangeIterBegins DEF Query, Starts
<1> QED BY <1>1, <1>2, <1>4, <1>5, <1>6 DEF Next

\* A call on a snapshot finds it there, and an iterator stands on a key of its
\* view or past the end, whatever the threads do between the two parts of a call.
THEOREM InvCorrect == Spec => []StoreInv
BY InitInv, NextInv, PTL DEF Spec

\* Every object, call and contents keeps its type, and a range iterator that is
\* not open holds nothing.
THEOREM TypeCorrect == Spec => []TypeOK
<1>1. StoreInv => TypeOK
  BY DEF StoreInv
<1> QED BY <1>1, InvCorrect, PTL
----------------------------------------------------------------------------
(* The refinement *)

\* The items left, as module OrderedMap sees them.
Scans == [i \in Iter |-> Rest(iter[i])]

LEMMA SameData ==
  /\ Map!Entry = Entry /\ Map!Bound = Bound /\ Map!Empty = Empty /\ Map!Live = Live
  /\ Map!Source = Source /\ Map!Idle = Idle
  /\ \A source : Map!View(source) = View(source)
  /\ \A c, es : Map!ApplyTo(c, es) = ApplyTo(c, es)
  /\ \A c, from, to : Map!InRange(c, from, to) = InRange(c, from, to)
  /\ \A c, S, reverse, include_value :
       Map!Listing(c, S, reverse, include_value) = Listing(c, S, reverse, include_value)
<1>1. /\ Map!Entry = Entry /\ Map!Bound = Bound /\ Map!Empty = Empty /\ Map!Live = Live
      /\ Map!Source = Source /\ Map!Idle = Idle
  BY DEF Map!Entry, Entry, Map!Bound, Bound, Map!Empty, Empty, Map!Live, Live,
         Map!Source, Source, Map!Idle, Idle
<1>2. \A source : Map!View(source) = View(source)
  BY DEF Map!View, View, Map!Live, Live, Map!Last, Last
<1>3. \A c, es : Map!ApplyTo(c, es) = ApplyTo(c, es)
  BY DEF Map!ApplyTo, ApplyTo, Map!EntriesFor, EntriesFor, Map!LastFor, LastFor
<1>4. \A c, from, to : Map!InRange(c, from, to) = InRange(c, from, to)
  BY DEF Map!InRange, InRange, Map!Present, Present
<1>5. \A c, S, reverse, include_value :
       Map!Listing(c, S, reverse, include_value) = Listing(c, S, reverse, include_value)
  BY DEF Map!Listing, Listing, Map!Item, Item, Map!NthKey, NthKey, Map!Rank, Rank, Map!Cardinality, Cardinality, Map!IsFiniteSet, IsFiniteSet
<1> QED BY <1>1, <1>2, <1>3, <1>4, <1>5

LEMMA RestOfClean ==
  /\ Rest(Cleaned) = <<>>
  /\ \A it : Rest(Clean(it)) = <<>>
BY CleanType DEF Rest, Cleaned, Clean

LEMMA InitMap == Init => Map!Init
<1> SUFFICES ASSUME Init PROVE Map!Init
  OBVIOUS
<1>1. Scans = [i \in Iter |-> <<>>]
  BY RestOfClean DEF Scans, Init
<1> QED BY <1>1, SameData DEF Map!Init, Init, Scans

LEMMA CallIsRequest ==
  ASSUME NEW c \in Call
  PROVE  c \in Map!Request
<1>1. \A es \in BoundedSeq(Entry, MaxBatch) : es \in Seq(Entry)
  <2>1. MaxBatch \in Nat
    BY StoreAssumption
  <2> QED BY <2>1, BoundedIsSeq
<1>2. CASE c \in [op: {"put"}, entries: BoundedSeq(Entry, MaxBatch), sync: BOOLEAN]
  <2>1. c \in [op: {"put"}, entries: Seq(Entry), sync: BOOLEAN]
    BY <1>1, <1>2
  <2> QED BY <2>1, SameData DEF Map!Request
<1>3. CASE c \in [op: {"write"}, batch: Batch, entries: BoundedSeq(Entry, MaxBatch), sync: BOOLEAN]
  <2>1. c \in [op: {"write"}, batch: Batch, entries: Seq(Entry), sync: BOOLEAN]
    BY <1>1, <1>3
  <2> QED BY <2>1, SameData DEF Map!Request
<1>4. CASE c \in {Idle} \cup [op: {"push"}, batch: Batch, entry: Entry]
              \cup [op: {"get"}, source: Source, key: Key]
              \cup [op: {"scan"}, source: Source, iter: Iter, from: Bound, to: Bound,
                    is_reverse: BOOLEAN, include_value: BOOLEAN]
  BY <1>4, SameData DEF Map!Request
<1> QED BY <1>2, <1>3, <1>4 DEF Call

\* Beginning any call is a Start of the map.
LEMMA StartMap ==
  ASSUME StoreInv, NEW t \in Thread, Starts(t)
  PROVE  Map!Start(t)
<1>0. PICK call \in Call : /\ Begin(t, call) /\ Map!Sound(call)
                           /\ answer' = <<>> /\ UNCHANGED <<disk, snap, batch, iter>>
  BY DEF Starts, Begins
<1>1. th' \in [Thread -> Call] /\ \A u \in Thread : th'[u] = IF u = t THEN call ELSE th[u]
  BY <1>0 DEF StoreInv, TypeOK, Begin
<1>2. th[t] = Map!Idle
  BY <1>0, CallIs, SameData DEF Begin, At, StoreInv, TypeOK
<1>3. th' \in [Thread -> Map!Request]
  BY <1>1, CallIsRequest
<1>4. Map!Sound(th'[t])
  BY <1>0, <1>1
<1>5. UNCHANGED Scans
  BY <1>0 DEF Scans
<1> QED BY <1>0, <1>1, <1>2, <1>3, <1>4, <1>5 DEF Map!Start, Scans

LEMMA ReturnMap ==
  ASSUME NEW t \in Thread, NEW op, At(t, op), Back(t)
  PROVE  Map!Return(t, op)
BY SameData DEF At, Back, Map!Return

LEMMA BatchMap ==
  ASSUME NEW t \in Thread
  PROVE  /\ \A b \in Batch : PyWriteBatch_init(t, b) => Map!Clear(b)
         /\ Push(t) => Map!Push(t)
<1>1. ASSUME NEW b \in Batch, PyWriteBatch_init(t, b) PROVE Map!Clear(b)
  <2>1. UNCHANGED Scans
    BY <1>1 DEF PyWriteBatch_init, Scans
  <2> QED BY <1>1, <2>1 DEF PyWriteBatch_init, Map!Clear, Scans
<1>2. ASSUME Push(t) PROVE Map!Push(t)
  <2>1. UNCHANGED Scans
    BY <1>2 DEF Push, Scans
  <2>2. Map!Return(t, "push")
    BY <1>2, ReturnMap DEF Push
  <2> QED BY <1>2, <2>1, <2>2 DEF Push, Map!Push, Scans
<1> QED BY <1>1, <1>2

LEMMA WriteMap ==
  ASSUME NEW t \in Thread, EngineWrite(t)
  PROVE  Map!Write(t)
<1>1. Map!Return(t, "put") \/ Map!Return(t, "write")
  BY ReturnMap DEF EngineWrite, InWrite, At
<1>2. UNCHANGED <<batch, snap, Scans>> /\ answer' = <<>>
  BY DEF EngineWrite, Scans
<1>3. disk' = IF th[t].sync THEN <<ApplyTo(Last(disk), th[t].entries)>>
              ELSE Append(disk, ApplyTo(Last(disk), th[t].entries))
  BY DEF EngineWrite
<1>4. Map!Last(disk) = Last(disk)
  BY DEF Map!Last, Last
<1>5. disk' = IF th[t].sync THEN <<Map!ApplyTo(Map!Last(disk), th[t].entries)>>
              ELSE Append(disk, Map!ApplyTo(Map!Last(disk), th[t].entries))
  BY <1>3, <1>4, SameData
<1> QED BY <1>1, <1>2, <1>5 DEF Map!Write, Scans

LEMMA GetMap ==
  ASSUME StoreInv, NEW t \in Thread, EngineGet(t)
  PROVE  Map!Get(t)
<1>1. Map!Return(t, "get")
  BY ReturnMap DEF EngineGet
<1>2. UNCHANGED <<disk, batch, snap, Scans>>
  BY DEF EngineGet, Scans
<1>3. th[t].source \in Source /\ IsOpen(th[t].source)
  <2>1. th[t] \in Call /\ th[t].op = "get"
    BY DEF EngineGet, At, StoreInv, TypeOK
  <2> QED BY <2>1, CallIs DEF StoreInv, CallsOnOpen
<1>4. View(th[t].source) # Closed
  BY <1>3, ViewType DEF StoreInv
<1>5. answer' = <<View(th[t].source)[th[t].key]>>
  BY DEF EngineGet
<1>6. /\ Map!View(th[t].source) # Closed
      /\ answer' = <<Map!View(th[t].source)[th[t].key]>>
  BY <1>4, <1>5, SameData
<1> QED BY <1>1, <1>2, <1>6 DEF Map!Get, Scans

\* An iterator is replaced, and with it what it has still to return.
LEMMA ScansChange ==
  ASSUME StoreInv, NEW i \in Iter, NEW it, iter' = [iter EXCEPT ![i] = it]
  PROVE  Scans' = [Scans EXCEPT ![i] = Rest(it)]
<1>1. \A j \in Iter : iter'[j] = IF j = i THEN it ELSE iter[j]
  BY DEF StoreInv, TypeOK
<1>2. Scans' = [j \in Iter |-> Rest(iter'[j])]
  BY DEF Scans, Rest, Listing, Item, NthKey, Rank, Present
<1>3. \A j \in Iter : Rest(iter'[j]) = IF j = i THEN Rest(it) ELSE Rest(iter[j])
  BY <1>1
<1>4. Scans' = [j \in Iter |-> IF j = i THEN Rest(it) ELSE Rest(iter[j])]
  BY <1>2, <1>3
<1>5. [Scans EXCEPT ![i] = Rest(it)] = [j \in Iter |-> IF j = i THEN Rest(it) ELSE Rest(iter[j])]
  BY DEF Scans
<1> QED BY <1>4, <1>5

LEMMA RestIs ==
  ASSUME NEW it, it.open, it.pos # Invalid
  PROVE  Rest(it) = Listing(it.view, Ahead(it.view, it.pos, it.bound, it.is_reverse),
                            it.is_reverse, it.include_value)
BY DEF Rest, Ahead

\* What RangeIter leaves to return is the range, as it was when it read it.
LEMMA ScanMap ==
  ASSUME StoreInv, NEW t \in Thread, EngineSeek(t)
  PROVE  Map!Scan(t)
<1> DEFINE c == th[t]
           v == View(c.source)
           pos == StartPos(v, c.from, c.to, c.is_reverse)
           new == [open |-> TRUE, view |-> v, pos |-> pos,
                   bound |-> IF c.is_reverse THEN c.from ELSE c.to,
                   is_reverse |-> c.is_reverse, include_value |-> c.include_value]
           it == IF pos = Invalid THEN Cleaned ELSE new
           range == Listing(v, InRange(v, c.from, c.to), c.is_reverse, c.include_value)
<1>1. c \in Call /\ c.op = "scan"
  BY DEF StoreInv, TypeOK, EngineSeek, At
<1>2. /\ c.source \in Source /\ c.iter \in Iter
      /\ c.from \in Bound /\ c.to \in Bound
      /\ c.is_reverse \in BOOLEAN /\ c.include_value \in BOOLEAN
  BY <1>1, CallIs
<1>3. v # Closed
  <2>1. IsOpen(c.source)
    BY <1>1 DEF StoreInv, CallsOnOpen
  <2> QED BY <1>2, <2>1, ViewType DEF StoreInv
<1>4. iter' = [iter EXCEPT ![c.iter] = it]
  BY DEF EngineSeek
<1>5. Rest(it) = range
  <2>1. /\ pos = Invalid => InRange(v, c.from, c.to) = {}
        /\ pos # Invalid => Ahead(v, pos, IF c.is_reverse THEN c.from ELSE c.to, c.is_reverse)
                            = InRange(v, c.from, c.to)
    BY <1>2, StartIsFirst
  <2> HIDE DEF c, v, pos
  <2>2. CASE pos = Invalid
    BY <2>1, <2>2, RestOfClean, EmptyListing
  <2>3. CASE pos # Invalid
    <3>1. /\ new.open /\ new.pos = pos /\ new.view = v
          /\ new.bound = (IF c.is_reverse THEN c.from ELSE c.to)
          /\ new.is_reverse = c.is_reverse /\ new.include_value = c.include_value
      OBVIOUS
    <3> HIDE DEF new
    <3>2. Rest(new) = range
      BY <2>1, <2>3, <3>1, RestIs
    <3> QED BY <2>3, <3>2
  <2> QED BY <2>2, <2>3
<1>6. Scans' = [Scans EXCEPT ![c.iter] = range]
  <2> HIDE DEF c, it, range
  <2> QED BY <1>2, <1>4, <1>5, ScansChange
<1>7. Map!Return(t, "scan")
  BY ReturnMap DEF EngineSeek
<1>8. UNCHANGED <<disk, batch, snap>> /\ answer' = <<>>
  BY DEF EngineSeek
<1>9. /\ Map!View(c.source) # Closed
      /\ Scans' = [Scans EXCEPT ![c.iter] =
            Map!Listing(Map!View(c.source), Map!InRange(Map!View(c.source), c.from, c.to),
                        c.is_reverse, c.include_value)]
  <2> HIDE DEF c
  <2> QED BY <1>3, <1>6, SameData
<1> QED BY <1>7, <1>8, <1>9 DEF Map!Scan, Scans

LEMMA ForgetMap ==
  ASSUME StoreInv, NEW t \in Thread, NEW i \in Iter,
         PyLevelDBIter_next_end(t, i) \/ PyLevelDBIter_dealloc(t, i)
  PROVE  Map!Forget(i)
<1>1. /\ answer' = <<>> /\ UNCHANGED <<disk, batch, snap, th>>
      /\ \/ iter' = [iter EXCEPT ![i] = Clean(iter[i])]
         \/ iter' = [iter EXCEPT ![i] = Cleaned]
  BY DEF PyLevelDBIter_next_end, PyLevelDBIter_dealloc
<1>2. Scans' = [Scans EXCEPT ![i] = <<>>]
  <2>1. CASE iter' = [iter EXCEPT ![i] = Clean(iter[i])]
    BY <2>1, RestOfClean, ScansChange
  <2>2. CASE iter' = [iter EXCEPT ![i] = Cleaned]
    BY <2>2, RestOfClean, ScansChange
  <2> QED BY <1>1, <2>1, <2>2
<1> QED BY <1>1, <1>2 DEF Map!Forget, Scans

\* What is left of a scan begins with the key it stands on ...
LEMMA AheadFirst ==
  ASSUME NEW v, NEW p, NEW bound, NEW reverse, NEW inc,
         bound \in Bound, p \in Present(v),
         bound = NoBound \/ IF reverse THEN p >= bound ELSE p <= bound
  PROVE  /\ IsFirst(p, Ahead(v, p, bound, reverse), reverse)
         /\ IsCons(Listing(v, Ahead(v, p, bound, reverse), reverse, inc), Item(v, p, inc),
                   Listing(v, Ahead(v, p, bound, reverse) \ {p}, reverse, inc))
<1> DEFINE S == Ahead(v, p, bound, reverse)
<1>1. Present(v) \in SUBSET Int /\ p \in Int
  BY MapDataAssumption DEF Present
<1>2. S \in SUBSET Int /\ IsFiniteSet(S)
  <2>1. S \in SUBSET Present(v)
    BY DEF Ahead
  <2> QED BY <2>1, PresentFinite
<1>3. IsFirst(p, S, reverse)
  <2>1. p \in S
    BY <1>1 DEF Ahead
  <2>2. \A j \in S \ {p} : Before(p, j, reverse)
    BY <1>1 DEF Ahead, Before
  <2> QED BY <2>1, <2>2 DEF IsFirst
<1> HIDE DEF S
<1>4. IsCons(Listing(v, S, reverse, inc), Item(v, p, inc), Listing(v, S \ {p}, reverse, inc))
  BY <1>2, <1>3, ListingStep
<1> QED BY <1>3, <1>4 DEF S

\* ... and a step leaves the rest of it.
LEMMA AheadRest ==
  ASSUME NEW v, NEW p, NEW q, NEW bound, NEW reverse, p \in Present(v),
         IsFirst(p, Ahead(v, p, bound, reverse), reverse),
         q = IF reverse THEN PrevOf(v, p) ELSE NextOf(v, p)
  PROVE  /\ q = Invalid => Ahead(v, p, bound, reverse) \ {p} = {}
         /\ q # Invalid => Ahead(v, p, bound, reverse) \ {p} = Ahead(v, q, bound, reverse)
<1>1. Present(v) \in SUBSET Int /\ p \in Int /\ Invalid \notin Present(v)
  BY MapDataAssumption, StoreAssumption DEF Present
<1>2. \/ q = Invalid /\ \A k \in Present(v) : ~Before(p, k, reverse)
      \/ /\ q \in Present(v) /\ Before(p, q, reverse)
         /\ \A k \in Present(v) : Before(p, k, reverse) => k = q \/ Before(q, k, reverse)
  BY <1>1, StepIs
<1>3. ASSUME q = Invalid PROVE Ahead(v, p, bound, reverse) \ {p} = {}
  BY <1>1, <1>2, <1>3 DEF Ahead, IsFirst
<1>4. ASSUME q # Invalid
      PROVE  Ahead(v, p, bound, reverse) \ {p} = Ahead(v, q, bound, reverse)
  <2>1. /\ q \in Present(v) /\ q \in Int /\ Before(p, q, reverse)
        /\ \A k \in Present(v) : Before(p, k, reverse) => k = q \/ Before(q, k, reverse)
    BY <1>1, <1>2, <1>4
  <2>2. CASE reverse
    <3>1. \A k \in Present(v) : k <= q <=> (k <= p /\ k # p)
      BY <1>1, <2>1, <2>2 DEF Before
    <3> QED BY <2>2, <3>1 DEF Ahead
  <2>3. CASE ~reverse
    <3>1. \A k \in Present(v) : k >= q <=> (k >= p /\ k # p)
      BY <1>1, <2>1, <2>3 DEF Before
    <3> QED BY <2>3, <3>1 DEF Ahead
  <2> QED BY <2>2, <2>3
<1> QED BY <1>3, <1>4

LEMMA RestStep ==
  ASSUME NEW it \in IterStruct, it.open, it.pos \in Present(it.view), ~PastBound(it),
         NEW q, q = IF it.is_reverse THEN PrevOf(it.view, it.pos) ELSE NextOf(it.view, it.pos)
  PROVE  IsCons(Rest(it), Item(it.view, it.pos, it.include_value), Rest([it EXCEPT !.pos = q]))
<1> DEFINE new == [it EXCEPT !.pos = q]
           S == Ahead(it.view, it.pos, it.bound, it.is_reverse)
<1>1. /\ it.bound \in Bound /\ it.pos # Invalid
      /\ it.bound = NoBound \/ IF it.is_reverse THEN it.pos >= it.bound ELSE it.pos <= it.bound
  <2>1. it.pos \in Int /\ it.pos # Invalid
    BY MapDataAssumption, StoreAssumption DEF Present
  <2>2. it.bound = NoBound \/ it.bound \in Int
    BY DEF IterStruct, Bound
  <2>3. it.bound \in Bound
    BY DEF IterStruct
  <2> QED BY <2>1, <2>2, <2>3 DEF PastBound
<1>2. Rest(it) = Listing(it.view, S, it.is_reverse, it.include_value)
  BY <1>1, RestIs
<1>3. /\ IsFirst(it.pos, S, it.is_reverse)
      /\ IsCons(Rest(it), Item(it.view, it.pos, it.include_value),
                Listing(it.view, S \ {it.pos}, it.is_reverse, it.include_value))
  BY <1>1, <1>2, AheadFirst
<1>4. /\ new.open /\ new.pos = q /\ new.view = it.view /\ new.bound = it.bound
      /\ new.is_reverse = it.is_reverse /\ new.include_value = it.include_value
  BY DEF IterStruct
<1>5. /\ q = Invalid => S \ {it.pos} = {}
      /\ q # Invalid => S \ {it.pos} = Ahead(it.view, q, it.bound, it.is_reverse)
  BY <1>3, AheadRest
<1> HIDE DEF new, S
<1>6. Rest(new) = Listing(it.view, S \ {it.pos}, it.is_reverse, it.include_value)
  <2>1. CASE q = Invalid
    BY <1>4, <1>5, <2>1, EmptyListing DEF Rest
  <2>2. CASE q # Invalid
    BY <1>4, <1>5, <2>2, RestIs
  <2> QED BY <2>1, <2>2
<1> QED BY <1>3, <1>6 DEF new

\* next() returns the first item that is left, and leaves the others.
LEMMA TakeMap ==
  ASSUME StoreInv, NEW t \in Thread, NEW i \in Iter, PyLevelDBIter_next_item(t, i)
  PROVE  Map!Take(i)
<1> DEFINE it == iter[i]
           q == IF it.is_reverse THEN PrevOf(it.view, it.pos) ELSE NextOf(it.view, it.pos)
           new == [it EXCEPT !.pos = q]
<1>1. it \in IterStruct /\ it.open /\ it.pos \in Present(it.view) /\ ~PastBound(it)
  BY DEF PyLevelDBIter_next_item, Finished, StoreInv, TypeOK, PosPresent
<1>2. IsCons(Rest(it), Item(it.view, it.pos, it.include_value), Rest(new))
  <2> HIDE DEF it, q
  <2>1. \A x : x = q =>
          IsCons(Rest(it), Item(it.view, it.pos, it.include_value), Rest([it EXCEPT !.pos = x]))
    BY <1>1, RestStep DEF q
  <2> QED BY <2>1
<1>3. iter' = [iter EXCEPT ![i] = new]
  BY DEF PyLevelDBIter_next_item, StoreInv, TypeOK
<1>4. answer' = Item(it.view, it.pos, it.include_value)
  BY DEF PyLevelDBIter_next_item, Item
<1>5. UNCHANGED <<disk, batch, snap, th>>
  BY DEF PyLevelDBIter_next_item
<1>6. Scans[i] = Rest(it)
  BY DEF Scans
<1> HIDE DEF it, q, new
<1>7. Scans' = [Scans EXCEPT ![i] = Tail(@)]
  BY <1>2, <1>3, <1>6, ScansChange DEF IsCons
<1>8. Scans[i] # <<>> /\ answer' = Head(Scans[i])
  BY <1>2, <1>4, <1>6 DEF IsCons
<1> QED BY <1>5, <1>7, <1>8 DEF Map!Take, Scans

LEMMA SnapshotMap ==
  ASSUME StoreInv, NEW t \in Thread, NEW s \in Snap
  PROVE  /\ PyLevelDB_CreateSnapshot(t, s) => Map!Freeze(s)
         /\ PyLevelDBSnapshot_dealloc(t, s) => Map!Thaw(s)
<1>1. ASSUME PyLevelDB_CreateSnapshot(t, s) PROVE Map!Freeze(s)
  <2>1. UNCHANGED <<disk, batch, th, Scans>>
    BY <1>1 DEF PyLevelDB_CreateSnapshot, Scans
  <2> QED BY <1>1, <2>1
          DEF PyLevelDB_CreateSnapshot, Map!Freeze, Map!Last, Last, Scans
<1>2. ASSUME PyLevelDBSnapshot_dealloc(t, s) PROVE Map!Thaw(s)
  <2>1. UNCHANGED <<disk, batch, th, Scans>>
    BY <1>2 DEF PyLevelDBSnapshot_dealloc, Scans
  <2> QED BY <1>2, <2>1 DEF PyLevelDBSnapshot_dealloc, Map!Thaw, Scans
<1> QED BY <1>1, <1>2

LEMMA CrashMap == Crash => Map!Crash
<1> SUFFICES ASSUME Crash PROVE Map!Crash
  OBVIOUS
<1>1. th' = [t \in Thread |-> Map!Idle]
  BY SameData DEF Crash
<1>2. Scans' = [i \in Iter |-> <<>>]
  <2>1. \A i \in Iter : iter'[i] = Cleaned
    BY DEF Crash
  <2>2. Scans' = [i \in Iter |-> Rest(iter'[i])]
    BY DEF Scans, Rest, Listing, Item, NthKey, Rank, Present
  <2> QED BY <2>1, <2>2, RestOfClean
<1> QED BY <1>1, <1>2 DEF Crash, Map!Crash, Scans

LEMMA NextMap == StoreInv /\ [Next]_vars => [Map!Next]_(Map!vars)
<1> SUFFICES ASSUME StoreInv, [Next]_vars PROVE [Map!Next]_(Map!vars)
  OBVIOUS
<1>1. CASE UNCHANGED vars
  <2>1. UNCHANGED <<disk, batch, snap, th, answer, Scans>>
    BY <1>1 DEF vars, Scans
  <2> QED BY <2>1 DEF Map!vars, Scans
<1>2. CASE Crash
  BY <1>2, CrashMap DEF Map!Next
<1>3. ASSUME NEW t \in Thread, Native(t) PROVE Map!Next
  BY <1>3, WriteMap, BatchMap, GetMap, ScanMap DEF Native, Map!Next
<1>4. ASSUME NEW t \in Thread, Update(t) PROVE Map!Next
  BY <1>4, WritesBegin, BatchesInv, StartMap, BatchMap DEF Update, Map!Next
<1>5. ASSUME NEW t \in Thread, Query(t) PROVE Map!Next
  BY <1>5, ReadsInv, RangeIterBegins, StartMap, SnapshotMap, ForgetMap, TakeMap
     DEF Query, Map!Next
<1> QED BY <1>1, <1>2, <1>3, <1>4, <1>5 DEF Next

\* Whatever calls the threads make, wherever the GIL changes hands between and
\* inside them, and wherever the machine stops, the program sees an ordered map
\* whose calls are atomic: a batch is written as it was when Write was called,
\* a range iterator returns exactly what its range held when it was made, in
\* order, and a synchronous write is never lost.
THEOREM ImplementsMap == Spec => ImplementsOrderedMap
BY InvCorrect, InitMap, NextMap, PTL DEF Spec, ImplementsOrderedMap, Map!Spec
============================================================================

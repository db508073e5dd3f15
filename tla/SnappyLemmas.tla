---------------------------- MODULE SnappyLemmas ----------------------------
(***************************************************************************)
(* What the proofs about Snappy share: induction over numbers, on sets;    *)
(* the lengths of module SnappyLength: for the code's seven-bit digits and *)
(* 32-bit words, every uint32 is read back from its encoding; and the      *)
(* readers of module SnappyContents, who read a stream element by element. *)
(***************************************************************************)
EXTENDS SnappyLength, SnappyContents, TLAPS, WellFoundedInduction, SequenceTheorems

----------------------------------------------------------------------------
(* Induction over numbers, on sets *)

\* A set of numbers that is not empty has a least one.
LEMMA LeastNumber ==
  ASSUME NEW S \in SUBSET Nat, S # {}
  PROVE  \E n \in S : \A m \in S : n <= m
<1>1. PICK n \in S : \A m \in S : ~(<<m, n>> \in OpToRel(<, Nat))
  BY NatLessThanWellFounded, WFMin, Zenon
<1>2. \A m \in S : ~(m < n)
  BY <1>1 DEF OpToRel
<1>3. \A m \in S : m \in Nat /\ n \in Nat
  OBVIOUS
<1> QED BY <1>2, <1>3

\* What has zero, and with a number below N the next one, has all up to N.
LEMMA UpTo ==
  ASSUME NEW N \in Nat, NEW S, 0 \in S, \A n \in 1 .. N : n - 1 \in S => n \in S
  PROVE  \A n \in 0 .. N : n \in S
<1> DEFINE T == {n \in 0 .. N : n \notin S}
<1>1. SUFFICES ASSUME T # {} PROVE FALSE
  OBVIOUS
<1>2. PICK n \in T : \A m \in T : n <= m
  <2>1. T \in SUBSET Nat
    OBVIOUS
  <2> HIDE DEF T
  <2> QED BY <1>1, <2>1, LeastNumber
<1>3. n # 0 /\ n - 1 \in 0 .. N /\ n \in 1 .. N
  OBVIOUS
<1> QED BY <1>2, <1>3

\* The values of a sequence of steps inside a set stay in it.
LEMMA StaysIn ==
  ASSUME NEW N \in Nat, NEW X, NEW f, f[0] \in X,
         \A n \in 1 .. N : f[n - 1] \in X => f[n] \in X
  PROVE  \A n \in 0 .. N : f[n] \in X
<1> DEFINE S == {n \in 0 .. N : f[n] \in X}
<1>1. 0 \in S /\ \A n \in 1 .. N : n - 1 \in S => n \in S
  OBVIOUS
<1>2. \A n \in 0 .. N : n \in S
  <2> HIDE DEF S
  <2> QED BY <1>1, UpTo
<1> QED BY <1>2

\* g starts with x and takes N steps, the n-th of them by function F[n].
StepsOf(g, N, x, F) == g[0] = x /\ \A n \in 1 .. N : g[n] = F[n][g[n - 1]]

\* Such a function exists.
LEMMA StepsExist ==
  ASSUME NEW N \in Nat, NEW X, NEW x \in X, NEW F \in [1 .. N -> [X -> X]]
  PROVE  \E g \in [0 .. N -> X] : StepsOf(g, N, x, F)
<1> DEFINE Upto(k, g) == g[0] = x /\ \A n \in 1 .. k : g[n] = F[n][g[n - 1]]
           S == {k \in 0 .. N : \E g \in [0 .. N -> X] : Upto(k, g)}
<1>1. 0 \in S
  <2> DEFINE g == [i \in 0 .. N |-> x]
  <2>1. g \in [0 .. N -> X] /\ g[0] = x
    OBVIOUS
  <2> HIDE DEF g
  <2>2. \A n \in 1 .. 0 : g[n] = F[n][g[n - 1]]
    OBVIOUS
  <2>3. 0 \in 0 .. N /\ Upto(0, g)
    BY <2>1, <2>2
  <2> QED BY <2>1, <2>3, Zenon
<1>2. ASSUME NEW k \in 1 .. N, k - 1 \in S PROVE k \in S
  <2>1. PICK g \in [0 .. N -> X] : Upto(k - 1, g)
    BY <1>2
  <2> DEFINE h == [g EXCEPT ![k] = F[k][g[k - 1]]]
  <2>2. F[k][g[k - 1]] \in X /\ h \in [0 .. N -> X]
    OBVIOUS
  <2>3. h[k] = F[k][g[k - 1]] /\ \A n \in 0 .. k - 1 : h[n] = g[n]
    OBVIOUS
  <2>4. \A n \in 1 .. k : h[n] = F[n][h[n - 1]]
    <3> HIDE DEF h
    <3>1. ASSUME NEW n \in 1 .. k PROVE h[n] = F[n][h[n - 1]]
      <4>1. CASE n = k
        <5>1. k - 1 \in 0 .. k - 1
          OBVIOUS
        <5> QED BY <2>3, <4>1, <5>1
      <4>2. CASE n # k
        <5>1. n \in 1 .. k - 1 /\ n - 1 \in 0 .. k - 1 /\ n \in 0 .. k - 1
          BY <4>2
        <5> QED BY <2>1, <2>3, <5>1
      <4> QED BY <4>1, <4>2
    <3> QED BY <3>1
  <2>5. h[0] = x
    BY <2>1, <2>3
  <2> HIDE DEF h
  <2> QED BY <2>2, <2>4, <2>5
<1>3. N \in S
  <2> HIDE DEF S
  <2>1. \A n \in 1 .. N : n - 1 \in S => n \in S
    BY <1>2
  <2>2. \A n \in 0 .. N : n \in S
    BY <1>1, <2>1, UpTo
  <2> QED BY <2>2
<1> QED BY <1>3 DEF StepsOf

----------------------------------------------------------------------------
(* The length at the start of a stream *)

\* The constants of the code: the digits of Varint are seven bits of a uint32.
Code == Base = 128 /\ Top = 16

\* Their values.
LEMMA CodeConstants ==
  ASSUME Code
  PROVE  /\ Base = 128 /\ Base2 = 16384 /\ Base3 = 2097152
         /\ Base4 = 268435456 /\ Word = 268435456 * 16
  <1>1. Base = 128 /\ Top = 16
    BY DEF Code
  <1>2. Base2 = 16384
    BY <1>1, SMT DEF Base2
  <1>3. Base3 = 2097152
    BY <1>1, <1>2, SMT DEF Base3
  <1>4. Base4 = 268435456
    BY <1>1, <1>3, SMT DEF Base4
  <1>5. Word = 268435456 * 16
    BY <1>1, <1>4, SMT DEF Word
  <1>. QED BY <1>1, <1>2, <1>3, <1>4, <1>5, SMT

\* What is left of a value after the shifts by 0, 7, 14, 21 and 28 bits.
Shifted(v) ==
  << v, v \div 128, v \div 16384, v \div 2097152, v \div 268435456 >>

\* The digits of a uint32: each shift leaves seven bits less.
LEMMA Shifts ==
  ASSUME Code, NEW v \in 0 .. Word - 1
  PROVE  /\ \A i \in 1 .. 5 : Shifted(v)[i] \in Nat
         /\ Shifted(v)[1] = (Shifted(v)[1] % 128) + 128 * Shifted(v)[2]
         /\ Shifted(v)[2] = (Shifted(v)[2] % 128) + 128 * Shifted(v)[3]
         /\ Shifted(v)[3] = (Shifted(v)[3] % 128) + 128 * Shifted(v)[4]
         /\ Shifted(v)[4] = (Shifted(v)[4] % 128) + 128 * Shifted(v)[5]
         /\ Shifted(v)[1] = v /\ Shifted(v)[5] < 16
  <1> DEFINE d == Shifted(v)
  <1>1. v \in Nat /\ v < 268435456 * 16
    BY CodeConstants, SMT
  <1>2. v = (v % 128) + 128 * (v \div 128)
    BY <1>1, SMT
  <1>3. v \div 128 = ((v \div 128) % 128) + 128 * (v \div 16384)
    BY <1>1, SMT
  <1>4. v \div 16384 = ((v \div 16384) % 128) + 128 * (v \div 2097152)
    BY <1>1, SMT
  <1>5. v \div 2097152 = ((v \div 2097152) % 128) + 128 * (v \div 268435456)
    BY <1>1, SMT
  <1>6. v \div 268435456 \in 0 .. 15
    BY <1>1, SMT
  <1>7. \A i \in 1 .. 5 : d[i] \in Nat
    BY <1>1, SMT DEF Shifted
  <1>8. /\ d[1] = (d[1] % 128) + 128 * d[2] /\ d[2] = (d[2] % 128) + 128 * d[3]
        /\ d[3] = (d[3] % 128) + 128 * d[4] /\ d[4] = (d[4] % 128) + 128 * d[5]
    BY <1>2, <1>3, <1>4, <1>5, SMT DEF Shifted
  <1>9. d[1] = v /\ d[5] < 16
    BY <1>6, SMT DEF Shifted
  <1>. QED BY <1>7, <1>8, <1>9

\* The bytes of the code.
LEMMA CodeByte ==
  ASSUME Code
  PROVE  LengthByte = 0 .. 255
  BY CodeConstants, SMT DEF LengthByte

\* Setting and masking the continuation bit.
LEMMA ModFacts ==
  ASSUME NEW x \in Nat
  PROVE  /\ (x % 128) + 128 \in 128 .. 255
         /\ ((x % 128) + 128) % 128 = x % 128
         /\ x < 128 => x % 128 = x
  BY SMT

\* The bytes made of n digits: all but the last continue, the last does not.
LEMMA BytesOfDigits ==
  ASSUME NEW n \in 1 .. 5, NEW d, NEW s,
         \A i \in 1 .. 5 : d[i] \in Nat,
         n < 5 => d[n] < 128, d[5] < 16,
         \A i \in 1 .. n : i < n => s[i] = (d[i] % 128) + 128,
         s[n] = d[n]
  PROVE  /\ \A i \in 1 .. n : s[i] \in 0 .. 255
         /\ \A i \in 1 .. n : s[i] % 128 = d[i] % 128
         /\ \A i \in 1 .. n : i < n => s[i] >= 128
         /\ s[n] < IF n = 5 THEN 16 ELSE 128
  <1>1. ASSUME NEW i \in 1 .. n
        PROVE  /\ s[i] \in 0 .. 255
               /\ s[i] % 128 = d[i] % 128
               /\ i < n => s[i] >= 128
    <2>1. d[i] \in Nat
      OBVIOUS
    <2>2. CASE i < n
      <3>1. s[i] = (d[i] % 128) + 128
        BY <2>2
      <3>2. (d[i] % 128) + 128 \in 128 .. 255 /\ ((d[i] % 128) + 128) % 128 = d[i] % 128
        <4>1. PICK x \in Nat : x = d[i]
          BY <2>1
        <4>. QED BY <4>1, ModFacts, Zenon
      <3>3. s[i] \in 128 .. 255 /\ s[i] % 128 = d[i] % 128
        BY <3>1, <3>2, Zenon
      <3>. QED BY <3>3
    <2>3. CASE i = n
      <3>1. s[i] = d[i]
        BY <2>3
      <3>2. s[i] \in 0 .. 255
        <4>1. CASE n < 5
          BY <2>1, <2>3, <3>1, <4>1
        <4>2. CASE n = 5
          <5>1. s[i] = d[5]
            BY <2>3, <3>1, <4>2
          <5>. QED BY <2>1, <5>1
        <4>. QED BY <4>1, <4>2
      <3>. QED BY <2>3, <3>1, <3>2
    <2>. QED BY <2>2, <2>3
  <1>2. s[n] < IF n = 5 THEN 16 ELSE 128
    OBVIOUS
  <1>. QED BY <1>1, <1>2

\* The number of bytes is the number of digits that are needed.
LEMMA EncodedDigits ==
  ASSUME Code, NEW v \in 0 .. Word - 1
  PROVE  /\ EncodedLength(v) \in 1 .. 5
         /\ EncodedLength(v) < 5 => Shifted(v)[EncodedLength(v)] < 128
         /\ \A i \in 1 .. 5 : i > EncodedLength(v) => Shifted(v)[i] = 0
         /\ Encode32(v) = [i \in 1 .. EncodedLength(v) |->
                             IF i < EncodedLength(v) THEN (Shifted(v)[i] % 128) + 128
                                                     ELSE Shifted(v)[i]]
  <1> DEFINE n == EncodedLength(v)
             d == Shifted(v)
  <1>1. v \in Nat /\ v < 268435456 * 16
    BY CodeConstants, SMT
  <1>2. /\ v < 128 => n = 1
        /\ v >= 128 /\ v < 16384 => n = 2
        /\ v >= 16384 /\ v < 2097152 => n = 3
        /\ v >= 2097152 /\ v < 268435456 => n = 4
        /\ v >= 268435456 => n = 5
    BY <1>1, CodeConstants, SMT DEF EncodedLength, kMax32
  <1>3. n \in 1 .. 5
    BY <1>1, <1>2, SMT
  <1>4. n < 5 => d[n] < 128
    BY <1>1, <1>2, <1>3, SMT DEF Shifted
  <1>5. \A i \in 1 .. 5 : i > n => d[i] = 0
    BY <1>1, <1>2, <1>3, SMT DEF Shifted
  <1>6. Encode32(v) = [i \in 1 .. n |-> IF i < n THEN (d[i] % 128) + 128 ELSE d[i]]
    BY <1>1, CodeConstants, SMT DEF Encode32, Digit, Shifted
  <1>. QED BY <1>3, <1>4, <1>5, <1>6

\* Do the first n bytes of t carry the digits of d[1]?
Carries(t, n, d) ==
  /\ \A i \in 1 .. 5 : d[i] \in Nat
  /\ d[5] < 16
  /\ d[1] = (d[1] % 128) + 128 * d[2] /\ d[2] = (d[2] % 128) + 128 * d[3]
  /\ d[3] = (d[3] % 128) + 128 * d[4] /\ d[4] = (d[4] % 128) + 128 * d[5]
  /\ \A i \in 1 .. n : t[i] % 128 = d[i] % 128
  /\ \A i \in 1 .. 5 : i > n => d[i] = 0

\* What bytes that carry the digits of a value mean to the parser.
LEMMA DigitsAreValue ==
  ASSUME Code, NEW n \in 1 .. 5, NEW t, NEW d, Carries(t, n, d)
  PROVE  Value(t, n) = d[1]
  <1>1. \A i \in 1 .. 5 : (IF i <= n THEN Digit(t[i]) ELSE 0) = d[i] % 128
    BY CodeConstants, SMT DEF Digit, Carries
  <1>2. Value(t, n) = (d[1] % 128) + Base * (d[2] % 128) + Base2 * (d[3] % 128)
                      + Base3 * (d[4] % 128) + Base4 * (d[5] % 128)
    BY <1>1, SMT DEF Value
  <1>3. /\ d[1] \in Nat /\ d[2] \in Nat /\ d[3] \in Nat
        /\ d[4] \in Nat /\ d[5] \in Nat
    BY SMT DEF Carries
  <1>4. d[5] % 128 = d[5]
    <2>1. d[5] < 128
      BY <1>3 DEF Carries
    <2>. QED BY <1>3, <2>1, ModFacts
  <1>5. (d[1] % 128) + Base * (d[2] % 128) + Base2 * (d[3] % 128)
          + Base3 * (d[4] % 128) + Base4 * d[5] = d[1]
    <2>1. PICK x1 \in Nat : x1 = d[1]
      BY <1>3
    <2>2. PICK x2 \in Nat : x2 = d[2]
      BY <1>3
    <2>3. PICK x3 \in Nat : x3 = d[3]
      BY <1>3
    <2>4. PICK x4 \in Nat : x4 = d[4]
      BY <1>3
    <2>5. PICK x5 \in Nat : x5 = d[5]
      BY <1>3
    <2>6. /\ x1 = (x1 % 128) + 128 * x2 /\ x2 = (x2 % 128) + 128 * x3
          /\ x3 = (x3 % 128) + 128 * x4 /\ x4 = (x4 % 128) + 128 * x5
      BY <2>1, <2>2, <2>3, <2>4, <2>5, Zenon DEF Carries
    <2>7. (x1 % 128) + Base * (x2 % 128) + Base2 * (x3 % 128)
            + Base3 * (x4 % 128) + Base4 * x5 = x1
      BY <2>6, CodeConstants, SMT
    <2>. QED BY <2>1, <2>2, <2>3, <2>4, <2>5, <2>7, Zenon
  <1>. QED BY <1>2, <1>4, <1>5

\* Only one byte can end a varint, so the parser finds that one.
LEMMA ParsedEnds ==
  ASSUME NEW s \in Seq(LengthByte), NEW i \in 1 .. kMax32, EndsAt(s, i)
  PROVE  Parsed(s) = i
  <1>1. \A j \in 1 .. kMax32 : EndsAt(s, j) => j = i
    <2> SUFFICES ASSUME NEW j \in 1 .. kMax32, EndsAt(s, j), j # i
                 PROVE  FALSE
      OBVIOUS
    <2>1. Base \in Nat /\ Top \in 1 .. Base
      BY VarintAssumption
    <2>2. s[i] \in Nat /\ s[j] \in Nat
      BY <2>1 DEF EndsAt, LengthByte, kMax32
    <2>3. CASE j < i
      BY <2>1, <2>2, <2>3, SMT DEF EndsAt, More, kMax32
    <2>4. CASE i < j
      BY <2>1, <2>2, <2>4, SMT DEF EndsAt, More, kMax32
    <2>. QED BY <2>3, <2>4 DEF kMax32
  <1>. QED BY <1>1 DEF Parsed

\* Are s the n bytes of the digits of v?
IsEncoded(s, n, v) ==
  /\ n \in 1 .. 5
  /\ \A i \in 1 .. n : s[i] \in 0 .. 255
  /\ \A i \in 1 .. n : s[i] % 128 = Shifted(v)[i] % 128
  /\ \A i \in 1 .. n : i < n => s[i] >= 128
  /\ s[n] < IF n = 5 THEN 16 ELSE 128
  /\ s \in Seq(LengthByte) /\ Len(s) = n

\* Encode32 writes one to five bytes, all but the last of which continue.
LEMMA EncodedBytes ==
  ASSUME Code, NEW v \in 0 .. Word - 1
  PROVE  IsEncoded(Encode32(v), EncodedLength(v), v)
  <1> DEFINE n == EncodedLength(v)
             s == Encode32(v)
             d == Shifted(v)
  <1>1. LengthByte = 0 .. 255
    BY CodeByte
  <1>2. n \in 1 .. 5
    BY EncodedDigits
  <1>3. s = [i \in 1 .. n |-> IF i < n THEN (d[i] % 128) + 128 ELSE d[i]]
    BY EncodedDigits
  <1>4. n < 5 => d[n] < 128
    BY EncodedDigits
  <1>5. (\A i \in 1 .. 5 : d[i] \in Nat) /\ d[5] < 16
    BY Shifts
  <1> HIDE DEF n, s, d
  <1>6. \A i \in 1 .. n : i < n => s[i] = (d[i] % 128) + 128
    BY <1>3
  <1>7. s[n] = d[n]
    BY <1>2, <1>3
  <1>8. /\ \A i \in 1 .. n : s[i] \in 0 .. 255
        /\ \A i \in 1 .. n : s[i] % 128 = d[i] % 128
        /\ \A i \in 1 .. n : i < n => s[i] >= 128
        /\ s[n] < IF n = 5 THEN 16 ELSE 128
    BY <1>2, <1>4, <1>5, <1>6, <1>7, BytesOfDigits, ZenonT(60)
  <1>9. s \in [1 .. n -> LengthByte]
    <2>1. \A i \in 1 .. n : s[i] \in LengthByte
      BY <1>1, <1>8
    <2>2. s = [i \in 1 .. n |-> s[i]]
      BY <1>3
    <2>. QED BY <2>1, <2>2, Zenon
  <1>10. s \in Seq(LengthByte) /\ Len(s) = n
    BY <1>2, <1>9
  <1>. QED BY <1>2, <1>8, <1>10 DEF n, s, d, IsEncoded

\* What Encode32 writes, Parse32WithLimit reads: the same value from exactly the
\* bytes written, for every uint32 and whatever follows in the buffer.
THEOREM EncodingIsParsed ==
  ASSUME Code, NEW v \in 0 .. Word - 1, NEW rest \in Seq(LengthByte)
  PROVE  /\ Parsed(Encode32(v) \o rest) = Len(Encode32(v))
         /\ Value(Encode32(v) \o rest, Len(Encode32(v))) = v
  <1> DEFINE n == EncodedLength(v)
             s == Encode32(v)
             t == s \o rest
  <1>1. /\ n \in 1 .. 5
        /\ \A i \in 1 .. n : s[i] \in 0 .. 255
        /\ \A i \in 1 .. n : s[i] % 128 = Shifted(v)[i] % 128
        /\ \A i \in 1 .. n : i < n => s[i] >= 128
        /\ s[n] < IF n = 5 THEN 16 ELSE 128
        /\ s \in Seq(LengthByte) /\ Len(s) = n
    BY EncodedBytes DEF IsEncoded
  <1> HIDE DEF n, s
  <1>2. /\ t \in Seq(LengthByte) /\ Len(t) >= n
        /\ \A i \in 1 .. n : t[i] = s[i]
    BY <1>1
  <1> HIDE DEF t
  <1>3. EndsAt(t, n)
    BY <1>1, <1>2, CodeConstants, SMT DEF EndsAt, More, Code, kMax32
  <1>4. Parsed(t) = n
    BY <1>1, <1>2, <1>3, ParsedEnds DEF kMax32
  <1>5. Value(t, n) = Shifted(v)[1]
    <2> DEFINE d == Shifted(v)
    <2>1. \A i \in 1 .. n : t[i] % 128 = d[i] % 128
      BY <1>1, <1>2
    <2>2. \A i \in 1 .. 5 : i > n => d[i] = 0
      BY EncodedDigits DEF n
    <2>3. /\ \A i \in 1 .. 5 : d[i] \in Nat
          /\ d[5] < 16
          /\ d[1] = (d[1] % 128) + 128 * d[2] /\ d[2] = (d[2] % 128) + 128 * d[3]
          /\ d[3] = (d[3] % 128) + 128 * d[4] /\ d[4] = (d[4] % 128) + 128 * d[5]
      BY Shifts
    <2> HIDE DEF d
    <2>4. Value(t, n) = d[1]
      <3>1. Carries(t, n, d)
        BY <2>1, <2>2, <2>3 DEF Carries
      <3>. QED BY <1>1, <3>1, DigitsAreValue
    <2>. QED BY <2>4 DEF d
  <1>6. Shifted(v)[1] = v
    BY Shifts
  <1>. QED BY <1>1, <1>4, <1>5, <1>6 DEF n, s, t

----------------------------------------------------------------------------
(* Sequences *)

\* A part of a sequence, from a to z.
LEMMA PartIs ==
  ASSUME NEW C, NEW q \in Seq(C), NEW a \in Nat, NEW z \in Nat, a <= z, z <= Len(q),
         NEW t, t = SubSeq(q, a + 1, z)
  PROVE  t \in Seq(C) /\ Len(t) = z - a /\ \A i \in 1 .. z - a : t[i] = q[a + i]
<1>1. \A i \in a + 1 .. z : q[i] \in C
  OBVIOUS
<1>2. PICK m \in Int : m = a + 1
  OBVIOUS
<1>3. /\ SubSeq(q, m, z) \in Seq(C)
      /\ Len(SubSeq(q, m, z)) = IF m <= z THEN z - m + 1 ELSE 0
      /\ \A i \in 1 .. z - m + 1 : SubSeq(q, m, z)[i] = q[m + i - 1]
  BY <1>1, <1>2, SubSeqProperties
<1>4. t \in Seq(C) /\ Len(t) = z - a
  BY <1>2, <1>3
<1>5. ASSUME NEW i \in 1 .. z - a PROVE t[i] = q[a + i]
  <2>1. i \in 1 .. z - m + 1 /\ m + i - 1 = a + i
    BY <1>2
  <2> QED BY <1>2, <1>3, <2>1
<1> QED BY <1>4, <1>5

\* One sequence after another.
LEMMA JoinIs ==
  ASSUME NEW C, NEW s \in Seq(C), NEW t \in Seq(C)
  PROVE  /\ s \o t \in Seq(C) /\ Len(s \o t) = Len(s) + Len(t)
         /\ \A i \in 1 .. Len(s) : (s \o t)[i] = s[i]
         /\ \A i \in 1 .. Len(t) : (s \o t)[Len(s) + i] = t[i]
<1>1. /\ s \o t \in Seq(C) /\ Len(s \o t) = Len(s) + Len(t)
      /\ \A i \in 1 .. Len(s) : (s \o t)[i] = s[i]
  BY ConcatProperties
<1>2. ASSUME NEW i \in 1 .. Len(t) PROVE (s \o t)[Len(s) + i] = t[i]
  <2>1. PICK k \in Nat : k = Len(s) + i
    OBVIOUS
  <2>2. k \in 1 .. Len(s) + Len(t) /\ ~(k <= Len(s)) /\ k - Len(s) = i
    BY <2>1
  <2>3. (s \o t)[k] = t[k - Len(s)]
    BY <2>2, ConcatProperties
  <2> QED BY <2>1, <2>2, <2>3
<1> QED BY <1>1, <1>2

\* A part of one after another.
LEMMA JoinPart ==
  ASSUME NEW C, NEW u \in Seq(C), NEW s \in Seq(C), NEW a \in Nat, NEW b \in Nat,
         a <= b, b <= Len(s)
  PROVE  u \o SubSeq(s, a + 1, b) \in Seq(C) /\ Len(u \o SubSeq(s, a + 1, b)) = Len(u) + (b - a)
<1>1. PICK t : t = SubSeq(s, a + 1, b)
  OBVIOUS
<1>2. t \in Seq(C) /\ Len(t) = b - a
  BY <1>1, PartIs
<1>3. u \o t \in Seq(C) /\ Len(u \o t) = Len(u) + Len(t)
  BY <1>2, JoinIs
<1> QED BY <1>1, <1>2, <1>3

----------------------------------------------------------------------------
(* The readers of module SnappyContents *)

\* The equation of the bytes that CopyFromSelf makes.
Repeats(b, out, off, n) ==
  b = [i \in 1 .. Len(out) + n |-> IF i <= Len(out) THEN out[i] ELSE b[i - off]]

\* t is out and n bytes more, each the one off bytes back.
Grown(t, out, off, n) ==
  /\ Len(t) = Len(out) + n
  /\ \A i \in 1 .. Len(out) : t[i] = out[i]
  /\ \A i \in Len(out) + 1 .. Len(out) + n : t[i] = t[i - off]

\* Only one sequence is that, the one that CopyFromSelf makes.
LEMMA CopyUnique ==
  ASSUME NEW C, NEW out \in Seq(C), NEW t \in Seq(C), NEW off \in 1 .. Len(out), NEW n \in Nat,
         Grown(t, out, off, n)
  PROVE  CopyFromSelf(out, off, n) = t
  <1> PICK p \in Nat : p = Len(out)
    OBVIOUS
  <1>1. /\ off \in 1 .. p /\ Len(t) = p + n /\ \A i \in 1 .. p : t[i] = out[i]
        /\ \A i \in p + 1 .. p + n : t[i] = t[i - off]
    BY DEF Grown
  <1>2. t = [i \in 1 .. p + n |-> t[i]] /\ Len(out) = p
    BY <1>1
  <1>3. Repeats(t, out, off, n)
    <2>1. ASSUME NEW i \in 1 .. p + n
          PROVE  t[i] = IF i <= p THEN out[i] ELSE t[i - off]
      <3>1. CASE i <= p
        <4>1. i \in 1 .. p
          BY <3>1
        <4>. QED BY <1>1, <3>1, <4>1, Zenon
      <3>2. CASE ~(i <= p)
        <4>1. i \in p + 1 .. p + n
          BY <3>2
        <4>. QED BY <1>1, <3>2, <4>1, Zenon
      <3>. QED BY <3>1, <3>2
    <2>2. t = [i \in 1 .. p + n |-> IF i <= p THEN out[i] ELSE t[i - off]]
      BY <1>2, <2>1, Zenon
    <2>. QED BY <1>2, <2>2, Zenon DEF Repeats
  <1>4. ASSUME NEW b, Repeats(b, out, off, n) PROVE b = t
    <2>1. b = [i \in 1 .. p + n |-> IF i <= p THEN out[i] ELSE b[i - off]]
      BY <1>2, <1>4, Zenon DEF Repeats
    <2> DEFINE Same == {k \in 0 .. p + n : \A j \in 1 .. k : b[j] = t[j]}
    <2>2. 0 \in Same
      OBVIOUS
    <2>3. ASSUME NEW k \in 1 .. p + n, k - 1 \in Same PROVE k \in Same
      <3>1. \A j \in 1 .. k - 1 : b[j] = t[j]
        BY <2>3
      <3>2. b[k] = IF k <= p THEN out[k] ELSE b[k - off]
        BY <2>1, Zenon
      <3>3. CASE k <= p
        BY <1>1, <3>1, <3>2, <3>3
      <3>4. CASE ~(k <= p)
        <4>1. k - off \in 1 .. k - 1 /\ k - off \in 1 .. p + n /\ k \in p + 1 .. p + n
          BY <1>1, <3>4
        <4>2. b[k] = t[k - off]
          BY <3>1, <3>2, <3>4, <4>1
        <4>3. b[k] = t[k]
          BY <1>1, <4>1, <4>2
        <4>. QED BY <3>1, <4>3
      <3>. QED BY <3>3, <3>4
    <2>4. p + n \in Same
      <3> PICK z \in Nat : z = p + n
        OBVIOUS
      <3>1. \A k \in 1 .. z : k - 1 \in Same => k \in Same
        BY <2>3
      <3> HIDE DEF Same
      <3>2. \A k \in 0 .. z : k \in Same
        BY <2>2, <3>1, UpTo
      <3>. QED BY <3>2
    <2>5. \A j \in 1 .. p + n : b[j] = t[j]
      BY <2>4
    <2>6. b = [i \in 1 .. p + n |-> b[i]]
      BY <2>1
    <2>. QED BY <1>2, <2>5, <2>6, Zenon
  <1>5. (CHOOSE b : Repeats(b, out, off, n)) = t
    BY <1>3, <1>4, Zenon
  <1>6. CopyFromSelf(out, off, n)
          = out \o SubSeq(CHOOSE b : Repeats(b, out, off, n), Len(out) + 1, Len(out) + n)
    BY Zenon DEF CopyFromSelf, Repeats
  <1>7. CopyFromSelf(out, off, n) = out \o SubSeq(t, p + 1, p + n)
    BY <1>2, <1>5, <1>6, Zenon
  <1>8. out \o SubSeq(t, p + 1, p + n) = t
    <2>1. 1 \in 1 .. Len(t) + 1 /\ p \in 1 - 1 .. Len(t) /\ p + n \in p .. Len(t)
      BY <1>1
    <2>2. SubSeq(t, 1, p) \o SubSeq(t, p + 1, p + n) = SubSeq(t, 1, p + n)
      BY <2>1, ConcatAdjacentSubSeq
    <2>3. SubSeq(t, 1, p + n) = t
      BY <1>1, SubSeqFull
    <2>4. SubSeq(t, 1, p) = out
      BY <1>1
    <2>. QED BY <2>2, <2>3, <2>4
  <1>. QED BY <1>7, <1>8

\* There is such a sequence.
LEMMA GrownExists ==
  ASSUME NEW C, NEW out \in Seq(C), NEW off \in 1 .. Len(out), NEW n \in Nat
  PROVE  \E t \in Seq(C) : Grown(t, out, off, n)
  <1> DEFINE S == {k \in 0 .. n : \E t \in Seq(C) : Grown(t, out, off, k)}
  <1>1. 0 \in S
    <2>1. Grown(out, out, off, 0)
      BY DEF Grown
    <2>. QED BY <2>1
  <1>2. ASSUME NEW k \in 1 .. n, k - 1 \in S PROVE k \in S
    <2>1. PICK t \in Seq(C) : Grown(t, out, off, k - 1)
      BY <1>2
    <2> PICK p \in Nat : p = Len(out)
      OBVIOUS
    <2>2. PICK z \in Nat : z = p + k /\ off \in 1 .. p
      OBVIOUS
    <2>3. /\ Len(t) = z - 1 /\ \A i \in 1 .. p : t[i] = out[i]
          /\ \A i \in p + 1 .. z - 1 : t[i] = t[i - off]
      BY <2>1, <2>2 DEF Grown
    <2>4. PICK x \in C : x = t[z - off]
      <3>1. z - off \in 1 .. z - 1
        BY <2>2
      <3>2. t[z - off] \in C
        BY <2>3, <3>1
      <3>. QED BY <3>2
    <2>5. PICK u : u = Append(t, x)
      OBVIOUS
    <2>6. u \in Seq(C) /\ Len(u) = z /\ u[z] = x /\ \A i \in 1 .. z - 1 : u[i] = t[i]
      BY <2>2, <2>3, <2>5
    <2>7. ASSUME NEW i \in p + 1 .. z PROVE u[i] = u[i - off]
      <3>1. i - off \in 1 .. z - 1
        BY <2>2
      <3>2. CASE i = z
        BY <2>4, <2>6, <3>1, <3>2
      <3>3. CASE i # z
        <4>1. i \in p + 1 .. z - 1 /\ i \in 1 .. z - 1
          BY <3>3
        <4>. QED BY <2>3, <2>6, <3>1, <4>1
      <3>. QED BY <3>2, <3>3
    <2>8. ASSUME NEW i \in 1 .. p PROVE u[i] = out[i]
      <3>1. i \in 1 .. z - 1
        BY <2>2
      <3>. QED BY <2>3, <2>6, <3>1
    <2>9. Grown(u, out, off, k)
      BY <2>2, <2>6, <2>7, <2>8 DEF Grown
    <2>. QED BY <2>6, <2>9
  <1>3. \A k \in 0 .. n : k \in S
    <2> HIDE DEF S
    <2>. QED BY <1>1, <1>2, UpTo
  <1>4. n \in S
    BY <1>3
  <1>. QED BY <1>4

\* What CopyFromSelf makes.
LEMMA CopyTyped ==
  ASSUME NEW C, NEW out \in Seq(C), NEW off \in 1 .. Len(out), NEW n \in Nat
  PROVE  CopyFromSelf(out, off, n) \in Seq(C) /\ Grown(CopyFromSelf(out, off, n), out, off, n)
  <1>1. PICK t \in Seq(C) : Grown(t, out, off, n)
    BY GrownExists
  <1>2. CopyFromSelf(out, off, n) = t
    BY <1>1, CopyUnique
  <1>. QED BY <1>1, <1>2

\* A copy goes on where it was left.
LEMMA CopyGoesOn ==
  ASSUME NEW C, NEW out \in Seq(C), NEW off \in 1 .. Len(out), NEW k \in Nat, NEW n \in Nat,
         NEW t \in Seq(C), Grown(t, CopyFromSelf(out, off, k), off, n)
  PROVE  t = CopyFromSelf(out, off, k + n)
  <1> PICK c : c = CopyFromSelf(out, off, k)
    OBVIOUS
  <1>1. c \in Seq(C) /\ Grown(c, out, off, k)
    BY CopyTyped
  <1> PICK p \in Nat : p = Len(out)
    OBVIOUS
  <1>2. /\ off \in 1 .. p /\ Len(c) = p + k /\ \A i \in 1 .. p : c[i] = out[i]
        /\ \A i \in p + 1 .. p + k : c[i] = c[i - off]
    BY <1>1 DEF Grown
  <1>3. /\ Len(t) = p + k + n /\ \A i \in 1 .. p + k : t[i] = c[i]
        /\ \A i \in p + k + 1 .. p + k + n : t[i] = t[i - off]
    BY <1>2 DEF Grown
  <1>4. ASSUME NEW i \in p + 1 .. p + (k + n) PROVE t[i] = t[i - off]
    <2>1. CASE i <= p + k
      <3>1. i \in p + 1 .. p + k /\ i \in 1 .. p + k /\ i - off \in 1 .. p + k
        BY <1>2, <2>1
      <3>. QED BY <1>2, <1>3, <3>1
    <2>2. CASE ~(i <= p + k)
      <3>1. i \in p + k + 1 .. p + k + n
        BY <2>2
      <3>. QED BY <1>3, <3>1
    <2>. QED BY <2>1, <2>2
  <1>5. ASSUME NEW i \in 1 .. p PROVE t[i] = out[i]
    <2>1. i \in 1 .. p + k
      OBVIOUS
    <2>. QED BY <1>2, <1>3, <2>1
  <1>6. PICK m \in Nat : m = k + n
    OBVIOUS
  <1>7. Grown(t, out, off, m)
    <2>1. Len(t) = p + m
      BY <1>3, <1>6
    <2>. QED BY <1>4, <1>5, <1>6, <2>1 DEF Grown
  <1>. QED BY <1>6, <1>7, CopyUnique

\* A copy inside a text whose bytes repeat themselves gives the next bytes of the text.
LEMMA CopyIs ==
  ASSUME NEW t \in Seq(Byte), NEW p \in Nat, NEW n \in Nat, NEW off \in 1 .. p, p + n <= Len(t),
         \A i \in p + 1 .. p + n : t[i] = t[i - off]
  PROVE  CopyFromSelf(SubSeq(t, 1, p), off, n) = SubSeq(t, 1, p + n)
  <1> PICK out, u : out = SubSeq(t, 1, p) /\ u = SubSeq(t, 1, p + n)
    OBVIOUS
  <1>1. /\ out \in Seq(Byte) /\ Len(out) = p /\ \A i \in 1 .. p : out[i] = t[i]
        /\ u \in Seq(Byte) /\ Len(u) = p + n /\ \A i \in 1 .. p + n : u[i] = t[i]
    <2>1. Len(t) \in Nat
      OBVIOUS
    <2>. QED BY <2>1, SubSeqProperties
  <1>2. Grown(u, out, off, n)
    <2>1. ASSUME NEW i \in 1 .. p PROVE u[i] = out[i]
      <3>1. i \in 1 .. p + n
        OBVIOUS
      <3>. QED BY <1>1, <3>1
    <2>2. ASSUME NEW i \in p + 1 .. p + n PROVE u[i] = u[i - off]
      <3>1. i \in 1 .. p + n /\ i - off \in 1 .. p + n
        OBVIOUS
      <3>. QED BY <1>1, <3>1
    <2>. QED BY <1>1, <2>1, <2>2 DEF Grown
  <1>3. off \in 1 .. Len(out)
    BY <1>1
  <1>. QED BY <1>1, <1>2, <1>3, CopyUnique

\* How many bytes an element has.
LEMMA ElementSizes ==
  ASSUME NEW c \in Byte
  PROVE  Extra(c) \in 0 .. 4 /\ LengthIn(c) \in 1 .. 64
  <1>1. c \in 0 .. 255
    BY DEF Byte
  <1>2. Kind(c) \in 0 .. 3 /\ Upper(c) \in 0 .. 63
    BY <1>1, SMT DEF Kind, Upper
  <1>3. Upper(c) % 8 \in 0 .. 7
    BY <1>2, SMT
  <1>. QED BY <1>2, <1>3, SMT DEF Extra, LengthIn, LITERAL, COPY_1_BYTE_OFFSET, COPY_2_BYTE_OFFSET,
                COPY_4_BYTE_OFFSET

\* A trailer is a number.
LEMMA NumberIsNat ==
  ASSUME NEW b \in Seq(Byte)
  PROVE  Number(b) \in Nat /\ LongLength(b) \in Nat
  <1> DEFINE d(i) == IF i <= Len(b) THEN b[i] ELSE 0
  <1>1. ASSUME NEW i \in 1 .. 4 PROVE d(i) \in Nat
    <2>1. CASE i <= Len(b)
      <3>1. b[i] \in Byte
        BY <2>1
      <3>2. b[i] \in Nat
        <4>1. \A c \in Byte : c \in Nat
          BY SMT DEF Byte
        <4>. QED BY <3>1, <4>1, Zenon
      <3>. QED BY <2>1, <3>2
    <2>2. CASE ~(i <= Len(b))
      BY <2>2
    <2>. QED BY <2>1, <2>2
  <1>2. d(1) \in Nat /\ d(2) \in Nat /\ d(3) \in Nat /\ d(4) \in Nat
    <2> HIDE DEF d
    <2>. QED BY <1>1
  <1>3. Number(b) = IF d(4) >= 64 THEN Huge
                    ELSE d(1) + 256 * d(2) + 65536 * d(3) + 16777216 * d(4)
    BY SMT DEF Number
  <1> HIDE DEF d
  <1>4. Huge \in Nat
    BY SMT DEF Huge
  <1>5. Number(b) \in Nat
    BY <1>2, <1>3, <1>4, SMT
  <1>. QED BY <1>4, <1>5, SMT DEF LongLength

\* The parts of an element are numbers.
LEMMA PartsAreNumbers ==
  ASSUME NEW s \in Seq(Byte), NEW r, r.at \in Nat, r.at < Len(s)
  PROVE  /\ TagAt(s, r) \in Byte /\ After(s, r) \in r.at + 1 .. r.at + 5
         /\ After(s, r) \in Nat
         /\ After(s, r) <= Len(s) => Trailer(s, r) \in Seq(Byte) /\ LengthAt(s, r) \in Nat
  <1>1. TagAt(s, r) \in Byte
    <2>1. r.at + 1 \in 1 .. Len(s)
      OBVIOUS
    <2>. QED BY <2>1 DEF TagAt
  <1>2. Extra(TagAt(s, r)) \in 0 .. 4 /\ LengthIn(TagAt(s, r)) \in 1 .. 64
    BY <1>1, ElementSizes
  <1>3. After(s, r) \in r.at + 1 .. r.at + 5 /\ After(s, r) \in Nat
    BY <1>2 DEF After
  <1>4. ASSUME After(s, r) <= Len(s) PROVE Trailer(s, r) \in Seq(Byte)
    <2>1. r.at + 2 \in 1 .. Len(s) + 1
      OBVIOUS
    <2>. QED BY <1>3, <1>4, <2>1, SubSeqProperties DEF Trailer
  <1>5. ASSUME After(s, r) <= Len(s) PROVE LengthAt(s, r) \in Nat
    <2>1. LongLength(Trailer(s, r)) \in Nat
      BY <1>4, <1>5, NumberIsNat
    <2>2. LengthIn(TagAt(s, r)) \in Nat
      <3>1. \A n \in 1 .. 64 : n \in Nat
        BY SMT
      <3>. QED BY <1>2, <3>1, Zenon
    <2>. QED BY <2>1, <2>2, Zenon DEF LengthAt
  <1>. QED BY <1>1, <1>3, <1>4, <1>5

\* A reader stays where numbers are.
LEMMA ReadElementAt ==
  ASSUME NEW s \in Seq(Byte), NEW r, r.at \in Nat
  PROVE  ReadElement(s, r).at \in Nat
  <1>1. CASE r.at >= Len(s)
    BY <1>1, Zenon DEF ReadElement
  <1>2. CASE ~(r.at >= Len(s))
    <2>1. r.at < Len(s) /\ Len(s) + 1 \in Nat
      BY <1>2
    <2>2. CASE ~Good(s, r)
      <3>1. Stuck(s).at = Len(s) + 1
        BY DEF Stuck
      <3>2. ReadElement(s, r) = Stuck(s)
        BY <1>2, <2>2, Zenon DEF ReadElement
      <3>. QED BY <2>1, <3>1, <3>2
    <2>3. CASE Good(s, r)
      <3>1. After(s, r) \in Nat /\ LengthAt(s, r) \in Nat
        BY <2>1, <2>3, PartsAreNumbers DEF Good
      <3>2. ReadElement(s, r) = ReadNext(s, r)
        BY <1>2, <2>3, Zenon DEF ReadElement
      <3>3. ReadNext(s, r).at = After(s, r) + LengthAt(s, r) \/ ReadNext(s, r).at = After(s, r)
        BY DEF ReadNext
      <3>. QED BY <3>1, <3>2, <3>3
    <2>. QED BY <2>2, <2>3
  <1>. QED BY <1>1, <1>2

\* The equation of the readers of s.
IsReaders(s, f) ==
  f = [n \in 0 .. Len(s) |-> IF n = 0 THEN [at |-> 0, out |-> << >>] ELSE ReadElement(s, f[n - 1])]

\* Each reader but the first comes from the one before it.
LEMMA ReadersAre ==
  ASSUME NEW s \in Seq(Byte)
  PROVE  /\ Readers(s)[0] = [at |-> 0, out |-> << >>]
         /\ \A n \in 1 .. Len(s) : Readers(s)[n] = ReadElement(s, Readers(s)[n - 1])
  <1> DEFINE start == [at |-> 0, out |-> << >>]
             Upto(k, g) == g = [n \in 0 .. k |-> IF n = 0 THEN start ELSE ReadElement(s, g[n - 1])]
             S == {k \in 0 .. Len(s) : \E g : Upto(k, g)}
  <1>0. Len(s) \in Nat
    OBVIOUS
  <1> HIDE DEF start
  <1>1. 0 \in S
    <2> DEFINE g == [n \in 0 .. 0 |-> start]
    <2>1. \A n \in 0 .. 0 : n = 0
      OBVIOUS
    <2>2. Upto(0, g)
      BY <2>1, Zenon
    <2>3. \E h : Upto(0, h)
      BY <2>2, Zenon
    <2>. QED BY <1>0, <2>3
  <1>2. ASSUME NEW k \in 1 .. Len(s), k - 1 \in S PROVE k \in S
    <2>1. PICK g : Upto(k - 1, g)
      BY <1>2, Zenon
    <2> DEFINE h == [n \in 0 .. k |-> IF n = k THEN ReadElement(s, g[k - 1]) ELSE g[n]]
    <2>2. ASSUME NEW n \in 0 .. k
          PROVE  h[n] = IF n = 0 THEN start ELSE ReadElement(s, h[n - 1])
      <3>1. CASE n = 0
        <4>1. 0 # k /\ 0 \in 0 .. k - 1
          OBVIOUS
        <4>2. g[0] = start
          BY <2>1, <4>1, Zenon
        <4>. QED BY <3>1, <4>1, <4>2, Zenon
      <3>2. CASE n # 0
        <4>1. n - 1 \in 0 .. k /\ n - 1 # k
          BY <3>2
        <4>2. h[n - 1] = g[n - 1]
          BY <4>1, Zenon
        <4>3. CASE n = k
          BY <3>2, <4>2, <4>3, Zenon
        <4>4. CASE n # k
          <5>1. n \in 0 .. k - 1
            BY <4>4
          <5>2. g[n] = ReadElement(s, g[n - 1])
            BY <2>1, <3>2, <5>1, Zenon
          <5>. QED BY <3>2, <4>2, <4>4, <5>2, Zenon
        <4>. QED BY <4>3, <4>4
      <3>. QED BY <3>1, <3>2
    <2>3. h = [n \in 0 .. k |-> h[n]]
      BY Zenon
    <2> HIDE DEF h
    <2>4. Upto(k, h)
      BY <2>2, <2>3, Zenon
    <2>5. \E f : Upto(k, f)
      BY <2>4, Zenon
    <2>6. k \in 0 .. Len(s)
      OBVIOUS
    <2>. QED BY <2>5, <2>6, Zenon
  <1>3. Len(s) \in S
    <2> HIDE DEF S
    <2>. QED BY <1>0, <1>1, <1>2, UpTo, SMTT(30)
  <1>4. \E g : IsReaders(s, g)
    BY <1>3, Zenon DEF IsReaders, start
  <1> DEFINE f == CHOOSE g : IsReaders(s, g)
  <1>5. IsReaders(s, f)
    BY <1>4, Zenon
  <1>6. Readers(s) = f
    BY Zenon DEF Readers, IsReaders
  <1> HIDE DEF f
  <1>7. \A n \in 0 .. Len(s) : f[n] = IF n = 0 THEN start ELSE ReadElement(s, f[n - 1])
    BY <1>5, Zenon DEF IsReaders, start
  <1>8. f[0] = start
    <2>1. 0 \in 0 .. Len(s)
      BY <1>0
    <2>. QED BY <1>7, <2>1, Zenon
  <1>9. \A n \in 1 .. Len(s) : f[n] = ReadElement(s, f[n - 1])
    <2> TAKE n \in 1 .. Len(s)
    <2>1. n \in 0 .. Len(s) /\ n # 0
      BY <1>0
    <2>. QED BY <1>7, <2>1, Zenon
  <1>. QED BY <1>6, <1>8, <1>9, Zenon DEF start
\* A reader that has put out a text.
Typed(r) == r.at \in Nat /\ r.out \in Seq(Byte)

\* A good element moves its reader on, inside the stream, and adds as many bytes as
\* it says.
LEMMA NextTyped ==
  ASSUME NEW s \in Seq(Byte), NEW r, Typed(r), r.at < Len(s), Good(s, r)
  PROVE  /\ Typed(ReadNext(s, r)) /\ r.at < ReadNext(s, r).at /\ ReadNext(s, r).at <= Len(s)
         /\ LengthAt(s, r) \in Nat /\ Len(ReadNext(s, r).out) = Len(r.out) + LengthAt(s, r)
  <1>1. /\ r.at \in Nat /\ r.out \in Seq(Byte) /\ After(s, r) \in r.at + 1 .. r.at + 5
        /\ After(s, r) <= Len(s) /\ LengthAt(s, r) \in Nat
    BY PartsAreNumbers DEF Typed, Good
  <1>2. PICK a \in Nat, m \in Nat, p \in Nat : a = After(s, r) /\ m = LengthAt(s, r) /\ p = r.at
    BY <1>1
  <1>3. PICK u \in Seq(Byte) : u = r.out
    BY <1>1
  <1>4. p < a /\ a <= Len(s)
    BY <1>1, <1>2
  <1>5. PICK q : q = ReadNext(s, r)
    OBVIOUS
  <1>6. \E b \in Nat, x \in Seq(Byte) :
           q = [at |-> b, out |-> x] /\ a <= b /\ b <= Len(s) /\ Len(x) = Len(u) + m
    <2>1. CASE IsLiteral(s, r)
      <3>1. PICK b \in Nat : b = a + m
        BY <1>2
      <3>2. b <= Len(s)
        BY <1>2, <2>1, <3>1 DEF Good
      <3>3. PICK x : x = u \o SubSeq(s, a + 1, b)
        OBVIOUS
      <3>4. a <= b /\ b - a = m
        BY <1>2, <3>1
      <3>5. x \in Seq(Byte) /\ Len(x) = Len(u) + (b - a)
        <4>1. a \in Nat /\ b \in Nat /\ u \in Seq(Byte)
          BY <1>2, <1>3, <3>1
        <4>2. a <= b
          BY <3>4
        <4>3. /\ u \o SubSeq(s, a + 1, b) \in Seq(Byte)
              /\ Len(u \o SubSeq(s, a + 1, b)) = Len(u) + (b - a)
          BY <3>2, <4>1, <4>2, JoinPart
        <4>. QED BY <3>3, <4>3
      <3>6. q = [at |-> b, out |-> x]
        BY <1>2, <1>3, <1>5, <2>1, <3>1, <3>3, Zenon DEF ReadNext
      <3>. QED BY <3>1, <3>2, <3>4, <3>5, <3>6
    <2>2. CASE ~IsLiteral(s, r)
      <3>1. Reaches(r.out, OffsetAt(s, r))
        BY <2>2 DEF Good
      <3>2. PICK off \in 1 .. Len(u) : off = OffsetAt(s, r)
        BY <1>3, <3>1 DEF Reaches
      <3>3. PICK x : x = CopyFromSelf(u, off, m)
        OBVIOUS
      <3>4. x \in Seq(Byte) /\ Grown(x, u, off, m)
        BY <1>2, <1>3, <3>2, <3>3, CopyTyped
      <3>5. Len(x) = Len(u) + m
        BY <3>4 DEF Grown
      <3>6. q = [at |-> a, out |-> x]
        BY <1>2, <1>3, <1>5, <2>2, <3>2, <3>3, Zenon DEF ReadNext
      <3>7. a <= a
        BY <1>2
      <3>. QED BY <1>2, <1>4, <3>4, <3>5, <3>6, <3>7
    <2>. QED BY <2>1, <2>2
  <1>7. PICK b \in Nat, x \in Seq(Byte) :
           q = [at |-> b, out |-> x] /\ a <= b /\ b <= Len(s) /\ Len(x) = Len(u) + m
    BY <1>6
  <1>8. q.at = b /\ q.out = x /\ p < b
    BY <1>2, <1>4, <1>7
  <1>. QED BY <1>2, <1>3, <1>5, <1>7, <1>8, Zenon DEF Typed

\* Every reader is one; while it is inside the stream, it has read no more elements
\* than bytes.
LEMMA ReadersTyped ==
  ASSUME NEW s \in Seq(Byte), NEW n \in 0 .. Len(s)
  PROVE  Typed(Readers(s)[n]) /\ (Readers(s)[n].at < Len(s) => n <= Readers(s)[n].at)
  <1> DEFINE R == Readers(s)
             S == {k \in 0 .. Len(s) : Typed(R[k]) /\ (R[k].at < Len(s) => k <= R[k].at)}
  <1>1. R[0] = [at |-> 0, out |-> << >>] /\ \A k \in 1 .. Len(s) : R[k] = ReadElement(s, R[k - 1])
    BY ReadersAre
  <1> HIDE DEF R
  <1>2. 0 \in S
    <2>1. R[0].at = 0 /\ R[0].out = << >>
      BY <1>1
    <2>2. Typed(R[0])
      BY <2>1 DEF Typed
    <2>. QED BY <2>1, <2>2
  <1>3. ASSUME NEW k \in 1 .. Len(s), k - 1 \in S PROVE k \in S
    <2> PICK r, q : r = R[k - 1] /\ q = R[k]
      OBVIOUS
    <2>1. Typed(r) /\ (r.at < Len(s) => k - 1 <= r.at) /\ q = ReadElement(s, r)
      BY <1>1, <1>3
    <2>2. CASE r.at >= Len(s)
      <3>1. q = r
        BY <2>1, <2>2, Zenon DEF ReadElement
      <3>2. ~(q.at < Len(s))
        BY <2>1, <2>2, <3>1 DEF Typed
      <3>3. Typed(q)
        BY <2>1, <3>1
      <3>. QED BY <3>2, <3>3
    <2>3. CASE ~(r.at >= Len(s)) /\ ~Good(s, r)
      <3>1. q = Stuck(s)
        BY <2>1, <2>3, Zenon DEF ReadElement
      <3>2. q.at = Len(s) + 1 /\ q.out = << >>
        BY <3>1 DEF Stuck
      <3>3. Typed(q) /\ ~(q.at < Len(s))
        BY <3>2 DEF Typed
      <3>. QED BY <3>3
    <2>4. CASE ~(r.at >= Len(s)) /\ Good(s, r)
      <3>1. q = ReadNext(s, r)
        BY <2>1, <2>4, Zenon DEF ReadElement
      <3>2. r.at < Len(s)
        BY <2>1, <2>4 DEF Typed
      <3>3. Typed(q) /\ r.at < q.at
        BY <2>1, <2>4, <3>1, <3>2, NextTyped
      <3>4. k <= q.at
        BY <2>1, <3>2, <3>3 DEF Typed
      <3>. QED BY <3>3, <3>4
    <2>. QED BY <2>2, <2>3, <2>4
  <1>4. \A k \in 0 .. Len(s) : k \in S
    <2> PICK z \in Nat : z = Len(s)
      OBVIOUS
    <2>1. \A k \in 1 .. z : k - 1 \in S => k \in S
      BY <1>3
    <2> HIDE DEF S
    <2>2. \A k \in 0 .. z : k \in S
      BY <1>2, <2>1, UpTo
    <2>. QED BY <2>2
  <1>. QED BY <1>4 DEF R

\* A reader that has read all of the stream, or is stuck, stays so.
LEMMA ReaderStays ==
  ASSUME NEW s \in Seq(Byte), NEW n \in 0 .. Len(s), Readers(s)[n].at >= Len(s)
  PROVE  ReadAll(s) = Readers(s)[n]
  <1> DEFINE R == Readers(s)
             S == {k \in 0 .. Len(s) - n : R[n + k] = R[n]}
  <1>1. \A k \in 1 .. Len(s) : R[k] = ReadElement(s, R[k - 1])
    BY ReadersAre
  <1>2. PICK r : r = R[n] /\ r.at >= Len(s)
    OBVIOUS
  <1>3. ReadElement(s, r) = r
    BY <1>2, Zenon DEF ReadElement
  <1> HIDE DEF R
  <1> PICK z \in Nat : z = Len(s) - n /\ n + z = Len(s)
    OBVIOUS
  <1>4. 0 \in S
    BY SMT
  <1>5. ASSUME NEW k \in 1 .. z, k - 1 \in S PROVE k \in S
    <2>1. R[n + (k - 1)] = r
      BY <1>2, <1>5
    <2>2. n + k \in 1 .. Len(s) /\ (n + k) - 1 = n + (k - 1)
      OBVIOUS
    <2>3. R[n + k] = r
      BY <1>1, <1>3, <2>1, <2>2
    <2>. QED BY <1>2, <2>3
  <1>6. \A k \in 0 .. z : k \in S
    <2> HIDE DEF S
    <2>. QED BY <1>4, <1>5, UpTo
  <1>7. R[n + z] = R[n]
    BY <1>6
  <1>. QED BY <1>7 DEF R, ReadAll

\* The reader after the next element.
LEMMA ReaderNext ==
  ASSUME NEW s \in Seq(Byte), NEW n \in 0 .. Len(s), Readers(s)[n].at < Len(s)
  PROVE  /\ n + 1 \in 0 .. Len(s)
         /\ Readers(s)[n + 1] = IF Good(s, Readers(s)[n]) THEN ReadNext(s, Readers(s)[n])
                                                         ELSE Stuck(s)
  <1> PICK r : r = Readers(s)[n]
    OBVIOUS
  <1>1. r.at \in Nat /\ r.at < Len(s) /\ n <= r.at
    BY ReadersTyped DEF Typed
  <1>2. n + 1 \in 1 .. Len(s) /\ (n + 1) - 1 = n
    BY <1>1
  <1>3. Readers(s)[n + 1] = ReadElement(s, r)
    BY <1>2, ReadersAre
  <1>4. ~(r.at >= Len(s))
    BY <1>1
  <1>. QED BY <1>2, <1>3, <1>4 DEF ReadElement

\* A bad element: the stream has no contents.
LEMMA BadElement ==
  ASSUME NEW s \in Seq(Byte), NEW n \in 0 .. Len(s), Readers(s)[n].at < Len(s),
         ~Good(s, Readers(s)[n])
  PROVE  Decodings(s) = {}
  <1> PICK m \in 0 .. Len(s) : m = n + 1
    BY ReaderNext
  <1>1. Readers(s)[m] = Stuck(s)
    BY ReaderNext
  <1>2. Readers(s)[m].at = Len(s) + 1
    BY <1>1 DEF Stuck
  <1>3. ReadAll(s) = Readers(s)[m]
    <2>1. Readers(s)[m].at >= Len(s)
      BY <1>2
    <2>. QED BY <2>1, ReaderStays
  <1>4. ReadAll(s).at # Len(s)
    BY <1>2, <1>3
  <1>. QED BY <1>4 DEF Decodings

\* The end of the stream: what was put out are its contents.
LEMMA LastElement ==
  ASSUME NEW s \in Seq(Byte), NEW n \in 0 .. Len(s), Readers(s)[n].at = Len(s)
  PROVE  Decodings(s) = {Readers(s)[n].out}
  <1>1. ReadAll(s) = Readers(s)[n]
    <2>1. Readers(s)[n].at >= Len(s)
      OBVIOUS
    <2>. QED BY <2>1, ReaderStays
  <1>. QED BY <1>1 DEF Decodings

\* The contents are no shorter than what any reader has put out.
LEMMA ContentsAreLonger ==
  ASSUME NEW s \in Seq(Byte), NEW n \in 0 .. Len(s), NEW d \in Decodings(s)
  PROVE  d \in Seq(Byte) /\ Len(Readers(s)[n].out) <= Len(d)
  <1> DEFINE R == Readers(s)
             S == {k \in 0 .. Len(s) - n : R[n + k].at <= Len(s) => Len(R[n].out) <= Len(R[n + k].out)}
  <1>1. \A k \in 1 .. Len(s) : R[k] = ReadElement(s, R[k - 1])
    BY ReadersAre
  <1>2. \A k \in 0 .. Len(s) : Typed(R[k])
    BY ReadersTyped
  <1>3. d = R[Len(s)].out /\ R[Len(s)].at = Len(s)
    BY DEF Decodings, ReadAll
  <1> HIDE DEF R
  <1> PICK z \in Nat : z = Len(s) - n /\ n + z = Len(s)
    OBVIOUS
  <1>4. 0 \in S
    <2>1. Len(R[n].out) \in Nat /\ n + 0 = n
      BY <1>2 DEF Typed
    <2>2. Len(R[n].out) <= Len(R[n].out)
      BY <2>1
    <2>. QED BY <2>1, <2>2
  <1>5. ASSUME NEW k \in 1 .. z, k - 1 \in S PROVE k \in S
    <2> PICK r, q, x : r = R[n + (k - 1)] /\ q = R[n + k] /\ x = R[n]
      OBVIOUS
    <2>1. n + k \in 1 .. Len(s) /\ (n + k) - 1 = n + (k - 1) /\ n + (k - 1) \in 0 .. Len(s)
      OBVIOUS
    <2>2. q = ReadElement(s, r) /\ Typed(r) /\ Typed(q) /\ Typed(x)
      <3>1. R[n + k] = ReadElement(s, R[(n + k) - 1])
        BY <1>1, <2>1
      <3>2. n + k \in 0 .. Len(s)
        BY <2>1
      <3>. QED BY <1>2, <2>1, <3>1, <3>2
    <2>3. r.at <= Len(s) => Len(x.out) <= Len(r.out)
      BY <1>5
    <2>4. q.at <= Len(s) => Len(x.out) <= Len(q.out)
      <3>1. CASE r.at >= Len(s)
        <4>1. q = r
          BY <2>2, <3>1, Zenon DEF ReadElement
        <4>. QED BY <2>3, <4>1
      <3>2. CASE ~(r.at >= Len(s)) /\ ~Good(s, r)
        <4>1. q = Stuck(s)
          BY <2>2, <3>2, Zenon DEF ReadElement
        <4>2. q.at = Len(s) + 1
          BY <4>1 DEF Stuck
        <4>. QED BY <4>2
      <3>3. CASE ~(r.at >= Len(s)) /\ Good(s, r)
        <4>1. q = ReadNext(s, r)
          BY <2>2, <3>3, Zenon DEF ReadElement
        <4>2. r.at < Len(s)
          BY <2>2, <3>3 DEF Typed
        <4>3. LengthAt(s, r) \in Nat /\ Len(q.out) = Len(r.out) + LengthAt(s, r)
          BY <2>2, <3>3, <4>1, <4>2, NextTyped
        <4>4. Len(x.out) <= Len(r.out)
          BY <2>2, <2>3, <4>2 DEF Typed
        <4>5. PICK lx \in Nat, lr \in Nat, m \in Nat :
                lx = Len(x.out) /\ lr = Len(r.out) /\ m = LengthAt(s, r)
          BY <2>2, <4>3 DEF Typed
        <4>6. lx <= lr + m /\ Len(q.out) = lr + m
          BY <4>3, <4>4, <4>5
        <4>. QED BY <4>5, <4>6
      <3>. QED BY <3>1, <3>2, <3>3
    <2>5. k \in 0 .. Len(s) - n
      OBVIOUS
    <2>. QED BY <2>4, <2>5
  <1>6. \A k \in 0 .. z : k \in S
    <2> HIDE DEF S
    <2>. QED BY <1>4, <1>5, UpTo
  <1>7. R[n + z].at <= Len(s) => Len(R[n].out) <= Len(R[n + z].out)
    BY <1>6
  <1>8. Typed(R[Len(s)])
    BY <1>2
  <1>. QED BY <1>3, <1>7, <1>8 DEF R, Typed

\* The contents do not have m bytes when the next element, if it is good, makes them more.
LEMMA TooLong ==
  ASSUME NEW s \in Seq(Byte), NEW n \in 0 .. Len(s), Readers(s)[n].at < Len(s), NEW m \in Nat,
         Good(s, Readers(s)[n]) => Len(Readers(s)[n].out) + LengthAt(s, Readers(s)[n]) > m
  PROVE  {d \in Decodings(s) : Len(d) = m} = {}
  <1> PICK r : r = Readers(s)[n]
    OBVIOUS
  <1>1. Typed(r) /\ r.at < Len(s)
    BY ReadersTyped
  <1>2. CASE ~Good(s, r)
    BY <1>2, BadElement
  <1>3. CASE Good(s, r)
    <2>1. PICK k \in 0 .. Len(s) : k = n + 1 /\ Readers(s)[k] = ReadNext(s, r)
      BY <1>3, ReaderNext
    <2>2. /\ Typed(ReadNext(s, r)) /\ LengthAt(s, r) \in Nat
          /\ Len(ReadNext(s, r).out) = Len(r.out) + LengthAt(s, r)
      BY <1>1, <1>3, NextTyped
    <2>3. Len(ReadNext(s, r).out) \in Nat /\ Len(ReadNext(s, r).out) > m
      BY <1>3, <2>2 DEF Typed
    <2>4. ASSUME NEW d \in Decodings(s) PROVE Len(d) # m
      <3>1. d \in Seq(Byte) /\ Len(ReadNext(s, r).out) <= Len(d)
        BY <2>1, ContentsAreLonger
      <3>. QED BY <2>3, <3>1
    <2>. QED BY <2>4
  <1>. QED BY <1>2, <1>3
=============================================================================

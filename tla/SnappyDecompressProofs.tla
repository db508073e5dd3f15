----------------------- MODULE SnappyDecompressProofs -----------------------
(***************************************************************************)
(* Proofs about modules SnappyVarint and SnappyDecompress.  The reader of  *)
(* a length in a Source follows the reader of a buffer, and reads every    *)
(* uint32 back from its encoding.  For every call, every stream and every  *)
(* way a source cuts it up, no tag is read past a buffer, no byte is       *)
(* skipped that is not there and no store leaves the buffers of the        *)
(* writer.                                                                 *)
(***************************************************************************)
EXTENDS SnappyDecompressInv, SnappyLemmas

----------------------------------------------------------------------------
(* The reader of a Source *)

\* The places of the digits.
LEMMA Powers ==
  /\ Base \in Nat \ {0} /\ Base2 \in Nat \ {0} /\ Base3 \in Nat \ {0}
  /\ Base4 \in Nat \ {0} /\ Word \in Nat \ {0}
  /\ Base2 = Base * Base /\ Base3 = Base2 * Base /\ Base4 = Base3 * Base
  /\ Word = Base4 * Top /\ Base <= Word /\ Base4 <= Word
  <1>1. Base \in Nat \ {0} /\ Top \in Nat \ {0}
    BY VarintAssumption
  <1>2. \A a, b \in Nat \ {0} : a * b \in Nat \ {0} /\ a <= a * b /\ b <= a * b
    <2>1. ASSUME NEW a \in Nat \ {0}, NEW b \in Nat \ {0}
          PROVE  a * b \in Nat \ {0} /\ a <= a * b /\ b <= a * b
      <3>1. a * b = a * (b - 1) + a /\ a * b = (a - 1) * b + b
        BY SMT
      <3>2. a * (b - 1) \in Nat /\ (a - 1) * b \in Nat
        BY SMT
      <3>. QED BY <3>1, <3>2, SMT
    <2>. QED BY <2>1
  <1>3. Base2 \in Nat \ {0} /\ Base <= Base2
    BY <1>1, <1>2 DEF Base2
  <1>4. Base3 \in Nat \ {0} /\ Base2 <= Base3
    BY <1>1, <1>2, <1>3 DEF Base3
  <1>5. Base4 \in Nat \ {0} /\ Base3 <= Base4
    BY <1>1, <1>2, <1>4 DEF Base4
  <1>6. Word \in Nat \ {0} /\ Base4 <= Word
    BY <1>1, <1>2, <1>5 DEF Word
  <1>7. Base <= Word
    BY <1>1, <1>3, <1>4, <1>5, <1>6, SMT
  <1>. QED BY <1>1, <1>3, <1>4, <1>5, <1>6, <1>7 DEF Base2, Base3, Base4, Word

\* Every place is below the word.
LEMMA PowerFits ==
  ASSUME NEW n \in 0 .. 4
  PROVE  PowerOf(n) \in Nat \ {0} /\ PowerOf(n) <= Word
  <1>1. Base <= Base2 /\ Base2 <= Base3 /\ Base3 <= Base4
    <2>1. \A a, b \in Nat \ {0} : a <= a * b
      <3>1. ASSUME NEW a \in Nat \ {0}, NEW b \in Nat \ {0} PROVE a <= a * b
        <4>1. a * b = a * (b - 1) + a /\ a * (b - 1) \in Nat
          BY SMT
        <4>. QED BY <4>1, SMT
      <3>. QED BY <3>1
    <2>. QED BY <2>1, Powers
  <1>2. /\ n = 0 => PowerOf(n) = 1
        /\ n = 1 => PowerOf(n) = Base
        /\ n = 2 => PowerOf(n) = Base2
        /\ n = 3 => PowerOf(n) = Base3
        /\ n = 4 => PowerOf(n) = Base4
    BY DEF PowerOf
  <1>3. /\ Base \in Nat \ {0} /\ Base2 \in Nat \ {0} /\ Base3 \in Nat \ {0}
        /\ Base4 \in Nat \ {0} /\ Word \in Nat /\ Base4 <= Word
    BY Powers
  <1>. QED BY <1>1, <1>2, <1>3, SMT

\* A digit put on top of a value that fits below its place.
LEMMA OneMoreDigit ==
  ASSUME NEW b \in Nat, NEW p \in Nat, NEW x \in Nat, NEW d \in Nat, x < p, d < b
  PROVE  x + d * p \in Nat /\ x + d * p < p * b
  <1>1. d * p \in Nat /\ (b - 1 - d) * p \in Nat
    BY SMT
  <1>2. p * b = d * p + (b - 1 - d) * p + p
    BY SMT
  <1>. QED BY <1>1, <1>2, SMT

\* The digit of a byte.
LEMMA DigitBound ==
  ASSUME NEW c \in LengthByte
  PROVE  /\ Digit(c) \in Nat /\ Digit(c) < Base
         /\ c \in Nat /\ (~More(c) => Digit(c) = c)
  BY VarintAssumption, SMT DEF LengthByte, Digit, More

\* The value of one byte more.
LEMMA ValueStep ==
  ASSUME NEW s \in Seq(LengthByte), NEW n \in 0 .. 4, n < Len(s)
  PROVE  Value(s, n + 1) = Value(s, n) + Digit(s[n + 1]) * PowerOf(n)
  <1> DEFINE d(i) == IF i <= n THEN Digit(s[i]) ELSE 0
             e(i) == IF i <= n + 1 THEN Digit(s[i]) ELSE 0
  <1>1. \A i \in 1 .. n + 1 : Digit(s[i]) \in Nat
    BY DigitBound
  <1>2. \A i \in 1 .. 5 : /\ d(i) \in Nat
                          /\ i = n + 1 => d(i) = 0 /\ e(i) = Digit(s[n + 1])
                          /\ i # n + 1 => e(i) = d(i)
    BY <1>1
  <1>3. /\ Value(s, n) = d(1) + Base * d(2) + Base2 * d(3) + Base3 * d(4) + Base4 * d(5)
        /\ Value(s, n + 1) = e(1) + Base * e(2) + Base2 * e(3) + Base3 * e(4) + Base4 * e(5)
    BY DEF Value
  <1>4. PICK x \in Nat : x = Digit(s[n + 1])
    BY <1>1
  <1>5. PICK x1 \in Nat, x2 \in Nat, x3 \in Nat, x4 \in Nat, x5 \in Nat :
          x1 = d(1) /\ x2 = d(2) /\ x3 = d(3) /\ x4 = d(4) /\ x5 = d(5)
    BY <1>2, SMTT(60)
  <1>6. Value(s, n) = x1 + Base * x2 + Base2 * x3 + Base3 * x4 + Base4 * x5
    BY <1>3, <1>5
  <1>7. /\ n = 0 => x1 = 0 /\ Value(s, n + 1) = x + Base * x2 + Base2 * x3 + Base3 * x4 + Base4 * x5
        /\ n = 1 => x2 = 0 /\ Value(s, n + 1) = x1 + Base * x + Base2 * x3 + Base3 * x4 + Base4 * x5
        /\ n = 2 => x3 = 0 /\ Value(s, n + 1) = x1 + Base * x2 + Base2 * x + Base3 * x4 + Base4 * x5
        /\ n = 3 => x4 = 0 /\ Value(s, n + 1) = x1 + Base * x2 + Base2 * x3 + Base3 * x + Base4 * x5
        /\ n = 4 => x5 = 0 /\ Value(s, n + 1) = x1 + Base * x2 + Base2 * x3 + Base3 * x4 + Base4 * x
    <2> HIDE DEF d, e
    <2>. QED BY <1>2, <1>3, <1>4, <1>5, SMTT(60)
  <1>8. /\ n = 0 => PowerOf(n) = 1
        /\ n = 1 => PowerOf(n) = Base
        /\ n = 2 => PowerOf(n) = Base2
        /\ n = 3 => PowerOf(n) = Base3
        /\ n = 4 => PowerOf(n) = Base4
    BY DEF PowerOf
  <1>9. \A a, y \in Nat : a * y = y * a /\ a * 0 = 0 /\ a * y \in Nat
    BY SMT
  <1> HIDE DEF d, e
  <1>10. CASE n = 0
    BY <1>4, <1>6, <1>7, <1>8, <1>9, <1>10, Powers, SMTT(60)
  <1>11. CASE n = 1
    BY <1>4, <1>6, <1>7, <1>8, <1>9, <1>11, Powers, SMTT(60)
  <1>12. CASE n = 2
    BY <1>4, <1>6, <1>7, <1>8, <1>9, <1>12, Powers, SMTT(60)
  <1>13. CASE n = 3
    BY <1>4, <1>6, <1>7, <1>8, <1>9, <1>13, Powers, SMTT(60)
  <1>14. CASE n = 4
    BY <1>4, <1>6, <1>7, <1>8, <1>9, <1>14, Powers, SMTT(60)
  <1>. QED BY <1>10, <1>11, <1>12, <1>13, <1>14

\* The value of up to four bytes fits below the next place.
LEMMA ValueBound ==
  ASSUME NEW s \in Seq(LengthByte), NEW n \in 0 .. 4, n <= Len(s)
  PROVE  Value(s, n) \in Nat /\ Value(s, n) < PowerOf(n)
  <1>0. Value(s, 0) = 0
    BY Powers, SMT DEF Value
  <1>1. \A k \in 0 .. 3 : PowerOf(k + 1) = PowerOf(k) * Base /\ PowerOf(k) \in Nat
    BY Powers, SMT DEF PowerOf
  <1>2. \A k \in 0 .. 3 :
          (k < Len(s) /\ Value(s, k) \in Nat /\ Value(s, k) < PowerOf(k))
          => Value(s, k + 1) \in Nat /\ Value(s, k + 1) < PowerOf(k + 1)
    <2> SUFFICES ASSUME NEW k \in 0 .. 3, k < Len(s), Value(s, k) \in Nat,
                        Value(s, k) < PowerOf(k)
                 PROVE  Value(s, k + 1) \in Nat /\ Value(s, k + 1) < PowerOf(k + 1)
      OBVIOUS
    <2>1. Digit(s[k + 1]) \in Nat /\ Digit(s[k + 1]) < Base
      BY DigitBound
    <2>2. Value(s, k + 1) = Value(s, k) + Digit(s[k + 1]) * PowerOf(k)
      BY ValueStep
    <2>3. PICK x, d, p \in Nat : x = Value(s, k) /\ d = Digit(s[k + 1]) /\ p = PowerOf(k)
      BY <1>1, <2>1
    <2>4. x < p /\ d < Base /\ Base \in Nat
      BY <2>1, <2>3, Powers
    <2>5. x + d * p \in Nat /\ x + d * p < p * Base
      BY <2>4, OneMoreDigit
    <2>6. Value(s, k + 1) = x + d * p /\ PowerOf(k + 1) = p * Base
      BY <1>1, <2>2, <2>3, Zenon
    <2>. QED BY <2>5, <2>6, Zenon
  <1>3. Value(s, 0) \in Nat /\ Value(s, 0) < PowerOf(0)
    BY <1>0 DEF PowerOf
  <1>4. 1 <= Len(s) => Value(s, 1) \in Nat /\ Value(s, 1) < PowerOf(1)
    BY <1>2, <1>3
  <1>5. 2 <= Len(s) => Value(s, 2) \in Nat /\ Value(s, 2) < PowerOf(2)
    BY <1>2, <1>4
  <1>6. 3 <= Len(s) => Value(s, 3) \in Nat /\ Value(s, 3) < PowerOf(3)
    BY <1>2, <1>5
  <1>7. 4 <= Len(s) => Value(s, 4) \in Nat /\ Value(s, 4) < PowerOf(4)
    BY <1>2, <1>6
  <1>. QED BY <1>3, <1>4, <1>5, <1>6, <1>7

\* Cutting to the word keeps what fits.
LEMMA ModOfSmall ==
  ASSUME NEW m \in Nat \ {0}, NEW x \in Nat
  PROVE  x % m \in 0 .. m - 1 /\ (x < m => x % m = x)
  BY SMT

\* A source of which nothing was taken.
LEMMA InitInv == LengthInit => LengthInv
  <1> SUFFICES ASSUME LengthInit PROVE LengthInv
    OBVIOUS
  <1>1. input \in Seq(LengthByte)
    <2>1. PICK n \in 0 .. MaxLength : input \in [1 .. n -> LengthByte]
      BY DEF LengthInit
    <2>. QED BY <2>1, MaxLengthAssumption
  <1>2. Value(input, 0) = 0
    BY Powers, SMT DEF Value
  <1>. QED BY <1>1, <1>2, Powers DEF LengthInit, LengthInv, LengthTypeOK, Partial, Continues, kMax32

\* One more byte.
LEMMA ReadByteInv == LengthInv /\ ReadByte => LengthInv'
  <1> SUFFICES ASSUME LengthInv, ReadByte PROVE LengthInv'
    OBVIOUS
  <1> DEFINE c == input[taken + 1]
             sum == result + Digit(c) * PowerOf(taken)
  <1>1. /\ taken \in 0 .. 4 /\ taken < Len(input) /\ input \in Seq(LengthByte)
        /\ result \in 0 .. Word - 1 /\ c \in LengthByte
        /\ taken' = taken + 1 /\ input' = input /\ result' = sum % Word
        /\ status = "reading" /\ status' = IF More(c) THEN "reading" ELSE "read"
    BY DEF LengthInv, LengthTypeOK, ReadByte, kMax32
  <1>2. Digit(c) \in Nat /\ PowerOf(taken) \in Nat
    BY <1>1, DigitBound, PowerFits
  <1>3. sum \in Nat
    <2>1. Digit(c) * PowerOf(taken) \in Nat
      BY <1>2, SMT
    <2>2. result \in Nat
      BY <1>1
    <2>3. \A a, b \in Nat : a + b \in Nat
      OBVIOUS
    <2>. QED BY <2>1, <2>2, <2>3
  <1>4. LengthTypeOK'
    <2>1. sum % Word \in 0 .. Word - 1
      BY <1>3, Powers, ModOfSmall
    <2> HIDE DEF sum, c
    <2>. QED BY <1>1, <2>1, SMT DEF LengthTypeOK, kMax32
  <1>5. Partial'
    <2> SUFFICES ASSUME taken + 1 < 5 \/ c < Top
                 PROVE  sum % Word = Value(input, taken + 1)
      BY <1>1 DEF Partial, kMax32
    <2>1. result = Value(input, taken)
      BY <1>1 DEF LengthInv, Partial, kMax32
    <2>2. sum = Value(input, taken + 1)
      BY <1>1, <2>1, ValueStep
    <2>3. sum < Word
      <3>1. CASE taken + 1 < 5
        <4>1. Value(input, taken + 1) < PowerOf(taken + 1)
          BY <1>1, <3>1, ValueBound
        <4>2. PowerOf(taken + 1) <= Word
          <5>. QED BY <1>1, <3>1, PowerFits
        <4>3. PowerOf(taken + 1) \in Nat
          BY <1>1, <3>1, PowerFits
        <4> HIDE DEF sum
        <4>. QED BY <1>3, <2>2, <4>1, <4>2, <4>3, Powers, SMT
      <3>2. CASE taken = 4 /\ c < Top
        <4>1. result \in Nat /\ result < Base4
          <5>1. PowerOf(4) = Base4
            BY DEF PowerOf
          <5>. QED BY <1>1, <2>1, <3>2, <5>1, ValueBound
        <4>2. Digit(c) = c /\ c \in Nat
          <5>1. ~More(c)
            BY <1>1, <3>2, VarintAssumption, SMT DEF More, LengthByte
          <5>. QED BY <1>1, <5>1, DigitBound
        <4>3. result + c * Base4 < Base4 * Top
          BY <3>2, <4>1, <4>2, Powers, VarintAssumption, OneMoreDigit
        <4>4. PowerOf(taken) = Base4
          BY <3>2 DEF PowerOf
        <4>. QED BY <4>2, <4>3, <4>4, Powers
      <3>. QED BY <1>1, <3>1, <3>2
    <2> HIDE DEF sum
    <2>. QED BY <1>3, <2>2, <2>3, Powers, ModOfSmall
  <1>6. Continues'
    <2>1. \A j \in 1 .. taken : More(input[j])
      BY <1>1 DEF LengthInv, Continues
    <2> HIDE DEF sum
    <2>. QED BY <1>1, <2>1 DEF Continues, kMax32
  <1>. QED BY <1>4, <1>5, <1>6 DEF LengthInv

\* Giving up.
LEMMA FailInv == LengthInv /\ FailLength => LengthInv'
  <1> SUFFICES ASSUME LengthInv, FailLength PROVE LengthInv'
    OBVIOUS
  <1>1. LengthTypeOK'
    BY DEF LengthInv, FailLength, LengthTypeOK
  <1>2. Partial'
    BY DEF LengthInv, FailLength, Partial
  <1>3. Continues'
    BY DEF LengthInv, FailLength, Continues
  <1>. QED BY <1>1, <1>2, <1>3 DEF LengthInv

\* The bytes read so far continue the varint, and the result is their value.
THEOREM SpecIInv == LengthSpec => []LengthInv
  <1>1. LengthInv /\ [LengthNext]_lengthVars => LengthInv'
    <2> SUFFICES ASSUME LengthInv, [LengthNext]_lengthVars PROVE LengthInv'
      OBVIOUS
    <2>1. CASE ReadByte
      BY <2>1, ReadByteInv
    <2>2. CASE FailLength
      BY <2>2, FailInv
    <2>3. CASE UNCHANGED lengthVars
      BY <2>3 DEF lengthVars, LengthInv, LengthTypeOK, Partial, Continues
    <2>. QED BY <2>1, <2>2, <2>3 DEF LengthNext
  <1>. QED BY InitInv, <1>1, PTL DEF LengthSpec

\* The type invariant: what is read always fits a uint32 and at most five bytes
\* of the source are taken, whatever the source holds.
THEOREM SpecTypeOK == LengthSpec => []LengthTypeOK
  <1>1. LengthInv => LengthTypeOK
    BY DEF LengthInv
  <1>. QED BY <1>1, SpecIInv, PTL

\* What the parser answers ends a varint.
LEMMA ParsedFound ==
  ASSUME Parsed(input) # 0
  PROVE  Parsed(input) \in 1 .. kMax32 /\ EndsAt(input, Parsed(input))
  BY DEF Parsed

\* The reader of a Source follows the reader of a buffer.
LEMMA FollowsParser == LengthInv => ReaderFollowsParser
  <1> SUFFICES ASSUME LengthInv PROVE ReaderFollowsParser
    OBVIOUS
  <1>1. status = "read" => taken > 0 /\ ~More(input[taken])
    BY DEF LengthInv, Continues
  <1>2. ASSUME Parsed(input) # 0
        PROVE  /\ status # "failed"
               /\ status = "read" => taken = Parsed(input) /\ result = Value(input, taken)
    <2> DEFINE p == Parsed(input)
    <2>1. /\ p \in 1 .. 5 /\ p <= Len(input)
          /\ \A j \in 1 .. p - 1 : More(input[j])
          /\ input[p] < IF p = 5 THEN Top ELSE Base
      BY <1>2, ParsedFound DEF EndsAt, kMax32
    <2>2. taken \in 0 .. 5 /\ taken <= Len(input)
      BY DEF LengthInv, LengthTypeOK, kMax32
    <2>3. ~More(input[p])
      <3>1. input[p] \in Nat
        BY <2>1, VarintAssumption DEF LengthInv, LengthTypeOK, LengthByte
      <3> HIDE DEF p
      <3>. QED BY <2>1, <3>1, VarintAssumption, SMT DEF More
    <2> HIDE DEF p
    <2>4. status # "failed"
      <3>1. status = "failed" => p \in 1 .. taken
        BY <2>1, <2>2 DEF LengthInv, Continues, kMax32
      <3>. QED BY <2>3, <3>1 DEF LengthInv, Continues
    <2>5. ASSUME status = "read" PROVE taken = p /\ result = Value(input, taken)
      <3>1. ~(taken < p)
        BY <1>1, <2>1, <2>2, <2>5
      <3>2. ~(p < taken)
        BY <2>1, <2>2, <2>3 DEF LengthInv, Continues
      <3>3. taken = p
        BY <2>1, <2>2, <3>1, <3>2
      <3>4. taken < 5 \/ input[taken] < Top
        BY <2>1, <2>2, <3>3
      <3>. QED BY <3>3, <3>4 DEF LengthInv, Partial, kMax32
    <2>. QED BY <2>4, <2>5 DEF p
  <1>. QED BY <1>1, <1>2 DEF ReaderFollowsParser


\* What Parse32WithLimit accepts, ReadUncompressedLength reads as the same value
\* from the same bytes; it accepts no varint that is cut off.
THEOREM SpecReaderFollowsParser == LengthSpec => []ReaderFollowsParser
  BY FollowsParser, SpecIInv, PTL

\* A value below a place needs no digits from that place on.
LEMMA ShortEncoding ==
  ASSUME Code, NEW v \in 0 .. Word - 1, NEW n \in 1 .. kMax32,
         n < kMax32 => v < PowerOf(n)
  PROVE  EncodedLength(v) <= n
  <1>1. v \in Nat
    BY CodeConstants, SMT
  <1>2. /\ n = 1 => PowerOf(n) = Base
        /\ n = 2 => PowerOf(n) = Base2
        /\ n = 3 => PowerOf(n) = Base3
        /\ n = 4 => PowerOf(n) = Base4
    BY DEF PowerOf
  <1>. QED BY <1>1, <1>2, CodeConstants, SMT DEF EncodedLength, kMax32

\* A length that was read is written in no more bytes, and what is written is
\* read back, by the parser of a buffer and as a value: for the digits of the
\* code, and for every source.
THEOREM SpecEncodingIsReadBack ==
  ASSUME Code
  PROVE  LengthSpec => []EncodingIsReadBack
  <1>1. LengthInv => EncodingIsReadBack
    <2> SUFFICES ASSUME LengthInv, status = "read" PROVE EncodingIsReadBack
      BY DEF EncodingIsReadBack
    <2> DEFINE s == Encode32(result)
    <2>1. /\ result \in 0 .. Word - 1 /\ input \in Seq(LengthByte)
          /\ taken \in 1 .. kMax32 /\ taken <= Len(input)
      BY DEF LengthInv, LengthTypeOK, Continues, kMax32
    <2>2. taken < kMax32 => result < PowerOf(taken)
      <3> SUFFICES ASSUME taken < kMax32 PROVE result < PowerOf(taken)
        OBVIOUS
      <3>1. taken \in 0 .. 4
        BY <2>1 DEF kMax32
      <3>2. result = Value(input, taken)
        BY DEF LengthInv, Partial
      <3>. QED BY <2>1, <3>1, <3>2, ValueBound
    <2>3. Len(s) = EncodedLength(result) /\ EncodedLength(result) \in 1 .. 5
      <3>1. EncodedLength(result) \in 1 .. 5
        BY <2>1, EncodedDigits
      <3>. QED BY <2>1, <3>1, EncodedDigits
    <2>4. Len(s) <= taken
      BY <2>1, <2>2, <2>3, ShortEncoding
    <2>5. Parsed(s \o input) = Len(s)
      BY <2>1, EncodingIsParsed
    <2>6. Value(s, Len(s)) = result
      <3>1. << >> \in Seq(LengthByte)
        OBVIOUS
      <3>2. Value(s \o << >>, Len(s)) = result
        BY <2>1, <3>1, EncodingIsParsed
      <3>3. s \o << >> = s
        <4>1. PICK n \in Nat : n = Len(s)
          BY <2>3
        <4>2. s = [i \in 1 .. EncodedLength(result) |->
                     IF i < EncodedLength(result) THEN (Shifted(result)[i] % 128) + 128
                                                  ELSE Shifted(result)[i]]
          BY <2>1, EncodedDigits
        <4>3. s \in Seq(Nat)
          <5>1. \A i \in 1 .. 5 : Shifted(result)[i] \in Nat
            BY <2>1, Shifts
          <5>2. \A i \in 1 .. 5 : (Shifted(result)[i] % 128) + 128 \in Nat
            BY <5>1
          <5> DEFINE d == Shifted(result)
                     m == EncodedLength(result)
          <5>3. m \in 1 .. 5
            BY <2>3
          <5>4. s = [i \in 1 .. m |-> IF i < m THEN (d[i] % 128) + 128 ELSE d[i]]
            BY <4>2
          <5>5. \A i \in 1 .. m : d[i] \in Nat /\ (d[i] % 128) + 128 \in Nat
            BY <5>1, <5>2, <5>3
          <5> HIDE DEF d, m, s
          <5>6. s \in [1 .. m -> Nat]
            BY <5>4, <5>5
          <5>. QED BY <5>3, <5>6
        <4>. QED BY <4>3
      <3>. QED BY <3>2, <3>3
    <2>. QED BY <2>4, <2>5, <2>6 DEF EncodingIsReadBack
  <1>. QED BY <1>1, SpecIInv, PTL

----------------------------------------------------------------------------
(* The table *)

\* Each of its 256 numbers is put together from what the format says of the tag.
LEMMA TableIs ==
  ASSUME NEW c \in Byte
  PROVE  Entry(c) = MakeEntry(Extra(c), LengthIn(c), OffsetIn(c))
  BY SMTT(100) DEF Entry, char_table, MakeEntry, Extra, LengthIn, OffsetIn, Kind, Upper, Byte,
       LITERAL, COPY_1_BYTE_OFFSET, COPY_2_BYTE_OFFSET, COPY_4_BYTE_OFFSET

\* The parts of a tag.
LEMMA TagParts ==
  ASSUME NEW c \in Byte
  PROVE  /\ Kind(c) \in 0 .. 3 /\ Upper(c) \in 0 .. 63 /\ c = 4 * Upper(c) + Kind(c)
         /\ Extra(c) \in 0 .. 4 /\ LengthIn(c) \in 1 .. 64 /\ OffsetIn(c) \in 0 .. 7
  BY SMT DEF Extra, LengthIn, OffsetIn, Kind, Upper, Byte,
       LITERAL, COPY_1_BYTE_OFFSET, COPY_2_BYTE_OFFSET, COPY_4_BYTE_OFFSET

\* What is put together is taken apart again.
LEMMA EntryParts ==
  ASSUME NEW e \in 0 .. 4, NEW l \in 1 .. 64, NEW o \in 0 .. 7
  PROVE  /\ MakeEntry(e, l, o) \div 2048 = e
         /\ MakeEntry(e, l, o) % 256 = l
         /\ (MakeEntry(e, l, o) \div 256) % 8 = o
<1>1. /\ MakeEntry(e, l, o) \div 2048 = e /\ MakeEntry(e, l, o) % 256 = l
      /\ MakeEntry(e, l, o) \div 256 = o + 8 * e
  BY SMT DEF MakeEntry
<1>2. (o + 8 * e) % 8 = o
  BY SMT
<1> QED BY <1>1, <1>2

\* What the decompressor reads off the table.
LEMMA EntryIs ==
  ASSUME NEW c \in Byte
  PROVE  /\ EntryExtra(c) = Extra(c) /\ EntryLength(c) = LengthIn(c)
         /\ EntryOffset(c) = 256 * OffsetIn(c)
  BY TableIs, TagParts, EntryParts, SMTT(60) DEF EntryExtra, EntryLength, EntryOffset

\* A tag of each of the forms ComputeTable goes through, and its parts.
LEMMA FormParts ==
  /\ \A len \in 1 .. 60 :
       LET t == LITERAL + 4 * (len - 1)
       IN  Extra(t) = 0 /\ LengthIn(t) = len /\ OffsetIn(t) = 0
  /\ \A extra \in 1 .. 4 :
       LET t == LITERAL + 4 * (extra + 59)
       IN  Extra(t) = extra /\ LengthIn(t) = 1 /\ OffsetIn(t) = 0
  /\ \A len \in 4 .. 11, high \in 0 .. 7 :
       LET t == COPY_1_BYTE_OFFSET + 4 * (len - 4) + 32 * high
       IN  Extra(t) = 1 /\ LengthIn(t) = len /\ OffsetIn(t) = high
  /\ \A len \in 1 .. 64 :
       LET t == COPY_2_BYTE_OFFSET + 4 * (len - 1)
       IN  Extra(t) = 2 /\ LengthIn(t) = len /\ OffsetIn(t) = 0
  /\ \A len \in 1 .. 64 :
       LET t == COPY_4_BYTE_OFFSET + 4 * (len - 1)
       IN  Extra(t) = 4 /\ LengthIn(t) = len /\ OffsetIn(t) = 0
<1>1. ASSUME NEW k \in 0 .. 3, NEW u \in 0 .. 63, NEW t, t = k + 4 * u
      PROVE  Kind(t) = k /\ Upper(t) = u
  BY <1>1, SMT DEF Kind, Upper
<1>2. ASSUME NEW len \in 1 .. 60, NEW t, t = LITERAL + 4 * (len - 1)
      PROVE  Extra(t) = 0 /\ LengthIn(t) = len /\ OffsetIn(t) = 0
  <2>1. Kind(t) = 0 /\ Upper(t) = len - 1
    BY <1>1, <1>2 DEF LITERAL
  <2> QED BY <2>1 DEF Extra, LengthIn, OffsetIn, LITERAL, COPY_1_BYTE_OFFSET,
                      COPY_2_BYTE_OFFSET, COPY_4_BYTE_OFFSET
<1>3. ASSUME NEW extra \in 1 .. 4, NEW t, t = LITERAL + 4 * (extra + 59)
      PROVE  Extra(t) = extra /\ LengthIn(t) = 1 /\ OffsetIn(t) = 0
  <2>1. Kind(t) = 0 /\ Upper(t) = extra + 59
    BY <1>1, <1>3 DEF LITERAL
  <2> QED BY <2>1 DEF Extra, LengthIn, OffsetIn, LITERAL, COPY_1_BYTE_OFFSET,
                      COPY_2_BYTE_OFFSET, COPY_4_BYTE_OFFSET
<1>4. ASSUME NEW len \in 4 .. 11, NEW high \in 0 .. 7, NEW t,
             t = COPY_1_BYTE_OFFSET + 4 * (len - 4) + 32 * high
      PROVE  Extra(t) = 1 /\ LengthIn(t) = len /\ OffsetIn(t) = high
  <2>1. Kind(t) = 1 /\ Upper(t) = (len - 4) + 8 * high
    <3>1. t = 1 + 4 * ((len - 4) + 8 * high) /\ (len - 4) + 8 * high \in 0 .. 63
      BY <1>4 DEF COPY_1_BYTE_OFFSET
    <3> QED BY <1>1, <3>1
  <2>2. ((len - 4) + 8 * high) % 8 = len - 4 /\ ((len - 4) + 8 * high) \div 8 = high
    BY SMT
  <2> QED BY <2>1, <2>2 DEF Extra, LengthIn, OffsetIn, LITERAL, COPY_1_BYTE_OFFSET,
                      COPY_2_BYTE_OFFSET, COPY_4_BYTE_OFFSET
<1>5. ASSUME NEW len \in 1 .. 64, NEW t, t = COPY_2_BYTE_OFFSET + 4 * (len - 1)
      PROVE  Extra(t) = 2 /\ LengthIn(t) = len /\ OffsetIn(t) = 0
  <2>1. Kind(t) = 2 /\ Upper(t) = len - 1
    BY <1>1, <1>5 DEF COPY_2_BYTE_OFFSET
  <2> QED BY <2>1 DEF Extra, LengthIn, OffsetIn, LITERAL, COPY_1_BYTE_OFFSET,
                      COPY_2_BYTE_OFFSET, COPY_4_BYTE_OFFSET
<1>6. ASSUME NEW len \in 1 .. 64, NEW t, t = COPY_4_BYTE_OFFSET + 4 * (len - 1)
      PROVE  Extra(t) = 4 /\ LengthIn(t) = len /\ OffsetIn(t) = 0
  <2>1. Kind(t) = 3 /\ Upper(t) = len - 1
    BY <1>1, <1>6 DEF COPY_4_BYTE_OFFSET
  <2> QED BY <2>1 DEF Extra, LengthIn, OffsetIn, LITERAL, COPY_1_BYTE_OFFSET,
                      COPY_2_BYTE_OFFSET, COPY_4_BYTE_OFFSET
<1>7. \A len \in 1 .. 60 :
        LET t == LITERAL + 4 * (len - 1)
        IN  Extra(t) = 0 /\ LengthIn(t) = len /\ OffsetIn(t) = 0
  BY <1>2, Zenon
<1>8. \A extra \in 1 .. 4 :
        LET t == LITERAL + 4 * (extra + 59)
        IN  Extra(t) = extra /\ LengthIn(t) = 1 /\ OffsetIn(t) = 0
  BY <1>3, Zenon
<1>9. \A len \in 4 .. 11, high \in 0 .. 7 :
        LET t == COPY_1_BYTE_OFFSET + 4 * (len - 4) + 32 * high
        IN  Extra(t) = 1 /\ LengthIn(t) = len /\ OffsetIn(t) = high
  BY <1>4, Zenon
<1>10. \A len \in 1 .. 64 :
         LET t == COPY_2_BYTE_OFFSET + 4 * (len - 1)
         IN  Extra(t) = 2 /\ LengthIn(t) = len /\ OffsetIn(t) = 0
  BY <1>5, Zenon
<1>11. \A len \in 1 .. 64 :
         LET t == COPY_4_BYTE_OFFSET + 4 * (len - 1)
         IN  Extra(t) = 4 /\ LengthIn(t) = len /\ OffsetIn(t) = 0
  BY <1>6, Zenon
<1> QED BY <1>7, <1>8, <1>9, <1>10, <1>11

\* What ComputeTable gives a tag is what the format says of it.
LEMMA AssignedIs ==
  ASSUME NEW a \in Assigned
  PROVE  a = <<a[1], MakeEntry(Extra(a[1]), LengthIn(a[1]), OffsetIn(a[1]))>>
<1>1. CASE \E len \in 1 .. 60 : a = <<LITERAL + 4 * (len - 1), MakeEntry(0, len, 0)>>
  BY <1>1, FormParts
<1>2. CASE \E extra \in 1 .. 4 :
             a = <<LITERAL + 4 * (extra + 59), MakeEntry(extra, 1, 0)>>
  BY <1>2, FormParts
<1>3. CASE \E len \in 4 .. 11, high \in 0 .. 7 :
             a = <<COPY_1_BYTE_OFFSET + 4 * (len - 4) + 32 * high, MakeEntry(1, len, high)>>
  BY <1>3, FormParts
<1>4. CASE \E len \in 1 .. 64 : a = <<COPY_2_BYTE_OFFSET + 4 * (len - 1), MakeEntry(2, len, 0)>>
  BY <1>4, FormParts
<1>5. CASE \E len \in 1 .. 64 : a = <<COPY_4_BYTE_OFFSET + 4 * (len - 1), MakeEntry(4, len, 0)>>
  BY <1>5, FormParts
<1> QED BY <1>1, <1>2, <1>3, <1>4, <1>5 DEF Assigned

\* Every tag is of one of the forms.
LEMMA TagHasForm ==
  ASSUME NEW c \in Byte
  PROVE  \E a \in Assigned : a[1] = c
<1> DEFINE k == Kind(c)
           u == Upper(c)
<1>1. k \in 0 .. 3 /\ u \in 0 .. 63 /\ c = 4 * u + k
  BY TagParts
<1> HIDE DEF k, u
<1>2. CASE k = 0 /\ u < 60
  <2>1. u + 1 \in 1 .. 60 /\ c = LITERAL + 4 * ((u + 1) - 1)
    BY <1>1, <1>2 DEF LITERAL
  <2>2. <<LITERAL + 4 * ((u + 1) - 1), MakeEntry(0, u + 1, 0)>> \in Assigned
    BY <2>1 DEF Assigned
  <2> QED BY <2>1, <2>2
<1>3. CASE k = 0 /\ u >= 60
  <2>1. u - 59 \in 1 .. 4 /\ c = LITERAL + 4 * ((u - 59) + 59)
    BY <1>1, <1>3 DEF LITERAL
  <2>2. <<LITERAL + 4 * ((u - 59) + 59), MakeEntry(u - 59, 1, 0)>> \in Assigned
    BY <2>1 DEF Assigned
  <2> QED BY <2>1, <2>2
<1>4. CASE k = 1
  <2> DEFINE len == (u % 8) + 4
             high == u \div 8
  <2>1. len \in 4 .. 11 /\ high \in 0 .. 7 /\ c = COPY_1_BYTE_OFFSET + 4 * (len - 4) + 32 * high
    BY <1>1, <1>4, SMT DEF COPY_1_BYTE_OFFSET
  <2> HIDE DEF len, high
  <2>2. <<COPY_1_BYTE_OFFSET + 4 * (len - 4) + 32 * high, MakeEntry(1, len, high)>> \in Assigned
    BY <2>1 DEF Assigned
  <2> QED BY <2>1, <2>2
<1>5. CASE k = 2
  <2>1. u + 1 \in 1 .. 64 /\ c = COPY_2_BYTE_OFFSET + 4 * ((u + 1) - 1)
    BY <1>1, <1>5 DEF COPY_2_BYTE_OFFSET
  <2>2. <<COPY_2_BYTE_OFFSET + 4 * ((u + 1) - 1), MakeEntry(2, u + 1, 0)>> \in Assigned
    BY <2>1 DEF Assigned
  <2> QED BY <2>1, <2>2
<1>6. CASE k = 3
  <2>1. u + 1 \in 1 .. 64 /\ c = COPY_4_BYTE_OFFSET + 4 * ((u + 1) - 1)
    BY <1>1, <1>6 DEF COPY_4_BYTE_OFFSET
  <2>2. <<COPY_4_BYTE_OFFSET + 4 * ((u + 1) - 1), MakeEntry(4, u + 1, 0)>> \in Assigned
    BY <2>1 DEF Assigned
  <2> QED BY <2>1, <2>2
<1> QED BY <1>1, <1>2, <1>3, <1>4, <1>5, <1>6

\* ComputeTable gives every tag one entry, the one in the table, and it says what
\* the compressor's side of the format has in the tag.
THEOREM TagIsAssignedOnce ==
  ASSUME NEW c \in Byte
  PROVE  /\ {a \in Assigned : a[1] = c} = {<<c, Entry(c)>>}
         /\ EntryExtra(c) = Extra(c) /\ EntryLength(c) = LengthIn(c)
         /\ EntryOffset(c) = 256 * OffsetIn(c)
<1>1. \A a \in Assigned : a[1] = c => a = <<c, Entry(c)>>
  BY AssignedIs, TableIs
<1>2. PICK a \in Assigned : a[1] = c
  BY TagHasForm
<1>3. {b \in Assigned : b[1] = c} = {<<c, Entry(c)>>}
  BY <1>1, <1>2
<1> QED BY <1>3, EntryIs

----------------------------------------------------------------------------
(* The buffers of an iovec in one row *)

\* Where each buffer starts: the first at zero, each other where the one before
\* it ends.
LEMMA StartsIs ==
  ASSUME NEW lens \in Seq(Nat)
  PROVE  /\ Starts(lens) \in [1 .. Len(lens) -> Nat]
         /\ lens # << >> => Starts(lens)[1] = 0
         /\ \A b \in 2 .. Len(lens) : Starts(lens)[b] = Starts(lens)[b - 1] + lens[b - 1]
<1> DEFINE N == Len(lens)
           F == [n \in 1 .. N |-> [x \in Nat |-> x + lens[n]]]
           s == CHOOSE s : s = [b \in 1 .. N |-> IF b = 1 THEN 0 ELSE s[b - 1] + lens[b - 1]]
<1>1. PICK g \in [0 .. N -> Nat] : g[0] = 0 /\ \A n \in 1 .. N : g[n] = F[n][g[n - 1]]
  <2>1. N \in Nat /\ 0 \in Nat /\ F \in [1 .. N -> [Nat -> Nat]]
    OBVIOUS
  <2> HIDE DEF F, N
  <2>2. \E g \in [0 .. N -> Nat] : StepsOf(g, N, 0, F)
    BY <2>1, StepsExist, Zenon
  <2> QED BY <2>2 DEF StepsOf
<1>2. \A n \in 1 .. N : g[n] = g[n - 1] + lens[n]
  <2>1. ASSUME NEW n \in 1 .. N PROVE F[n][g[n - 1]] = g[n - 1] + lens[n]
    <3>1. n - 1 \in 0 .. N
      OBVIOUS
    <3>2. g[n - 1] \in Nat
      BY <3>1
    <3> QED BY <3>2
  <2> HIDE DEF F
  <2> QED BY <1>1, <2>1
<1> DEFINE h == [b \in 1 .. N |-> g[b - 1]]
<1>3. h = [b \in 1 .. N |-> IF b = 1 THEN 0 ELSE h[b - 1] + lens[b - 1]]
  <2>1. ASSUME NEW b \in 1 .. N, b # 1 PROVE h[b] = h[b - 1] + lens[b - 1]
    <3>1. b - 1 \in 1 .. N
      BY <2>1
    <3>2. g[b - 1] = g[(b - 1) - 1] + lens[b - 1]
      BY <1>2, <3>1
    <3> QED BY <3>1, <3>2
  <2>2. ASSUME NEW b \in 1 .. N, b = 1 PROVE h[b] = 0
    BY <1>1, <2>2
  <2>3. \A b \in 1 .. N : h[b] = IF b = 1 THEN 0 ELSE h[b - 1] + lens[b - 1]
    BY <2>1, <2>2
  <2>4. h = [b \in 1 .. N |-> h[b]]
    OBVIOUS
  <2> HIDE DEF h, N
  <2> QED BY <2>3, <2>4
<1>4. s = [b \in 1 .. N |-> IF b = 1 THEN 0 ELSE s[b - 1] + lens[b - 1]]
  <2> HIDE DEF h, N
  <2> QED BY <1>3, Zenon
<1>5. Starts(lens) = s
  BY Zenon DEF Starts
<1> HIDE DEF s, h, F
<1>6. N # 0 => s[1] = 0
  BY <1>4
<1>7. \A b \in 2 .. N : s[b] = s[b - 1] + lens[b - 1]
  <2>1. \A b \in 1 .. N : s[b] = IF b = 1 THEN 0 ELSE s[b - 1] + lens[b - 1]
    BY <1>4, Zenon
  <2> HIDE DEF N
  <2>2. N \in Nat
    BY DEF N
  <2> QED BY <2>1, <2>2
<1>8. \A n \in 1 .. N : s[n] \in Nat
  <2> DEFINE S == {n \in 0 .. N - 1 : s[n + 1] \in Nat}
  <2>1. CASE N = 0
    BY <2>1
  <2>2. CASE N # 0
    <3>1. N - 1 \in Nat /\ 0 \in S
      BY <1>6, <2>2
    <3>2. ASSUME NEW n \in 1 .. N - 1, n - 1 \in S PROVE n \in S
      <4>1. s[n + 1] = s[(n + 1) - 1] + lens[(n + 1) - 1] /\ (n + 1) - 1 = n
        BY <1>7
      <4>2. s[n] \in Nat /\ lens[n] \in Nat
        BY <3>2
      <4> QED BY <4>1, <4>2
    <3>3. \A n \in 0 .. N - 1 : n \in S
      <4> HIDE DEF S, N
      <4> QED BY <3>1, <3>2, UpTo
    <3>4. \A n \in 1 .. N : s[(n - 1) + 1] \in Nat /\ (n - 1) + 1 = n
      BY <3>3
    <3> QED BY <3>4
  <2> QED BY <2>1, <2>2
<1>9. s \in [1 .. N -> Nat]
  BY <1>4, <1>8
<1>10. lens # << >> => N # 0
  OBVIOUS
<1> QED BY <1>5, <1>6, <1>7, <1>9, <1>10

\* A buffer ends before the next ones start.
LEMMA StartsGrow ==
  ASSUME NEW lens \in Seq(Nat), NEW i \in 1 .. Len(lens), NEW j \in 1 .. Len(lens), i < j
  PROVE  Starts(lens)[i] + lens[i] <= Starts(lens)[j]
<1> DEFINE s == Starts(lens)
           N == Len(lens)
           S == {n \in 0 .. N - i - 1 : s[i] + lens[i] <= s[(i + 1) + n]}
<1>1. /\ s \in [1 .. N -> Nat] /\ N \in Nat /\ \A b \in 1 .. N : lens[b] \in Nat
      /\ \A b \in 2 .. N : s[b] = s[b - 1] + lens[b - 1]
  BY StartsIs
<1> HIDE DEF s, N
<1>2. N - i - 1 \in Nat /\ 0 \in S
  <2>1. i + 1 \in 2 .. N /\ (i + 1) - 1 = i /\ i \in 1 .. N /\ (i + 1) + 0 = i + 1
    BY DEF N
  <2>2. s[i + 1] = s[i] + lens[i] /\ s[i] \in Nat /\ lens[i] \in Nat
    BY <1>1, <2>1
  <2>3. s[i] + lens[i] <= s[(i + 1) + 0]
    BY <2>1, <2>2
  <2>4. N \in Int /\ i + 1 <= N
    BY <2>1 DEF N
  <2> QED BY <2>1, <2>3, <2>4
<1>3. ASSUME NEW n \in 1 .. N - i - 1, n - 1 \in S PROVE n \in S
  <2>1. s[(i + 1) + n] = s[((i + 1) + n) - 1] + lens[((i + 1) + n) - 1]
    BY <1>1 DEF N
  <2>2. ((i + 1) + n) - 1 = (i + 1) + (n - 1) /\ (i + 1) + (n - 1) \in 1 .. N /\ i \in 1 .. N
    BY <1>1 DEF N
  <2>3. s[i] + lens[i] <= s[(i + 1) + (n - 1)]
    BY <1>3
  <2>4. PICK x \in Nat, y \in Nat, z \in Nat, t \in Nat :
          x = s[i] /\ y = lens[i] /\ z = s[(i + 1) + (n - 1)] /\ t = lens[(i + 1) + (n - 1)]
    BY <1>1, <2>2
  <2>5. s[(i + 1) + n] = z + t
    BY <2>1, <2>2, <2>4, Zenon
  <2>6. x + y <= z
    BY <2>3, <2>4, Zenon
  <2>7. x + y <= s[(i + 1) + n]
    BY <2>5, <2>6
  <2> QED BY <2>4, <2>7
<1>4. \A n \in 0 .. N - i - 1 : n \in S
  <2> HIDE DEF S
  <2> QED BY <1>2, <1>3, UpTo
<1>5. j - i - 1 \in 0 .. N - i - 1 /\ (i + 1) + (j - i - 1) = j
  BY DEF N
<1> QED BY <1>4, <1>5 DEF s

\* Every place before the end is in one buffer.
LEMMA BufferIs ==
  ASSUME NEW v, NEW N \in Nat \ {0}, v.lens \in Seq(Nat), N = Len(v.lens), NEW a \in Nat,
         a < Starts(v.lens)[N] + v.lens[N]
  PROVE  /\ BufferAt(v, a) \in 1 .. N
         /\ Starts(v.lens)[BufferAt(v, a)] <= a
         /\ a < Starts(v.lens)[BufferAt(v, a)] + v.lens[BufferAt(v, a)]
<1> DEFINE lens == v.lens
           s == Starts(lens)
<1>1. /\ lens \in Seq(Nat) /\ N = Len(lens) /\ a < s[N] + lens[N]
      /\ s \in [1 .. N -> Nat] /\ s[1] = 0
      /\ \A b \in 1 .. N : lens[b] \in Nat
      /\ \A b \in 2 .. N : s[b] = s[b - 1] + lens[b - 1]
  BY StartsIs
<1>2. BufferAt(v, a) = CHOOSE b \in 1 .. N : s[b] <= a /\ a < s[b] + lens[b]
  BY DEF BufferAt
<1> HIDE DEF lens, s
<1>3. \E b \in 1 .. N : s[b] <= a /\ a < s[b] + lens[b]
  <2> DEFINE T == {b \in 1 .. N : a < s[b] + lens[b]}
  <2>1. T \in SUBSET Nat /\ T # {}
    BY <1>1
  <2>2. PICK b \in T : \A m \in T : b <= m
    <3> HIDE DEF T
    <3> QED BY <2>1, LeastNumber
  <2>3. b \in 1 .. N /\ a < s[b] + lens[b]
    OBVIOUS
  <2>4. s[b] <= a
    <3>1. CASE b = 1
      BY <1>1, <3>1
    <3>2. CASE b # 1
      <4>1. b - 1 \in 1 .. N /\ b \in 2 .. N
        BY <2>3, <3>2
      <4>2. ~(a < s[b - 1] + lens[b - 1])
        <5>1. ~(b <= b - 1)
          BY <2>3
        <5>2. b - 1 \notin T
          BY <2>2, <5>1
        <5> QED BY <4>1, <5>2
      <4>3. s[b] = s[b - 1] + lens[b - 1] /\ s[b] \in Nat
        BY <1>1, <2>3, <4>1
      <4> QED BY <4>2, <4>3
    <3> QED BY <3>1, <3>2
  <2> HIDE DEF T
  <2> QED BY <2>3, <2>4
<1> QED BY <1>2, <1>3 DEF lens, s

----------------------------------------------------------------------------
(* Stores *)

\* The writers that differ from v in what their buffers hold, at most.
Alike(v) ==
  {u \in Writer :
     /\ BuffersOK(u)
     /\ u.kind = v.kind /\ u.lens = v.lens /\ u.cur = v.cur /\ u.at = v.at
     /\ u.total = v.total /\ u.limit = v.limit}

\* A part of a sequence replaced by another of the same length.
Splice(q, at, s) == SubSeq(q, 1, at) \o s \o SubSeq(q, at + Len(s) + 1, Len(q))

\* It is as long, and what is behind the part stays.
LEMMA Spliced ==
  ASSUME NEW C, NEW q \in Seq(C), NEW s \in Seq(C), NEW at \in Nat,
         at + Len(s) <= Len(q)
  PROVE  /\ Splice(q, at, s) \in Seq(C) /\ Len(Splice(q, at, s)) = Len(q)
         /\ \A k \in at + Len(s) + 1 .. Len(q) : Splice(q, at, s)[k] = q[k]
<1>1. PICK n \in Nat : n = Len(s)
  OBVIOUS
<1>2. PICK r : r = SubSeq(q, 1, at) \o s \o SubSeq(q, at + n + 1, Len(q))
  OBVIOUS
<1>3. PICK head : head = SubSeq(q, 1, at)
  OBVIOUS
<1>4. PICK tail : tail = SubSeq(q, at + n + 1, Len(q))
  OBVIOUS
<1>5. PICK z \in Nat : z = Len(q)
  OBVIOUS
<1>6. PICK a \in Nat : a = at + n
  OBVIOUS
<1>7. head \in Seq(C) /\ Len(head) = at
  <2>1. 0 \in Nat /\ 0 <= at /\ at <= Len(q) /\ head = SubSeq(q, 0 + 1, at) /\ at - 0 = at
    BY <1>3
  <2>2. head \in Seq(C) /\ Len(head) = at - 0
    BY <2>1, PartIs
  <2> QED BY <2>1, <2>2
<1>8. tail \in Seq(C) /\ Len(tail) = z - a /\ \A i \in 1 .. z - a : tail[i] = q[a + i]
  <2>1. a <= z /\ z <= Len(q) /\ tail = SubSeq(q, a + 1, z)
    BY <1>1, <1>2, <1>4, <1>5, <1>6
  <2> QED BY <2>1, PartIs
<1>9. PICK front : front = head \o s
  OBVIOUS
<1>10. front \in Seq(C) /\ Len(front) = a
  <2>1. head \o s \in Seq(C) /\ Len(head \o s) = Len(head) + Len(s)
    BY <1>7, JoinIs
  <2> QED BY <1>1, <1>2, <1>6, <1>7, <1>9, <2>1
<1>11. PICK y \in Nat : y = z - a
  <2>1. a <= z
    BY <1>1, <1>2, <1>5, <1>6
  <2> QED BY <2>1
<1>12. r = front \o tail
  BY <1>1, <1>2, <1>3, <1>4, <1>9
<1>13. r \in Seq(C) /\ Len(r) = a + y /\ \A i \in 1 .. y : r[a + i] = tail[i]
  <2>1. front \in Seq(C) /\ tail \in Seq(C)
    BY <1>8, <1>10
  <2>2. /\ front \o tail \in Seq(C) /\ Len(front \o tail) = Len(front) + Len(tail)
        /\ \A i \in 1 .. Len(tail) : (front \o tail)[Len(front) + i] = tail[i]
    BY <2>1, JoinIs
  <2> QED BY <1>8, <1>10, <1>11, <1>12, <2>2
<1>14. ASSUME NEW k \in a + 1 .. z PROVE r[k] = q[k]
  <2>1. k - a \in 1 .. y /\ a + (k - a) = k
    BY <1>11
  <2>2. r[a + (k - a)] = tail[k - a] /\ tail[k - a] = q[a + (k - a)]
    BY <1>8, <1>11, <1>13, <2>1
  <2> QED BY <2>1, <2>2
<1>15. Len(r) = Len(q)
  <2>1. a + y = z
    BY <1>11
  <2> QED BY <1>5, <1>13, <2>1
<1> QED BY <1>1, <1>2, <1>5, <1>6, <1>13, <1>14, <1>15 DEF Splice


\* The cells of a buffer.
LEMMA BufferCells ==
  ASSUME NEW v \in Writer, BuffersOK(v), NEW b \in 1 .. Len(v.lens)
  PROVE  /\ v.lens[b] \in Nat /\ v.bufs[b] \in Seq(Cells)
         /\ Len(v.bufs[b]) = v.lens[b] + Slack
         /\ \A k \in v.lens[b] + 1 .. v.lens[b] + Slack : v.bufs[b][k] = Guard
  BY DEF Writer, BuffersOK

\* One buffer replaced by one as long, with the same cells behind it.
LEMMA NewBuffer ==
  ASSUME NEW v \in Writer, BuffersOK(v), NEW b \in 1 .. Len(v.lens),
         NEW r \in Seq(Cells), Len(r) = Len(v.bufs[b]),
         \A k \in v.lens[b] + 1 .. Len(v.bufs[b]) : r[k] = v.bufs[b][k],
         NEW u, u = [v EXCEPT !.bufs = [v.bufs EXCEPT ![b] = r]]
  PROVE  u \in Alike(v)
<1> DEFINE bufs == [v.bufs EXCEPT ![b] = r]
<1>1. /\ v.bufs \in Seq(Seq(Cells)) /\ Len(v.bufs) = Len(v.lens) /\ v.lens \in Seq(Nat)
  BY DEF Writer, BuffersOK
<1>2. /\ bufs \in Seq(Seq(Cells)) /\ Len(bufs) = Len(v.lens) /\ bufs[b] = r
      /\ \A c \in 1 .. Len(v.lens) : c # b => bufs[c] = v.bufs[c]
  BY <1>1
<1> HIDE DEF bufs
<1>3. /\ u \in Writer /\ u.bufs = bufs /\ u.kind = v.kind /\ u.lens = v.lens /\ u.cur = v.cur
      /\ u.at = v.at /\ u.total = v.total /\ u.limit = v.limit
  BY <1>2 DEF bufs, Writer
<1>4. ASSUME NEW c \in 1 .. Len(v.lens)
      PROVE  /\ Len(bufs[c]) = v.lens[c] + Slack
             /\ \A k \in v.lens[c] + 1 .. v.lens[c] + Slack : bufs[c][k] = Guard
  <2>1. CASE c = b
    BY <1>2, <2>1, BufferCells
  <2>2. CASE c # b
    BY <1>2, <2>2 DEF BuffersOK
  <2> QED BY <2>1, <2>2
<1>5. BuffersOK(u)
  BY <1>2, <1>3, <1>4 DEF BuffersOK
<1> QED BY <1>3, <1>5 DEF Alike

\* A store inside a buffer.
LEMMA StoreKeeps ==
  ASSUME NEW v \in Writer, BuffersOK(v), NEW b \in 1 .. Len(v.lens), NEW at \in Nat,
         NEW s \in Seq(Cells), at + Len(s) <= v.lens[b]
  PROVE  Store(v, b, at, s) \in Alike(v)
<1>1. PICK q : q = v.bufs[b]
  OBVIOUS
<1>2. PICK n \in Nat : n = Len(s)
  OBVIOUS
<1>3. PICK r : r = Splice(q, at, s)
  OBVIOUS
<1>4. /\ q \in Seq(Cells) /\ Len(q) = v.lens[b] + Slack /\ v.lens[b] \in Nat
      /\ at + n <= v.lens[b]
  BY <1>1, <1>2, BufferCells
<1>5. at + n <= Len(q)
  BY <1>4 DEF Slack
<1>6. Store(v, b, at, s) = [v EXCEPT !.bufs = [v.bufs EXCEPT ![b] = r]]
  BY <1>1, <1>3 DEF Store, Writer, Splice
<1>7. r \in Seq(Cells) /\ Len(r) = Len(q) /\ \A k \in at + n + 1 .. Len(q) : r[k] = q[k]
  BY <1>2, <1>3, <1>4, <1>5, Spliced
<1>8. \A k \in v.lens[b] + 1 .. Len(q) : r[k] = q[k]
  BY <1>4, <1>7 DEF Slack
<1> QED BY <1>1, <1>6, <1>7, <1>8, NewBuffer

\* A load and a store of the same bytes.
LEMMA MoveKeeps ==
  ASSUME NEW v \in Writer, BuffersOK(v), NEW b \in 1 .. Len(v.lens),
         NEW from \in Nat, NEW to \in Nat, NEW n \in Nat,
         from + n <= v.lens[b], to + n <= v.lens[b]
  PROVE  Move(v, b, from, to, n) \in Alike(v)
<1>1. PICK q : q = v.bufs[b]
  OBVIOUS
<1>2. PICK s : s = SubSeq(q, from + 1, from + n)
  OBVIOUS
<1>3. PICK r : r = Splice(q, to, s)
  OBVIOUS
<1>4. q \in Seq(Cells) /\ Len(q) = v.lens[b] + Slack /\ v.lens[b] \in Nat
  BY <1>1, BufferCells
<1>5. to + n <= Len(q)
  BY <1>4 DEF Slack
<1>6. s \in Seq(Cells) /\ Len(s) = n
  <2>1. PICK z \in Nat : z = from + n
    OBVIOUS
  <2>2. from <= z /\ z <= Len(q) /\ s = SubSeq(q, from + 1, z) /\ z - from = n
    BY <1>2, <1>4, <2>1 DEF Slack
  <2>3. s \in Seq(Cells) /\ Len(s) = z - from
    BY <1>4, <2>2, PartIs
  <2> QED BY <2>2, <2>3
<1>7. Move(v, b, from, to, n) = [v EXCEPT !.bufs = [v.bufs EXCEPT ![b] = r]]
  BY <1>1, <1>2, <1>3, <1>6 DEF Move, Writer, Splice
<1>8. r \in Seq(Cells) /\ Len(r) = Len(q) /\ \A k \in to + n + 1 .. Len(q) : r[k] = q[k]
  <2>1. to + Len(s) <= Len(q)
    BY <1>5, <1>6
  <2>2. /\ Splice(q, to, s) \in Seq(Cells) /\ Len(Splice(q, to, s)) = Len(q)
        /\ \A k \in to + Len(s) + 1 .. Len(q) : Splice(q, to, s)[k] = q[k]
    BY <1>4, <1>6, <2>1, Spliced, Zenon
  <2> QED BY <1>3, <1>6, <2>2, Zenon
<1>9. \A k \in v.lens[b] + 1 .. Len(q) : r[k] = q[k]
  BY <1>4, <1>8 DEF Slack
<1> QED BY <1>1, <1>7, <1>8, <1>9, NewBuffer

\* Being alike is passed on.
LEMMA AlikeAgain ==
  ASSUME NEW v, NEW u \in Alike(v), NEW x \in Alike(u)
  PROVE  x \in Alike(v) /\ u \in Writer /\ BuffersOK(u) /\ u.lens = v.lens
  BY DEF Alike

\* UnalignedCopy64.
LEMMA Copy64Keeps ==
  ASSUME NEW v \in Writer, BuffersOK(v), NEW b \in 1 .. Len(v.lens),
         NEW from \in Nat, NEW to \in Nat, NEW wide,
         from + 8 <= v.lens[b], to + 8 <= v.lens[b]
  PROVE  Copy64(v, b, from, to, wide) \in Alike(v)
<1>1. PICK z \in Nat : z = v.lens[b]
  BY BufferCells
<1>2. from + 8 <= z /\ to + 8 <= z
  BY <1>1
<1>3. CASE wide
  BY <1>3, MoveKeeps DEF Copy64
<1>4. CASE ~wide
  <2>1. PICK u : u = Move(v, b, from, to, 4)
    OBVIOUS
  <2>2. u \in Alike(v)
    <3>1. from + 4 <= v.lens[b] /\ to + 4 <= v.lens[b]
      BY <1>1, <1>2
    <3> QED BY <2>1, <3>1, MoveKeeps
  <2>3. u \in Writer /\ BuffersOK(u) /\ u.lens = v.lens
    BY <2>2 DEF Alike
  <2>4. PICK f \in Nat, t \in Nat : f = from + 4 /\ t = to + 4
    OBVIOUS
  <2>5. f + 4 <= u.lens[b] /\ t + 4 <= u.lens[b] /\ b \in 1 .. Len(u.lens)
    BY <1>1, <1>2, <2>3, <2>4
  <2>6. Move(u, b, f, t, 4) \in Alike(u)
    BY <2>3, <2>5, MoveKeeps
  <2>7. Copy64(v, b, from, to, wide) = Move(u, b, f, t, 4)
    BY <1>4, <2>1, <2>4 DEF Copy64
  <2> QED BY <2>2, <2>6, <2>7, AlikeAgain
<1> QED BY <1>3, <1>4

\* The writers of IncrementalCopy, after each byte.
ByByte(c, v, b, from, to, len) ==
  /\ c[0] = v
  /\ \A n \in 1 .. len : c[n] = Move(c[n - 1], b, from + n - 1, to + n - 1, 1)
  /\ \A n \in 0 .. len : c[n] \in Alike(v)

\* Byte by byte.
LEMMA IncrementalCopySteps ==
  ASSUME NEW v \in Writer, BuffersOK(v), NEW b \in 1 .. Len(v.lens),
         NEW from \in Nat, NEW to \in Nat, NEW len \in Nat,
         from + len <= v.lens[b], to + len <= v.lens[b]
  PROVE  \E c : ByByte(c, v, b, from, to, len) /\ IncrementalCopy(v, b, from, to, len) = c[len]
<1> DEFINE X == Alike(v)
           Step(x, n) == Move(x, b, from + n - 1, to + n - 1, 1)
           F == [n \in 1 .. len |-> [x \in X |-> Step(x, n)]]
           c == CHOOSE c : c = [n \in 0 .. len |-> IF n = 0 THEN v ELSE Step(c[n - 1], n)]
<1>1. ASSUME NEW n \in 1 .. len, NEW x \in X PROVE Step(x, n) \in X
  <2>1. x \in Writer /\ BuffersOK(x) /\ x.lens = v.lens
    BY DEF Alike
  <2>2. PICK z \in Nat : z = v.lens[b]
    BY BufferCells
  <2>3. PICK f \in Nat, t \in Nat : f = from + n - 1 /\ t = to + n - 1
    OBVIOUS
  <2>4. f + 1 <= z /\ t + 1 <= z
    BY <2>2, <2>3
  <2>5. Move(x, b, f, t, 1) \in Alike(x)
    BY <2>1, <2>2, <2>4, MoveKeeps
  <2> QED BY <2>3, <2>5, AlikeAgain
<1>2. v \in X
  BY DEF Alike
<1> HIDE DEF X, Step
<1>3. F \in [1 .. len -> [X -> X]]
  BY <1>1
<1>4. PICK g \in [0 .. len -> X] : StepsOf(g, len, v, F)
  <2> HIDE DEF F
  <2> QED BY <1>2, <1>3, StepsExist, Zenon
<1>5. g = [n \in 0 .. len |-> IF n = 0 THEN v ELSE Step(g[n - 1], n)]
  <2>1. \A n \in 0 .. len : g[n] = IF n = 0 THEN v ELSE Step(g[n - 1], n)
    <3>1. ASSUME NEW n \in 1 .. len PROVE g[n] = Step(g[n - 1], n)
      <4>1. g[n - 1] \in X
        OBVIOUS
      <4> QED BY <1>4, <4>1 DEF StepsOf
    <3> QED BY <1>4, <3>1 DEF StepsOf
  <2> QED BY <2>1
<1>6. c = [n \in 0 .. len |-> IF n = 0 THEN v ELSE Step(c[n - 1], n)]
  BY <1>5, Zenon
<1>7. IncrementalCopy(v, b, from, to, len) = c[len]
  BY Zenon DEF IncrementalCopy, Step
<1> HIDE DEF c, F
<1>8. \A n \in 0 .. len : c[n] = IF n = 0 THEN v ELSE Step(c[n - 1], n)
  BY <1>6, Zenon
<1>9. c[0] \in X /\ \A n \in 1 .. len : c[n - 1] \in X => c[n] \in X
  BY <1>1, <1>2, <1>8
<1>10. \A n \in 0 .. len : c[n] \in X
  BY <1>9, StaysIn, Zenon
<1>11. c[0] = v /\ \A n \in 1 .. len : c[n] = Step(c[n - 1], n)
  BY <1>8
<1>12. ByByte(c, v, b, from, to, len)
  BY <1>10, <1>11, Zenon DEF ByByte, X, Step
<1> QED BY <1>7, <1>12, Zenon

\* The writer after all of them.
LEMMA IncrementalCopyKeeps ==
  ASSUME NEW v \in Writer, BuffersOK(v), NEW b \in 1 .. Len(v.lens),
         NEW from \in Nat, NEW to \in Nat, NEW len \in Nat,
         from + len <= v.lens[b], to + len <= v.lens[b]
  PROVE  IncrementalCopy(v, b, from, to, len) \in Alike(v)
<1>1. PICK c : ByByte(c, v, b, from, to, len) /\ IncrementalCopy(v, b, from, to, len) = c[len]
  BY IncrementalCopySteps
<1>2. len \in 0 .. len
  OBVIOUS
<1> QED BY <1>1, <1>2, Zenon DEF ByByte

\* The writers of the second loop of IncrementalCopyFastPath, after each round.
ByRound(c, v, b, from, to, N, wide) ==
  /\ c[0] = v
  /\ \A n \in 1 .. N : c[n] = Copy64(c[n - 1], b, from + 8 * (n - 1), to + 8 * (n - 1), wide)
  /\ \A n \in 0 .. N : c[n] \in Alike(v)

\* The loop has N of them.
ByRounds(c, v, b, from, to, len, N, wide) ==
  ByRound(c, v, b, from, to, N, wide) /\ EightByEight(v, b, from, to, len, wide) = c[N]

\* Eight bytes at a time.
LEMMA EightByEightSteps ==
  ASSUME NEW v \in Writer, BuffersOK(v), NEW b \in 1 .. Len(v.lens),
         NEW from \in Nat, NEW to \in Nat, NEW len \in Int, NEW wide,
         NEW N \in Nat, N = Rounds(len), from + 8 * N <= v.lens[b], to + 8 * N <= v.lens[b]
  PROVE  \E c : ByRounds(c, v, b, from, to, len, N, wide)
<1> DEFINE X == Alike(v)
           Step(x, n) == Copy64(x, b, from + 8 * (n - 1), to + 8 * (n - 1), wide)
           F == [n \in 1 .. N |-> [x \in X |-> Step(x, n)]]
           c == CHOOSE c : c = [n \in 0 .. N |-> IF n = 0 THEN v ELSE Step(c[n - 1], n)]
<1>1. PICK z \in Nat : z = v.lens[b] /\ from + 8 * N <= z /\ to + 8 * N <= z
  BY BufferCells
<1>2. ASSUME NEW n \in 1 .. N, NEW x \in X PROVE Step(x, n) \in X
  <2>1. x \in Writer /\ BuffersOK(x) /\ x.lens = v.lens
    BY DEF Alike
  <2>2. PICK m \in Nat : m = n - 1 /\ m + 1 <= N
    OBVIOUS
  <2>3. PICK f \in Nat, t \in Nat : f = from + 8 * (n - 1) /\ t = to + 8 * (n - 1)
    OBVIOUS
  <2>4. f + 8 <= v.lens[b] /\ t + 8 <= v.lens[b]
    <3>1. f = from + 8 * m /\ t = to + 8 * m
      BY <2>2, <2>3
    <3>2. f + 8 <= z /\ t + 8 <= z
      BY <1>1, <2>2, <3>1, SMTT(30)
    <3> QED BY <1>1, <3>2
  <2>5. Copy64(x, b, f, t, wide) \in Alike(x)
    BY <2>1, <2>4, Copy64Keeps
  <2> QED BY <2>3, <2>5, AlikeAgain
<1>3. v \in X
  BY DEF Alike
<1> HIDE DEF X, Step
<1>4. F \in [1 .. N -> [X -> X]]
  BY <1>2
<1>5. PICK g \in [0 .. N -> X] : StepsOf(g, N, v, F)
  <2> HIDE DEF F
  <2> QED BY <1>1, <1>3, <1>4, StepsExist, Zenon
<1>6. g = [n \in 0 .. N |-> IF n = 0 THEN v ELSE Step(g[n - 1], n)]
  <2>1. \A n \in 0 .. N : g[n] = IF n = 0 THEN v ELSE Step(g[n - 1], n)
    <3>1. ASSUME NEW n \in 1 .. N PROVE g[n] = Step(g[n - 1], n)
      <4>1. n - 1 \in 0 .. N
        OBVIOUS
      <4>2. g[n - 1] \in X
        BY <4>1
      <4> QED BY <1>1, <1>5, <4>2 DEF StepsOf
    <3> QED BY <1>1, <1>5, <3>1 DEF StepsOf
  <2> QED BY <2>1
<1>7. c = [n \in 0 .. N |-> IF n = 0 THEN v ELSE Step(c[n - 1], n)]
  BY <1>6, Zenon
<1>8. EightByEight(v, b, from, to, len, wide) = c[N]
  BY Zenon DEF EightByEight, Step
<1> HIDE DEF c, F
<1>9. \A n \in 0 .. N : c[n] = IF n = 0 THEN v ELSE Step(c[n - 1], n)
  BY <1>7, Zenon
<1>10. c[0] \in X /\ \A n \in 1 .. N : c[n - 1] \in X => c[n] \in X
  BY <1>1, <1>2, <1>3, <1>9, SMTT(30)
<1>11. \A n \in 0 .. N : c[n] \in X
  BY <1>1, <1>10, StaysIn, Zenon
<1>12. c[0] = v /\ \A n \in 1 .. N : c[n] = Step(c[n - 1], n)
  BY <1>1, <1>9
<1>13. ByRound(c, v, b, from, to, N, wide)
  BY <1>11, <1>12, Zenon DEF ByRound, X, Step
<1> QED BY <1>1, <1>8, <1>13, Zenon DEF ByRounds

\* The writer after all of them.
LEMMA EightByEightKeeps ==
  ASSUME NEW v \in Writer, BuffersOK(v), NEW b \in 1 .. Len(v.lens),
         NEW from \in Nat, NEW to \in Nat, NEW len \in Int, NEW wide,
         from + 8 * Rounds(len) <= v.lens[b], to + 8 * Rounds(len) <= v.lens[b]
  PROVE  EightByEight(v, b, from, to, len, wide) \in Alike(v)
<1>1. PICK N \in Nat : N = Rounds(len)
  BY SMT DEF Rounds
<1>2. from + 8 * N <= v.lens[b] /\ to + 8 * N <= v.lens[b]
  BY <1>1
<1>3. PICK c : ByRounds(c, v, b, from, to, len, N, wide)
  BY <1>1, <1>2, EightByEightSteps
<1>4. N \in 0 .. N
  BY <1>1
<1> QED BY <1>3, <1>4, Zenon DEF ByRound, ByRounds

\* The pattern doubled: how far the stores of the first loop reach, and how far
\* the second loop has to go.
LEMMA DoubledIs ==
  ASSUME NEW gap \in Nat \ {0}
  PROVE  /\ Doublings(gap) \in 0 .. 3
         /\ \A n \in 1 .. Doublings(gap) :
              Doubled(gap, n - 1) \in Nat /\ Doubled(gap, n - 1) + 8 <= gap + 11
         /\ Doubled(gap, Doublings(gap)) - gap \in 0 .. 9
<1>1. \A n \in 0 .. 3 : Doubled(gap, n) = IF n = 0 THEN gap ELSE IF n = 1 THEN 2 * gap
                                          ELSE IF n = 2 THEN 4 * gap ELSE 8 * gap
  BY DEF Doubled
<1>2. CASE gap >= 8
  BY <1>1, <1>2 DEF Doublings
<1>3. CASE gap >= 4 /\ gap < 8
  BY <1>1, <1>3 DEF Doublings
<1>4. CASE gap >= 2 /\ gap < 4
  BY <1>1, <1>4 DEF Doublings
<1>5. CASE gap = 1
  BY <1>1, <1>5 DEF Doublings
<1> QED BY <1>2, <1>3, <1>4, <1>5

\* The writers of the first loop of IncrementalCopyFastPath, after each doubling.
ByDoubling(c, v, b, from, gap, N, wide) ==
  /\ c[0] = v
  /\ \A n \in 1 .. N : c[n] = Copy64(c[n - 1], b, from, from + Doubled(gap, n - 1), wide)
  /\ \A n \in 0 .. N : c[n] \in Alike(v)

\* The two loops: what the second one is given.
ByFastPath(c, v, b, from, to, len, gap, N, done, wide) ==
  /\ ByDoubling(c, v, b, from, gap, N, wide)
  /\ from + 8 * Rounds(len - done) <= v.lens[b]
  /\ to + done + 8 * Rounds(len - done) <= v.lens[b]
  /\ IncrementalCopyFastPath(v, b, from, to, len, wide)
       = EightByEight(c[N], b, from, to + done, len - done, wide)

\* The second loop goes at most seven bytes too far, and the first one at most nine.
LEMMA RoundsFit ==
  ASSUME NEW from \in Nat, NEW to \in Nat, NEW len \in Nat \ {0}, NEW z \in Nat,
         from < to, to + len + 10 <= z, NEW done \in 0 .. 9
  PROVE  from + 8 * Rounds(len - done) <= z /\ to + done + 8 * Rounds(len - done) <= z
<1>1. PICK left \in Int : left = len - done
  OBVIOUS
<1>2. PICK n \in Nat : n = Rounds(left) /\ (8 * n <= left + 7 \/ n = 0)
  BY SMT DEF Rounds
<1>3. from + 8 * n <= z /\ to + done + 8 * n <= z
  BY <1>1, <1>2
<1> QED BY <1>1, <1>2, <1>3

\* The fast path writes at most ten bytes more than it was asked
\* for: kMaxIncrementCopyOverflow.
LEMMA FastPathSteps ==
  ASSUME NEW v \in Writer, BuffersOK(v), NEW b \in 1 .. Len(v.lens),
         NEW from \in Nat, NEW to \in Nat, NEW len \in Nat \ {0}, NEW wide,
         from < to, to + len + kMaxIncrementCopyOverflow <= v.lens[b],
         NEW gap \in Nat \ {0}, gap = to - from, NEW N \in Nat, N = Doublings(gap),
         NEW done \in Nat, done = Doubled(gap, N) - gap
  PROVE  \E c : ByFastPath(c, v, b, from, to, len, gap, N, done, wide)
<1> DEFINE X == Alike(v)
           Step(x, n) == Copy64(x, b, from, from + Doubled(gap, n - 1), wide)
           F == [n \in 1 .. N |-> [x \in X |-> Step(x, n)]]
           c == CHOOSE c : c = [n \in 0 .. N |-> IF n = 0 THEN v ELSE Step(c[n - 1], n)]
<1>1. /\ N \in Nat /\ done \in 0 .. 9
      /\ \A n \in 1 .. N : Doubled(gap, n - 1) \in Nat /\ Doubled(gap, n - 1) + 8 <= gap + 11
  BY DoubledIs
<1> PICK z \in Nat : z = v.lens[b]
  BY BufferCells
<1>2. to + len + 10 <= z /\ from + gap = to /\ gap \in Nat \ {0}
  BY DEF kMaxIncrementCopyOverflow
<1>3. N \in Nat
  BY <1>1
<1>4. ASSUME NEW n \in 1 .. N, NEW x \in X PROVE Step(x, n) \in X
  <2>1. x \in Writer /\ BuffersOK(x) /\ x.lens = v.lens
    BY DEF Alike
  <2>2. PICK d \in Nat : d = Doubled(gap, n - 1) /\ d + 8 <= gap + 11
    BY <1>1
  <2>3. PICK t \in Nat : t = from + d
    OBVIOUS
  <2>4. from + 8 <= z /\ t + 8 <= z
    <3>1. PICK y \in Nat \ {0} : y = gap
      BY <1>2
    <3>2. to + len + 10 <= z /\ from + y = to /\ d + 8 <= y + 11
      BY <1>2, <2>2, <3>1
    <3> QED BY <2>3, <3>2
  <2>5. Copy64(x, b, from, t, wide) \in Alike(x)
    BY <2>1, <2>4, Copy64Keeps
  <2> QED BY <2>2, <2>3, <2>5, AlikeAgain
<1>5. v \in X
  BY DEF Alike
<1> HIDE DEF X, Step
<1>6. F \in [1 .. N -> [X -> X]]
  BY <1>4
<1>7. PICK g \in [0 .. N -> X] : StepsOf(g, N, v, F)
  <2> HIDE DEF F
  <2> QED BY <1>1, <1>5, <1>6, StepsExist, Zenon
<1>8. g = [n \in 0 .. N |-> IF n = 0 THEN v ELSE Step(g[n - 1], n)]
  <2>1. \A n \in 0 .. N : g[n] = IF n = 0 THEN v ELSE Step(g[n - 1], n)
    <3>1. ASSUME NEW n \in 1 .. N PROVE g[n] = Step(g[n - 1], n)
      <4>1. n - 1 \in 0 .. N
        BY <1>1
      <4>2. g[n - 1] \in X
        BY <4>1
      <4> QED BY <1>1, <1>7, <4>2 DEF StepsOf
    <3> QED BY <1>1, <1>7, <3>1 DEF StepsOf
  <2> QED BY <2>1
<1>9. c = [n \in 0 .. N |-> IF n = 0 THEN v ELSE Step(c[n - 1], n)]
  BY <1>8, Zenon
<1>10. IncrementalCopyFastPath(v, b, from, to, len, wide)
        = EightByEight(c[N], b, from, to + done, len - done, wide)
  BY Zenon DEF IncrementalCopyFastPath, Step
<1> HIDE DEF c, F
<1>11. \A n \in 0 .. N : c[n] = IF n = 0 THEN v ELSE Step(c[n - 1], n)
  BY <1>9, Zenon
<1>12. c[0] \in X /\ \A n \in 1 .. N : c[n - 1] \in X => c[n] \in X
  BY <1>3, <1>4, <1>5, <1>11
<1>13. \A n \in 0 .. N : c[n] \in X
  BY <1>1, <1>12, StaysIn, Zenon
<1>14. c[0] = v /\ \A n \in 1 .. N : c[n] = Step(c[n - 1], n)
  BY <1>1, <1>11
<1>15. ByDoubling(c, v, b, from, gap, N, wide)
  BY <1>13, <1>14, Zenon DEF ByDoubling, X, Step
<1>16. from + 8 * Rounds(len - done) <= z /\ to + done + 8 * Rounds(len - done) <= z
  BY <1>1, <1>2, RoundsFit, ZenonT(30)
<1>17. /\ from + 8 * Rounds(len - done) <= v.lens[b]
       /\ to + done + 8 * Rounds(len - done) <= v.lens[b]
  BY <1>16
<1>18. ByFastPath(c, v, b, from, to, len, gap, N, done, wide)
  BY <1>10, <1>15, <1>17, Zenon DEF ByFastPath
<1> QED BY <1>18, Zenon

\* The writer after them.
LEMMA FastPathKeeps ==
  ASSUME NEW v \in Writer, BuffersOK(v), NEW b \in 1 .. Len(v.lens),
         NEW from \in Nat, NEW to \in Nat, NEW len \in Nat \ {0}, NEW wide,
         from < to, to + len + kMaxIncrementCopyOverflow <= v.lens[b]
  PROVE  IncrementalCopyFastPath(v, b, from, to, len, wide) \in Alike(v)
<1>1. PICK gap \in Nat \ {0} : gap = to - from
  OBVIOUS
<1>2. PICK N \in Nat, done \in Nat : N = Doublings(gap) /\ done = Doubled(gap, N) - gap
  <2>1. Doublings(gap) \in 0 .. 3 /\ Doubled(gap, Doublings(gap)) - gap \in 0 .. 9
    BY DoubledIs, Zenon
  <2>2. Doublings(gap) \in Nat /\ Doubled(gap, Doublings(gap)) - gap \in Nat
    BY <2>1, SMT
  <2> QED BY <2>2, Zenon
<1>3. PICK c : ByFastPath(c, v, b, from, to, len, gap, N, done, wide)
  BY <1>1, <1>2, FastPathSteps
<1>4. PICK u : u = c[N] /\ u \in Alike(v)
  <2>1. N \in 0 .. N
    OBVIOUS
  <2> QED BY <1>3, <2>1, Zenon DEF ByFastPath, ByDoubling
<1>5. u \in Writer /\ BuffersOK(u) /\ u.lens = v.lens
  BY <1>4 DEF Alike
<1>6. PICK left \in Int, t \in Nat : left = len - done /\ t = to + done
  BY <1>3
<1>7. from + 8 * Rounds(left) <= v.lens[b] /\ t + 8 * Rounds(left) <= v.lens[b]
  BY <1>3, <1>6 DEF ByFastPath
<1>8. EightByEight(u, b, from, t, left, wide) \in Alike(u)
  BY <1>5, <1>6, <1>7, EightByEightKeeps
<1>9. IncrementalCopyFastPath(v, b, from, to, len, wide) = EightByEight(u, b, from, t, left, wide)
  BY <1>3, <1>4, <1>6, Zenon DEF ByFastPath
<1> QED BY <1>4, <1>8, <1>9, AlikeAgain

----------------------------------------------------------------------------
(* Appending *)

\* A writer that is where it says it is, and whose array is long enough.
Fits(v) ==
  /\ v \in Writer /\ BuffersOK(v) /\ PlaceOK(v)
  /\ v.kind = "array" => v.limit <= v.lens[1]

\* What no append changes.
SameTask(u, v) == u.kind = v.kind /\ u.lens = v.lens /\ u.limit = v.limit

\* The buffer of a writer that has one.
LEMMA CurrentBuffer ==
  ASSUME NEW v, Fits(v), v.kind # "validator"
  PROVE  /\ v.cur \in 1 .. Len(v.lens) /\ v.at \in Nat /\ v.total \in Nat /\ v.limit \in Nat
         /\ v.lens[v.cur] \in Nat /\ v.total <= v.limit
         /\ v.kind = "array" => v.cur = 1 /\ v.at = v.total /\ v.limit <= v.lens[1]
         /\ v.kind = "iovec" => v.at <= v.lens[v.cur]
<1>1. v \in Writer /\ PlaceOK(v)
  BY DEF Fits
<1>2. v.kind \in {"array", "iovec"} /\ v.lens \in Seq(Nat)
  BY <1>1 DEF Writer
<1>3. v.cur \in 1 .. Len(v.lens)
  <2>1. CASE v.kind = "array"
    <3>1. Len(v.lens) = 1 /\ v.cur = 1
      BY <1>1, <2>1 DEF PlaceOK
    <3> QED BY <3>1
  <2>2. CASE v.kind = "iovec"
    BY <1>1, <2>2 DEF PlaceOK
  <2> QED BY <1>2, <2>1, <2>2
<1> QED BY <1>1, <1>2, <1>3 DEF Fits, PlaceOK, Writer

\* The writer moves on over bytes of its buffer.
LEMMA AdvanceFits ==
  ASSUME NEW v, Fits(v), v.kind # "validator", NEW u \in Alike(v), NEW n \in Nat,
         v.total + n <= v.limit, v.kind = "iovec" => v.at + n <= v.lens[v.cur]
  PROVE  /\ Fits(Advance(u, n)) /\ SameTask(Advance(u, n), v)
         /\ Advance(u, n).total = v.total + n /\ Advance(u, n).at = v.at + n
         /\ Advance(u, n).cur = v.cur
<1>1. PICK x : x = Advance(u, n)
  OBVIOUS
<1>2. /\ u \in Writer /\ BuffersOK(u) /\ v \in Writer /\ PlaceOK(v)
      /\ u.kind = v.kind /\ u.lens = v.lens /\ u.cur = v.cur /\ u.at = v.at
      /\ u.total = v.total /\ u.limit = v.limit
  BY DEF Alike, Fits
<1>3. /\ x \in Writer /\ x.kind = v.kind /\ x.lens = v.lens /\ x.cur = v.cur
      /\ x.at = v.at + n /\ x.total = v.total + n /\ x.limit = v.limit /\ x.bufs = u.bufs
  <2>1. u.at \in Nat /\ u.total \in Nat
    BY <1>2 DEF Writer
  <2>2. PICK y \in Nat : y = u.at + n
    BY <2>1
  <2>3. PICK z \in Nat : z = u.total + n
    BY <2>1
  <2>4. x = [u EXCEPT !.at = y, !.total = z]
    BY <1>1, <2>2, <2>3 DEF Advance
  <2> QED BY <1>2, <2>2, <2>3, <2>4 DEF Writer
<1>4. BuffersOK(x)
  BY <1>2, <1>3 DEF BuffersOK
<1>5. PlaceOK(x)
  <2>1. v.kind = "iovec" => Address(x) = x.total
    <3>1. SUFFICES ASSUME v.kind = "iovec" PROVE Address(x) = x.total
      OBVIOUS
    <3>2. Address(v) = v.total /\ v.cur \in 1 .. Len(v.lens) /\ v.lens \in Seq(Nat)
      BY <1>2, <3>1 DEF PlaceOK, Writer
    <3>3. PICK a \in Nat : a = Starts(v.lens)[v.cur]
      BY <3>2, StartsIs
    <3>4. Address(v) = a + v.at /\ Address(x) = a + x.at
      BY <1>3, <3>3 DEF Address
    <3>5. v.at \in Nat /\ v.total \in Nat
      BY CurrentBuffer
    <3> QED BY <1>3, <3>2, <3>4, <3>5
  <2>2. v.at \in Nat /\ v.total \in Nat
    BY CurrentBuffer
  <2> QED BY <1>2, <1>3, <2>1, <2>2 DEF PlaceOK
<1>6. Fits(x)
  BY <1>3, <1>4, <1>5 DEF Fits
<1> QED BY <1>1, <1>3, <1>6 DEF SameTask

\* TryFastAppend.
LEMMA FastAppendFits ==
  ASSUME NEW v, Fits(v), NEW available \in Int, NEW len \in Nat,
         FastAccepts(v, available, len), NEW s \in Seq(Cells), Len(s) = 16
  PROVE  Fits(FastAppend(v, s, len)) /\ SameTask(FastAppend(v, s, len), v)
<1>1. /\ v.kind # "validator" /\ len <= 16 /\ v.limit - v.total >= 16
      /\ v.kind = "iovec" => v.lens[v.cur] - v.at >= 16
  BY DEF FastAccepts, SpaceLeft
<1>2. v \in Writer /\ BuffersOK(v) /\ v.kind \in {"array", "iovec", "validator"}
  BY DEF Fits, Writer
<1>3. v.at + 16 <= v.lens[v.cur] /\ v.total + 16 <= v.limit
  <2>1. /\ v.at \in Nat /\ v.total \in Nat /\ v.limit \in Nat /\ v.lens[v.cur] \in Nat
        /\ v.kind = "array" => v.cur = 1 /\ v.at = v.total /\ v.limit <= v.lens[1]
    BY <1>1, CurrentBuffer
  <2>2. v.total + 16 <= v.limit
    BY <1>1, <2>1
  <2>3. CASE v.kind = "array"
    <3>1. v.at = v.total /\ v.limit <= v.lens[v.cur]
      BY <2>1, <2>3
    <3> QED BY <2>1, <2>2, <3>1
  <2>4. CASE v.kind = "iovec"
    <3>1. v.lens[v.cur] - v.at >= 16
      BY <1>1, <2>4
    <3> QED BY <2>1, <2>2, <3>1
  <2> QED BY <1>1, <1>2, <2>3, <2>4
<1>4. PICK u : u = Store(v, v.cur, v.at, s)
  OBVIOUS
<1>5. u \in Alike(v)
  BY <1>1, <1>2, <1>3, <1>4, CurrentBuffer, StoreKeeps
<1>6. v.total + len <= v.limit /\ v.at + len <= v.lens[v.cur]
  <2>1. v.at \in Nat /\ v.total \in Nat /\ v.limit \in Nat /\ v.lens[v.cur] \in Nat
    BY <1>1, CurrentBuffer
  <2>2. v.total + len <= v.limit
    BY <1>1, <1>3, <2>1
  <2>3. PICK p \in Nat, l \in Nat : p = v.at /\ l = v.lens[v.cur]
    BY <2>1, Zenon
  <2>4. p + 16 <= l
    BY <1>3, <2>3
  <2>5. p + len <= l
    BY <1>1, <2>4
  <2> QED BY <2>2, <2>3, <2>5
<1> QED BY <1>1, <1>4, <1>5, <1>6, AdvanceFits DEF FastAppend

\* The validator counts.
LEMMA CountFits ==
  ASSUME NEW v, Fits(v), v.kind = "validator", NEW n \in Nat
  PROVE  Fits(Count(v, n).w) /\ SameTask(Count(v, n).w, v)
<1>1. PICK x : x = [v EXCEPT !.total = @ + n]
  OBVIOUS
<1>2. Count(v, n).w = x
  BY <1>1 DEF Count
<1>3. /\ x \in Writer /\ x.kind = v.kind /\ x.lens = v.lens /\ x.limit = v.limit
      /\ x.bufs = v.bufs
  <2>1. v \in Writer /\ v.total \in Nat
    BY DEF Writer, Fits
  <2>2. PICK y \in Nat : y = v.total + n
    BY <2>1
  <2>3. x = [v EXCEPT !.total = y]
    BY <1>1, <2>2
  <2> QED BY <2>1, <2>3 DEF Writer
<1>4. BuffersOK(x) /\ PlaceOK(x)
  BY <1>3 DEF BuffersOK, PlaceOK, Fits
<1> QED BY <1>2, <1>3, <1>4 DEF Fits, SameTask

\* The buffers of an iovec are filled: never past one, and never past the last.
LEMMA FillFits ==
  ASSUME NEW v, Fits(v), v.kind = "iovec", NEW s \in Seq(Cells),
         v.total + Len(s) <= v.limit
  PROVE  /\ Fits(Fill(v, s).w) /\ SameTask(Fill(v, s).w, v)
         /\ v.cur <= Fill(v, s).w.cur
         /\ Fill(v, s).w.total <= v.total + Len(s)
<1> DEFINE start == Starts(v.lens)
           last  == Len(v.lens)
           a     == Address(v)
           room  == start[last] + v.lens[last] - a
           n     == SmallerOf(Len(s), room)
           cur   == IF n < Len(s) THEN last ELSE IF n = 0 THEN v.cur ELSE BufferAt(v, a + n - 1)
           cell(b, k) == LET i == start[b] + k - a
                         IN  IF k <= v.lens[b] /\ i \in 1 .. n THEN s[i] ELSE v.bufs[b][k]
           bufs  == [b \in DOMAIN v.bufs |-> [k \in DOMAIN v.bufs[b] |-> cell(b, k)]]
           at    == a + n - start[cur]
           total == v.total + n
           x     == [v EXCEPT !.cur = cur, !.at = at, !.total = total, !.bufs = bufs]
<1>1. Fill(v, s).w = x
  BY DEF Fill
<1>2. /\ v \in Writer /\ BuffersOK(v) /\ PlaceOK(v) /\ v.lens \in Seq(Nat)
      /\ v.cur \in 1 .. last /\ v.at \in Nat /\ v.total \in Nat /\ v.limit \in Nat
      /\ v.at <= v.lens[v.cur] /\ last \in Nat
      /\ a = v.total /\ a = start[v.cur] + v.at
      /\ \A b \in 1 .. last : v.lens[b] \in Nat
  <2>1. v \in Writer /\ BuffersOK(v) /\ PlaceOK(v)
    BY DEF Fits
  <2>2. v.lens \in Seq(Nat)
    BY <2>1 DEF Writer
  <2>3. a = v.total /\ a = start[v.cur] + v.at
    BY <2>1 DEF PlaceOK, Address
  <2>4. last \in Nat /\ \A b \in 1 .. last : v.lens[b] \in Nat
    BY <2>2
  <2> HIDE DEF last, a, start
  <2> QED BY <2>1, <2>2, <2>3, <2>4, CurrentBuffer DEF last
<1>3. PICK z \in Nat : z = Len(s)
  OBVIOUS
<1>4. /\ start \in [1 .. last -> Nat]
      /\ \A i, j \in 1 .. last : i < j => start[i] + v.lens[i] <= start[j]
  BY <1>2, StartsIs, StartsGrow
<1> HIDE DEF start, last, a
<1>5. last \in 1 .. last /\ start[last] \in Nat /\ v.lens[last] \in Nat /\ a \in Nat
  BY <1>2, <1>4
<1>6. PICK sl \in Nat, ll \in Nat, sc \in Nat, lc \in Nat, p \in Nat, h \in Nat :
        /\ sl = start[last] /\ ll = v.lens[last] /\ sc = start[v.cur] /\ lc = v.lens[v.cur]
        /\ p = v.at /\ h = a
  BY <1>2, <1>4, <1>5
<1>7. h = sc + p /\ p <= lc /\ sc + lc <= sl + ll
  <2>1. h = sc + p /\ p <= lc
    BY <1>2, <1>6
  <2>2. CASE v.cur = last
    <3>1. sc = sl /\ lc = ll
      BY <1>6, <2>2
    <3> QED BY <2>1, <3>1
  <2>3. CASE v.cur # last
    <3>1. v.cur < last
      BY <1>2, <2>3
    <3>2. sc + lc <= sl
      BY <1>2, <1>4, <1>5, <1>6, <3>1, Zenon
    <3> QED BY <2>1, <3>2
  <2> QED BY <2>1, <2>2, <2>3
<1>8. n \in 0 .. z /\ h + n <= sl + ll /\ (n < z => h + n = sl + ll)
  <2>1. PICK m \in Nat : m = sl + ll - h
    BY <1>7
  <2>2. room = m
    BY <1>6, <2>1
  <2> HIDE DEF room
  <2>3. n = IF z < m THEN z ELSE m
    BY <1>3, <2>2 DEF SmallerOf
  <2> HIDE DEF n
  <2> QED BY <2>1, <2>3
<1> HIDE DEF room, n
<1>9. /\ cur \in 1 .. last /\ v.cur <= cur
      /\ start[cur] <= a + n /\ a + n <= start[cur] + v.lens[cur]
  <2>1. CASE n < z
    <3>1. cur = last
      BY <1>3, <2>1
    <3> HIDE DEF cur
    <3>2. h + n = sl + ll
      BY <1>8, <2>1
    <3>3. sl <= sl + ll
      OBVIOUS
    <3>4. cur \in 1 .. last /\ v.cur <= cur
      BY <1>2, <1>5, <3>1
    <3>5. start[cur] = sl /\ v.lens[cur] = ll
      BY <1>6, <3>1
    <3>6. sl <= h + n /\ h + n <= sl + ll
      BY <3>2, <3>3
    <3>7. h = a
      BY <1>6
    <3> QED BY <3>4, <3>5, <3>6, <3>7
  <2>2. CASE n = z /\ n = 0
    <3>1. cur = v.cur
      BY <1>3, <2>2
    <3> HIDE DEF cur
    <3>2. h + n = sc + p /\ sc <= h + n /\ h + n <= sc + lc
      BY <1>7, <2>2
    <3> QED BY <1>2, <1>6, <3>1, <3>2
  <2>3. CASE n = z /\ n # 0
    <3>1. PICK y \in Nat : y = h + n - 1 /\ h <= y /\ y + 1 = h + n /\ y < sl + ll
      BY <1>8, <2>3
    <3>2. cur = BufferAt(v, y)
      BY <1>3, <1>6, <2>3, <3>1
    <3> HIDE DEF cur
    <3>3. cur \in 1 .. last /\ start[cur] <= y /\ y < start[cur] + v.lens[cur]
      <4>1. last \in Nat \ {0} /\ last = Len(v.lens)
        BY <1>2 DEF last
      <4>2. y < start[last] + v.lens[last]
        BY <1>6, <3>1
      <4> QED BY <1>2, <3>2, <4>1, <4>2, BufferIs DEF start
    <3>4. PICK sx \in Nat, lx \in Nat : sx = start[cur] /\ lx = v.lens[cur]
      BY <1>2, <1>4, <3>3
    <3>5. sx <= y /\ y < sx + lx
      BY <3>3, <3>4
    <3>6. ~(cur < v.cur)
      <4>1. SUFFICES ASSUME cur < v.cur PROVE FALSE
        OBVIOUS
      <4>2. start[cur] + v.lens[cur] <= start[v.cur]
        BY <1>2, <1>4, <3>3, <4>1
      <4>3. sx + lx <= sc
        BY <1>6, <3>4, <4>2
      <4> QED BY <1>7, <3>1, <3>5, <4>3
    <3>7. v.cur <= cur
      BY <1>2, <3>3, <3>6
    <3>8. sx <= h + n /\ h + n <= sx + lx
      BY <3>1, <3>5
    <3> QED BY <1>6, <3>3, <3>4, <3>7, <3>8
  <2>4. n = z \/ n < z
    BY <1>8
  <2> QED BY <2>1, <2>2, <2>3, <2>4
<1> HIDE DEF cur
<1>10. /\ at \in Nat /\ at <= v.lens[cur] /\ start[cur] + at = a + n
       /\ total \in Nat /\ total <= v.total + z
  <2>1. PICK sx \in Nat, lx \in Nat : sx = start[cur] /\ lx = v.lens[cur]
    BY <1>2, <1>4, <1>9
  <2>2. total \in Nat /\ total <= v.total + z
    BY <1>2, <1>8
  <2>3. sx <= h + n /\ h + n <= sx + lx
    BY <1>6, <1>9, <2>1
  <2>4. at = h + n - sx
    BY <1>6, <2>1
  <2>5. at \in Nat /\ at <= lx /\ sx + at = h + n
    <3> HIDE DEF at
    <3> QED BY <1>8, <2>3, <2>4
  <2> HIDE DEF at, total
  <2> QED BY <1>6, <2>1, <2>2, <2>5
<1>11. /\ bufs \in Seq(Seq(Cells)) /\ Len(bufs) = last
       /\ \A b \in 1 .. last :
            /\ Len(bufs[b]) = v.lens[b] + Slack
            /\ \A k \in v.lens[b] + 1 .. v.lens[b] + Slack : bufs[b][k] = Guard
  <2>1. /\ v.bufs \in Seq(Seq(Cells)) /\ Len(v.bufs) = last
        /\ \A b \in 1 .. last :
             /\ v.bufs[b] \in Seq(Cells) /\ Len(v.bufs[b]) = v.lens[b] + Slack
             /\ \A k \in v.lens[b] + 1 .. v.lens[b] + Slack : v.bufs[b][k] = Guard
    <3>1. v.bufs \in Seq(Seq(Cells)) /\ Len(v.bufs) = last
      BY <1>2 DEF Writer, BuffersOK, last
    <3> QED BY <1>2, <3>1, BufferCells DEF last
  <2>2. DOMAIN v.bufs = 1 .. last
    BY <2>1
  <2>3. ASSUME NEW b \in 1 .. last
        PROVE  /\ bufs[b] \in Seq(Cells) /\ Len(bufs[b]) = v.lens[b] + Slack
               /\ \A k \in v.lens[b] + 1 .. v.lens[b] + Slack : bufs[b][k] = Guard
    <3>1. PICK m \in Nat : m = v.lens[b] + Slack
      <4>1. v.lens[b] \in Nat
        BY <1>2
      <4> QED BY <4>1 DEF Slack
    <3>2. DOMAIN v.bufs[b] = 1 .. m /\ \A k \in 1 .. m : v.bufs[b][k] \in Cells
      BY <2>1, <3>1
    <3>3. bufs[b] = [k \in 1 .. m |-> cell(b, k)]
      BY <2>2, <3>2
    <3>4. ASSUME NEW k \in 1 .. m PROVE cell(b, k) \in Cells
      <4>1. v.bufs[b][k] \in Cells
        BY <3>2
      <4>2. start[b] + k - a \in 1 .. n => s[start[b] + k - a] \in Cells
        <5>1. \A i \in 1 .. z : s[i] \in Cells
          BY <1>3
        <5> QED BY <1>8, <5>1
      <4> QED BY <4>1, <4>2
    <3>5. ASSUME NEW k \in v.lens[b] + 1 .. v.lens[b] + Slack PROVE cell(b, k) = Guard
      <4>1. ~(k <= v.lens[b])
        <5>1. PICK l \in Nat : l = v.lens[b]
          BY <1>2
        <5>2. k \in l + 1 .. l + Slack
          BY <5>1
        <5> QED BY <5>1, <5>2
      <4>2. v.bufs[b][k] = Guard
        BY <2>1
      <4> QED BY <4>1, <4>2
    <3>6. \A k \in v.lens[b] + 1 .. v.lens[b] + Slack : k \in 1 .. m
      BY <1>2, <3>1 DEF Slack
    <3> HIDE DEF cell, bufs
    <3> QED BY <3>1, <3>3, <3>4, <3>5, <3>6
  <2>4. bufs = [b \in 1 .. last |-> bufs[b]]
    BY <2>2
  <2> HIDE DEF bufs
  <2>5. bufs \in [1 .. last -> Seq(Cells)]
    BY <2>3, <2>4
  <2>6. bufs \in Seq(Seq(Cells)) /\ Len(bufs) = last
    BY <1>2, <2>5
  <2> QED BY <2>3, <2>6
<1> HIDE DEF at, total, bufs
<1>12. /\ x \in Writer /\ x.kind = v.kind /\ x.lens = v.lens /\ x.cur = cur /\ x.at = at
       /\ x.total = total /\ x.limit = v.limit /\ x.bufs = bufs
  <2>1. cur \in Nat
    BY <1>2, <1>9
  <2> QED BY <1>2, <1>10, <1>11, <2>1 DEF Writer
<1> HIDE DEF x
<1>13. BuffersOK(x)
  BY <1>11, <1>12 DEF BuffersOK, last
<1>14. PlaceOK(x)
  <2>1. Address(x) = x.total
    <3>1. Address(x) = start[cur] + at
      BY <1>12 DEF Address, start
    <3>2. total = a + n
      BY <1>2 DEF total
    <3> QED BY <1>10, <1>12, <3>1, <3>2
  <2>2. x.cur \in 1 .. Len(x.lens) /\ x.at <= x.lens[x.cur]
    BY <1>9, <1>10, <1>12 DEF last
  <2>3. x.total <= x.limit
    BY <1>2, <1>3, <1>10, <1>12
  <2> QED BY <1>12, <2>1, <2>2, <2>3 DEF PlaceOK
<1>15. Fits(x) /\ SameTask(x, v)
  BY <1>12, <1>13, <1>14 DEF Fits, SameTask
<1>16. v.cur <= x.cur /\ x.total <= v.total + Len(s)
  BY <1>3, <1>9, <1>10, <1>12
<1> QED BY <1>1, <1>15, <1>16

\* A call of Append, whether it succeeds or not.
LEMMA AppendFits ==
  ASSUME NEW v, Fits(v), NEW s \in Seq(Cells)
  PROVE  Fits(AppendBytes(v, s).w) /\ SameTask(AppendBytes(v, s).w, v)
<1>1. PICK n \in Nat : n = Len(s)
  OBVIOUS
<1>2. v \in Writer /\ BuffersOK(v) /\ v.kind \in {"array", "iovec", "validator"}
  BY DEF Fits, Writer
<1>3. Fits(v) /\ SameTask(v, v)
  BY DEF SameTask
<1>4. CASE v.kind = "validator"
  <2>1. AppendBytes(v, s) = Count(v, n)
    BY <1>1, <1>4 DEF AppendBytes
  <2> QED BY <1>4, <2>1, CountFits
<1>5. CASE v.kind = "array"
  <2>1. /\ v.cur = 1 /\ 1 \in 1 .. Len(v.lens) /\ v.at \in Nat /\ v.total \in Nat
        /\ v.limit \in Nat /\ v.at = v.total /\ v.limit <= v.lens[1] /\ v.lens[1] \in Nat
    BY <1>5, CurrentBuffer
  <2>2. CASE SpaceLeft(v) < n
    <3>1. AppendBytes(v, s) = Failed(v)
      BY <1>1, <1>5, <2>2 DEF AppendBytes
    <3> QED BY <1>3, <3>1 DEF Failed
  <2>3. CASE ~(SpaceLeft(v) < n)
    <3>1. PICK u : u = Store(v, 1, v.at, s)
      OBVIOUS
    <3>2. v.total + n <= v.limit
      BY <2>1, <2>3 DEF SpaceLeft
    <3>3. v.at + n <= v.lens[1]
      BY <2>1, <3>2
    <3>4. u \in Alike(v)
      BY <1>1, <1>2, <2>1, <3>1, <3>3, StoreKeeps
    <3>5. AppendBytes(v, s) = Done(Advance(u, n))
      BY <1>1, <1>5, <2>3, <3>1 DEF AppendBytes
    <3>6. Fits(Advance(u, n)) /\ SameTask(Advance(u, n), v)
      BY <1>5, <3>2, <3>4, AdvanceFits
    <3> QED BY <3>5, <3>6 DEF Done
  <2> QED BY <2>2, <2>3
<1>6. CASE v.kind = "iovec"
  <2>1. CASE v.total + n > v.limit
    <3>1. AppendBytes(v, s) = Failed(v)
      BY <1>1, <1>6, <2>1 DEF AppendBytes
    <3> QED BY <1>3, <3>1 DEF Failed
  <2>2. CASE ~(v.total + n > v.limit)
    <3>1. AppendBytes(v, s) = Fill(v, s)
      BY <1>1, <1>6, <2>2 DEF AppendBytes
    <3>2. v.total + Len(s) <= v.limit
      <4>1. v.total \in Nat /\ v.limit \in Nat
        BY <1>2 DEF Writer
      <4> QED BY <1>1, <2>2, <4>1
    <3> QED BY <1>6, <3>1, <3>2, FillFits
  <2> QED BY <2>1, <2>2
<1> QED BY <1>2, <1>4, <1>5, <1>6

\* The three ways of the array writer to copy.
LEMMA ArrayCopyFits ==
  ASSUME NEW v, Fits(v), v.kind = "array", NEW offset \in Nat, NEW len \in Nat \ {0},
         NEW wide, CanReach(v, offset)
  PROVE  /\ Fits(ArrayCopy(v, offset, len, wide).w)
         /\ SameTask(ArrayCopy(v, offset, len, wide).w, v)
<1>1. /\ v.cur = 1 /\ 1 \in 1 .. Len(v.lens) /\ v.at \in Nat /\ v.total \in Nat
      /\ v.limit \in Nat /\ v.at = v.total /\ v.limit <= v.lens[1] /\ v.lens[1] \in Nat
  BY CurrentBuffer
<1>2. v \in Writer /\ BuffersOK(v) /\ Fits(v) /\ SameTask(v, v)
  BY DEF Fits, SameTask
<1>3. PICK at \in Nat, top \in Nat, room \in Nat, from \in Nat :
        /\ at = v.at /\ top = v.limit /\ room = v.lens[1] /\ from = v.at - offset
  BY <1>1 DEF CanReach
<1>4. top <= room /\ from + offset = at /\ from < at /\ SpaceLeft(v) = top - at
  BY <1>1, <1>3 DEF CanReach, SpaceLeft
<1>5. CASE len <= 16 /\ offset >= 8 /\ SpaceLeft(v) >= 16
  <2>1. at + 16 <= room /\ from + 16 <= room /\ at + len <= top
    BY <1>4, <1>5
  <2>2. PICK u : u = Copy64(v, 1, from, at, wide)
    OBVIOUS
  <2>3. u \in Alike(v)
    <3>1. from + 8 <= v.lens[1] /\ at + 8 <= v.lens[1]
      BY <1>3, <2>1
    <3> QED BY <1>1, <1>2, <2>2, <3>1, Copy64Keeps
  <2>4. u \in Writer /\ BuffersOK(u) /\ u.lens = v.lens
    BY <2>3 DEF Alike
  <2>5. PICK f \in Nat, t \in Nat : f = from + 8 /\ t = at + 8
    OBVIOUS
  <2>6. f + 8 <= room /\ t + 8 <= room
    BY <2>1, <2>5
  <2>7. PICK x : x = Copy64(u, 1, f, t, wide)
    OBVIOUS
  <2>8. x \in Alike(u)
    <3>1. f + 8 <= u.lens[1] /\ t + 8 <= u.lens[1] /\ 1 \in 1 .. Len(u.lens)
      BY <1>1, <1>3, <2>4, <2>6
    <3> QED BY <2>4, <2>7, <3>1, Copy64Keeps
  <2>9. x \in Alike(v)
    BY <2>3, <2>8, AlikeAgain
  <2>10. ArrayCopy(v, offset, len, wide) = Done(Advance(x, len))
    BY <1>3, <1>5, <2>2, <2>5, <2>7 DEF ArrayCopy
  <2>11. v.total + len <= v.limit
    BY <1>1, <1>3, <2>1
  <2> QED BY <2>9, <2>10, <2>11, AdvanceFits DEF Done
<1>6. CASE /\ ~(len <= 16 /\ offset >= 8 /\ SpaceLeft(v) >= 16)
           /\ SpaceLeft(v) >= len + kMaxIncrementCopyOverflow
  <2>1. PICK u : u = IncrementalCopyFastPath(v, 1, from, at, len, wide)
    OBVIOUS
  <2>2. at + len + kMaxIncrementCopyOverflow <= room /\ at + len <= top
    BY <1>4, <1>6 DEF kMaxIncrementCopyOverflow
  <2>3. u \in Alike(v)
    BY <1>1, <1>2, <1>3, <1>4, <2>1, <2>2, FastPathKeeps
  <2>4. ArrayCopy(v, offset, len, wide) = Done(Advance(u, len))
    BY <1>3, <1>6, <2>1 DEF ArrayCopy
  <2>5. v.total + len <= v.limit
    BY <1>1, <1>3, <2>2
  <2> QED BY <2>3, <2>4, <2>5, AdvanceFits DEF Done
<1>7. CASE /\ ~(len <= 16 /\ offset >= 8 /\ SpaceLeft(v) >= 16)
           /\ ~(SpaceLeft(v) >= len + kMaxIncrementCopyOverflow)
           /\ ~(SpaceLeft(v) < len)
  <2>1. PICK u : u = IncrementalCopy(v, 1, from, at, len)
    OBVIOUS
  <2>2. at + len <= room /\ from + len <= room /\ at + len <= top
    BY <1>4, <1>7
  <2>3. u \in Alike(v)
    BY <1>1, <1>2, <1>3, <2>1, <2>2, IncrementalCopyKeeps
  <2>4. ArrayCopy(v, offset, len, wide) = Done(Advance(u, len))
    BY <1>3, <1>7, <2>1 DEF ArrayCopy
  <2>5. v.total + len <= v.limit
    BY <1>1, <1>3, <2>2
  <2> QED BY <2>3, <2>4, <2>5, AdvanceFits DEF Done
<1>8. CASE /\ ~(len <= 16 /\ offset >= 8 /\ SpaceLeft(v) >= 16)
           /\ ~(SpaceLeft(v) >= len + kMaxIncrementCopyOverflow)
           /\ SpaceLeft(v) < len
  <2>1. ArrayCopy(v, offset, len, wide) = Failed(v)
    BY <1>8 DEF ArrayCopy
  <2> QED BY <1>2, <2>1 DEF Failed
<1> QED BY <1>5, <1>6, <1>7, <1>8

\* A call of AppendFromSelf, whether it succeeds or not.
LEMMA FromSelfFits ==
  ASSUME NEW v, Fits(v), v.kind # "iovec", NEW offset \in Nat, NEW len \in Nat \ {0}, NEW wide
  PROVE  /\ Fits(AppendFromSelf(v, offset, len, wide).w)
         /\ SameTask(AppendFromSelf(v, offset, len, wide).w, v)
<1>1. v.kind \in {"array", "validator"} /\ SameTask(v, v)
  BY DEF Fits, Writer, SameTask
<1>2. CASE ~CanReach(v, offset)
  <2>1. AppendFromSelf(v, offset, len, wide) = Failed(v)
    BY <1>2 DEF AppendFromSelf
  <2> QED BY <1>1, <2>1 DEF Failed
<1>3. CASE CanReach(v, offset) /\ v.kind = "validator"
  <2>1. AppendFromSelf(v, offset, len, wide) = Count(v, len)
    BY <1>3 DEF AppendFromSelf
  <2> QED BY <1>3, <2>1, CountFits
<1>4. CASE CanReach(v, offset) /\ v.kind = "array"
  <2>1. AppendFromSelf(v, offset, len, wide) = ArrayCopy(v, offset, len, wide)
    BY <1>4 DEF AppendFromSelf
  <2> QED BY <1>4, <2>1, ArrayCopyFits
<1> QED BY <1>1, <1>2, <1>3, <1>4

\* Where a copy of an iovec writer starts: in a buffer written before, or before
\* where the writer is.
LEMMA LocateIs ==
  ASSUME NEW v, Fits(v), v.kind = "iovec", NEW offset \in Nat, CanReach(v, offset)
  PROVE  /\ Locate(v, offset) \in [b : Nat, at : Nat]
         /\ Locate(v, offset).b \in 1 .. v.cur
         /\ Locate(v, offset).at <= v.lens[Locate(v, offset).b]
         /\ Locate(v, offset).b = v.cur => Locate(v, offset).at <= v.at
<1> DEFINE last == Len(v.lens)
<1>1. /\ v.lens \in Seq(Nat) /\ v.cur \in 1 .. last /\ last \in Nat \ {0}
      /\ Address(v) = v.total /\ v.at <= v.lens[v.cur]
  <2>1. v \in Writer /\ PlaceOK(v)
    BY DEF Fits
  <2>2. v.lens \in Seq(Nat) /\ Address(v) = v.total /\ v.at <= v.lens[v.cur]
    BY <2>1 DEF Writer, PlaceOK
  <2>3. v.cur \in 1 .. last /\ last \in Nat
    BY <2>2, CurrentBuffer
  <2> HIDE DEF last
  <2> QED BY <2>2, <2>3
<1> DEFINE start == Starts(v.lens)
<1>2. /\ start \in [1 .. last -> Nat] /\ \A b \in 1 .. last : v.lens[b] \in Nat
      /\ \A i, j \in 1 .. last : i < j => start[i] + v.lens[i] <= start[j]
  <2>1. start \in [1 .. last -> Nat]
    BY <1>1, StartsIs
  <2>2. \A b \in 1 .. last : v.lens[b] \in Nat
    BY <1>1
  <2>3. \A i, j \in 1 .. last : i < j => start[i] + v.lens[i] <= start[j]
    BY <1>1, StartsGrow, Zenon
  <2> QED BY <2>1, <2>2, <2>3
<1>3. Address(v) = start[v.cur] + v.at
  BY DEF Address
<1> HIDE DEF start, last
<1>4. PICK sc \in Nat, lc \in Nat, p \in Nat, h \in Nat :
        sc = start[v.cur] /\ lc = v.lens[v.cur] /\ p = v.at /\ h = v.total
  BY <1>1, <1>2, CurrentBuffer
<1>5. h = sc + p /\ p <= lc
  BY <1>1, <1>3, <1>4
<1>6. PICK a \in Nat : a = h - offset /\ a < h
  BY <1>4 DEF CanReach
<1>7. a < start[last] + v.lens[last]
  <2>1. last \in 1 .. last
    BY <1>1
  <2>2. PICK sl \in Nat, ll \in Nat : sl = start[last] /\ ll = v.lens[last]
    BY <1>2, <2>1
  <2>3. CASE v.cur = last
    <3>1. sc = sl /\ lc = ll
      BY <1>4, <2>2, <2>3
    <3>2. a < sl + ll
      BY <1>5, <1>6, <3>1
    <3> QED BY <2>2, <3>2
  <2>4. CASE v.cur # last
    <3>1. v.cur < last
      BY <1>1, <2>4
    <3>2. sc + lc <= sl
      BY <1>1, <1>2, <1>4, <2>1, <2>2, <3>1, Zenon
    <3>3. a < sl + ll
      BY <1>5, <1>6, <3>2
    <3> QED BY <2>2, <3>3
  <2> QED BY <2>3, <2>4
<1>8. PICK b : b = BufferAt(v, a)
  OBVIOUS
<1>9. b \in 1 .. last /\ start[b] <= a /\ a < start[b] + v.lens[b]
  BY <1>1, <1>7, <1>8, BufferIs DEF start, last
<1>10. PICK sb \in Nat, lb \in Nat : sb = start[b] /\ lb = v.lens[b]
  BY <1>2, <1>9
<1>11. PICK q \in Nat : q = a - sb /\ q <= lb
  BY <1>9, <1>10
<1>12. Locate(v, offset) = [b |-> b, at |-> q]
  BY <1>1, <1>4, <1>6, <1>8, <1>10, <1>11 DEF Locate, start
<1>13. b <= v.cur
  <2>1. SUFFICES ASSUME v.cur < b PROVE FALSE
    BY <1>1, <1>9
  <2>2. sc + lc <= sb
    BY <1>1, <1>2, <1>4, <1>9, <1>10, <2>1, Zenon
  <2>3. sb <= a
    BY <1>9, <1>10
  <2> QED BY <1>5, <1>6, <2>2, <2>3
<1>14. b = v.cur => q <= p
  <2>1. SUFFICES ASSUME b = v.cur PROVE q <= p
    OBVIOUS
  <2>2. sb = sc
    BY <1>4, <1>10, <2>1
  <2> QED BY <1>5, <1>6, <1>11, <2>2
<1>15. b \in Nat /\ b \in 1 .. v.cur
  BY <1>1, <1>9, <1>13
<1> QED BY <1>4, <1>10, <1>11, <1>12, <1>14, <1>15

\* A new writer fits the call it is made for.
LEMMA NewWriterFits ==
  ASSUME NEW kind \in {"array", "iovec", "validator"}, NEW lens \in Seq(Nat),
         kind = "validator" => lens = << >>, kind = "array" => Len(lens) = 1,
         kind = "iovec" => lens # << >>
  PROVE  /\ Fits(NewWriter(kind, lens))
         /\ NewWriter(kind, lens).kind = kind /\ NewWriter(kind, lens).lens = lens
         /\ NewWriter(kind, lens).total = 0 /\ NewWriter(kind, lens).limit = 0
<1> DEFINE cell(b, k) == IF k <= lens[b] THEN Garbage ELSE Guard
           bufs == [b \in DOMAIN lens |-> [k \in 1 .. lens[b] + Slack |-> cell(b, k)]]
           N == Len(lens)
<1>1. PICK v : v = NewWriter(kind, lens)
  OBVIOUS
<1>2. v = [kind |-> kind, lens |-> lens, cur |-> 1, at |-> 0, total |-> 0, limit |-> 0,
           bufs |-> bufs]
  BY <1>1 DEF NewWriter
<1>3. ASSUME NEW b \in 1 .. N
      PROVE  /\ bufs[b] \in Seq(Cells) /\ Len(bufs[b]) = lens[b] + Slack
             /\ \A k \in lens[b] + 1 .. lens[b] + Slack : bufs[b][k] = Guard
  <2>1. PICK l \in Nat, m \in Nat : l = lens[b] /\ m = lens[b] + Slack /\ m = l + 16
    BY DEF Slack
  <2>2. bufs[b] = [k \in 1 .. m |-> cell(b, k)]
    <3>1. b \in DOMAIN lens
      OBVIOUS
    <3>2. bufs[b] = [k \in 1 .. lens[b] + Slack |-> cell(b, k)]
      BY <3>1, Zenon
    <3> QED BY <2>1, <3>2, Zenon
  <2>3. \A k : cell(b, k) \in Cells
    BY DEF Cells
  <2>4. ASSUME NEW k \in l + 1 .. m PROVE cell(b, k) = Guard
    <3>1. ~(k <= lens[b])
      BY <2>1
    <3> QED BY <3>1, Zenon
  <2> HIDE DEF cell, bufs
  <2>5. bufs[b] \in Seq(Cells) /\ Len(bufs[b]) = m
    <3>1. bufs[b] \in [1 .. m -> Cells]
      BY <2>2, <2>3
    <3>2. PICK f : f = bufs[b]
      OBVIOUS
    <3>3. f \in [1 .. m -> Cells]
      BY <3>1, <3>2
    <3>4. f \in Seq(Cells) /\ Len(f) = m
      BY <3>3
    <3> QED BY <3>2, <3>4
  <2>6. \A k \in l + 1 .. m : bufs[b][k] = Guard
    <3>1. \A k \in l + 1 .. m : k \in 1 .. m
      BY <2>1
    <3> QED BY <2>2, <2>4, <3>1
  <2> QED BY <2>1, <2>5, <2>6
<1>4. bufs \in Seq(Seq(Cells)) /\ Len(bufs) = N
  <2>1. bufs = [b \in 1 .. N |-> bufs[b]] /\ N \in Nat
    OBVIOUS
  <2> HIDE DEF bufs, N
  <2>2. bufs \in [1 .. N -> Seq(Cells)]
    BY <1>3, <2>1
  <2> QED BY <2>1, <2>2
<1> HIDE DEF bufs
<1>5. v \in Writer
  BY <1>2, <1>4 DEF Writer
<1>6. BuffersOK(v)
  BY <1>2, <1>3, <1>4 DEF BuffersOK
<1>7. PlaceOK(v)
  <2>1. kind = "iovec" => Address(v) = 0 /\ 1 \in 1 .. N /\ lens[1] \in Nat
    <3> SUFFICES ASSUME kind = "iovec" PROVE Address(v) = 0 /\ 1 \in 1 .. N /\ lens[1] \in Nat
      OBVIOUS
    <3>1. 1 \in 1 .. N /\ lens[1] \in Nat
      OBVIOUS
    <3>2. Starts(lens)[1] = 0
      BY StartsIs
    <3> QED BY <1>2, <3>1, <3>2 DEF Address
  <2> QED BY <1>2, <2>1 DEF PlaceOK
<1>8. v.kind = "array" => v.limit <= v.lens[1]
  <2>1. kind = "array" => lens[1] \in Nat
    OBVIOUS
  <2>2. v.kind = kind /\ v.lens = lens /\ v.limit = 0
    BY <1>2
  <2> QED BY <2>1, <2>2
<1> QED BY <1>1, <1>2, <1>5, <1>6, <1>7, <1>8 DEF Fits

\* The writer of an invariant state fits.
LEMMA WriterFits ==
  ASSUME WriterOK
  PROVE  Fits(w)
  BY DEF WriterOK, RoomOK, Fits

\* Once the length is known, a writer that fits is all that is asked for.
LEMMA FittingWriter ==
  ASSUME Fits(w)', pc' \notin {"called", "length"}
  PROVE  WriterOK'
  BY DEF WriterOK, RoomOK, Fits

----------------------------------------------------------------------------
(* What is buffered *)

\* The types of the reader's state.
ReaderTypeOK ==
  /\ pos \in Nat /\ valid \in BOOLEAN
  /\ region \in {"none", "source", "scratch"}
  /\ ip \in Nat /\ limit \in Nat /\ ip <= limit /\ peeked \in Nat
  /\ scratch \in [1 .. kMaximumTagLength -> Byte \cup {Garbage}]
  /\ nbuf \in 0 .. kMaximumTagLength
  /\ literal \in 0 .. Huge
  /\ eof \in BOOLEAN
  /\ answer \in {"none", "ok", "invalid", "too small"}
  /\ pc \in {"called", "length", "refill", "needed", "stitch", "tag", "literal",
             "copying", "done", "gone"}

\* The part of the invariant about the reader.
Reader == ReaderTypeOK /\ BufferOK /\ StitchOK /\ SourceOK

\* The parts of the invariant.
LEMMA InvParts ==
  DecompressInv <=> LengthInv /\ GivenOK /\ Reader /\ WriterOK /\ CopyOK
<1>1. DecompressInv => LengthInv /\ GivenOK /\ Reader /\ WriterOK /\ CopyOK
  BY DEF DecompressInv, TypeOK, Reader, ReaderTypeOK
<1>2. ASSUME LengthInv, GivenOK, Reader, WriterOK, CopyOK
      PROVE  DecompressInv
  <2>1. LengthTypeOK /\ given.bytes \in Seq(Byte)
    BY <1>2 DEF LengthInv, GivenOK
  <2>2. w.kind \in {"array", "iovec", "validator"} /\ w.total \in Nat /\ w.at \in Nat
    BY <1>2 DEF WriterOK, Writer
  <2>3. \A b \in DOMAIN w.bufs : \A k \in DOMAIN w.bufs[b] : w.bufs[b][k] \in Cells
    <3>1. w.bufs \in Seq(Seq(Cells))
      BY <1>2 DEF WriterOK, Writer
    <3>2. \A b \in DOMAIN w.bufs : w.bufs[b] \in Seq(Cells)
      BY <3>1
    <3> QED BY <3>2
  <2>4. copy.len \in 0 .. 64 /\ copy.from.at \in Nat /\ copy.from.b \in Nat
    BY <1>2 DEF CopyOK
  <2> QED BY <1>2, <2>1, <2>2, <2>3, <2>4 DEF DecompressInv, TypeOK, Reader, ReaderTypeOK
<1> QED BY <1>1, <1>2

\* Regions show the stream.
LEMMA ShownIs ==
  ASSUME GivenOK
  PROVE  Shown = given.bytes
  BY DEF GivenOK, Shown

\* A buffered byte is a byte.
LEMMA AtByte ==
  ASSUME Reader, GivenOK, pc # "gone", Buffered, NEW i \in Nat, ip <= i, i < limit
  PROVE  At(i) \in Byte
<1>1. ip \in Nat /\ limit \in Nat /\ pos \in Nat /\ peeked \in Nat
  BY DEF Reader, ReaderTypeOK
<1>2. CASE region = "source" /\ valid /\ limit = pos + peeked
  <2>1. limit <= Len(given.bytes) /\ given.bytes \in Seq(Byte)
    BY <1>2 DEF Reader, SourceOK, GivenOK
  <2>2. At(i) = given.bytes[i + 1]
    BY <1>2, ShownIs DEF At
  <2>3. i + 1 \in 1 .. Len(given.bytes)
    BY <1>1, <2>1
  <2> QED BY <2>1, <2>2, <2>3
<1>3. CASE region = "scratch" /\ \A k \in ip + 1 .. limit : scratch[k] \in Byte
  <2>1. i + 1 \in ip + 1 .. limit
    BY <1>1
  <2> QED BY <1>3, <2>1 DEF At
<1> QED BY <1>2, <1>3 DEF Buffered

\* Buffered bytes are a sequence of bytes; none can always be taken.
LEMMA BytesAre ==
  ASSUME Reader, GivenOK, pc # "gone", ip < limit => Buffered,
         NEW i \in Nat, NEW n \in Nat, ip <= i, i + n <= limit
  PROVE  Bytes(i, n) \in Seq(Byte) /\ Bytes(i, n) \in Seq(Cells) /\ Len(Bytes(i, n)) = n
<1>1. ip \in Nat /\ limit \in Nat
  BY DEF Reader, ReaderTypeOK
<1>2. ASSUME NEW k \in 1 .. n PROVE At(i + k - 1) \in Byte
  <2>1. PICK j \in Nat : j = i + k - 1 /\ ip <= j /\ j < limit
    BY <1>1
  <2>2. Buffered
    BY <1>1, <2>1
  <2> QED BY <2>1, <2>2, AtByte
<1>3. PICK s : s = [k \in 1 .. n |-> At(i + k - 1)]
  OBVIOUS
<1>4. s = Bytes(i, n)
  BY <1>3 DEF Bytes
<1>5. s \in [1 .. n -> Byte] /\ s \in [1 .. n -> Cells]
  BY <1>2, <1>3 DEF Cells
<1>6. s \in Seq(Byte) /\ s \in Seq(Cells) /\ Len(s) = n
  BY <1>5
<1> QED BY <1>4, <1>6

\* The number in a trailer.
LEMMA NumberIs ==
  ASSUME NEW b \in Seq(Byte)
  PROVE  Number(b) \in 0 .. Huge /\ LongLength(b) \in 0 .. Huge
<1> DEFINE d(i) == IF i <= Len(b) THEN b[i] ELSE 0
<1>1. ASSUME NEW i \in Nat \ {0} PROVE d(i) \in Nat /\ d(i) <= 255
  <2>1. d(i) \in Byte
    <3>1. i <= Len(b) => b[i] \in Byte
      OBVIOUS
    <3>2. 0 \in Byte
      BY DEF Byte
    <3> QED BY <3>1, <3>2
  <2>2. \A c \in Byte : c \in Nat /\ c <= 255
    BY DEF Byte
  <2> HIDE DEF d
  <2> QED BY <2>1, <2>2, Zenon
<1>2. Number(b) = IF d(4) >= 64 THEN Huge
                  ELSE d(1) + 256 * d(2) + 65536 * d(3) + 16777216 * d(4)
  BY DEF Number
<1> HIDE DEF d
<1>3. PICK d1 \in Nat, d2 \in Nat, d3 \in Nat, d4 \in Nat :
        /\ d1 = d(1) /\ d2 = d(2) /\ d3 = d(3) /\ d4 = d(4)
        /\ d1 <= 255 /\ d2 <= 255 /\ d3 <= 255
  <2>1. /\ d(1) \in Nat /\ d(2) \in Nat /\ d(3) \in Nat /\ d(4) \in Nat
        /\ d(1) <= 255 /\ d(2) <= 255 /\ d(3) <= 255
    BY <1>1
  <2> QED BY <2>1, Zenon
<1>4. Number(b) = IF d4 >= 64 THEN Huge
                  ELSE d1 + 256 * d2 + 65536 * d3 + 16777216 * d4
  BY <1>2, <1>3
<1>5. Huge \in Nat
  BY SMT DEF Huge
<1>6. Number(b) \in Nat /\ Number(b) <= Huge
  <2>1. CASE d4 >= 64
    <3>1. Number(b) = Huge
      BY <1>4, <2>1
    <3> QED BY <1>5, <3>1
  <2>2. CASE ~(d4 >= 64)
    <3>1. PICK x \in Nat : x = d1 + 256 * d2 + 65536 * d3 + 16777216 * d4
      OBVIOUS
    <3>2. x < 1073741824
      <4>1. d1 <= 255 /\ d2 <= 255 /\ d3 <= 255 /\ d4 < 64
        BY <1>3, <2>2
      <4> QED BY <3>1, <4>1, SMT
    <3>3. x < Huge
      BY <3>2, SMT DEF Huge
    <3>4. Number(b) = x
      BY <1>4, <2>2, <3>1
    <3> QED BY <1>5, <3>3, <3>4
  <2> QED BY <2>1, <2>2
<1>7. PICK x \in Nat : x = Number(b) /\ x <= Huge
  BY <1>6
<1>8. LongLength(b) = IF b = <<255, 255, 255, 255>> THEN 0 ELSE IF x = Huge THEN Huge ELSE x + 1
  BY <1>7, Zenon DEF LongLength
<1>9. LongLength(b) \in 0 .. Huge
  BY <1>5, <1>7, <1>8
<1> QED BY <1>5, <1>6, <1>9

\* What is known where a tag is read.
LEMMA AtTag ==
  ASSUME Reader, GivenOK, pc \in {"tag", "copying"}
  PROVE  /\ ip \in Nat /\ limit \in Nat /\ ip < limit /\ Buffered /\ Tag \in Byte
         /\ EntryExtra(Tag) \in 0 .. 4 /\ EntryLength(Tag) \in 1 .. 64
         /\ ip + 1 + EntryExtra(Tag) <= limit
         /\ Offset \in Nat
<1>1. ip \in Nat /\ limit \in Nat /\ ip < limit /\ Buffered /\ pc # "gone"
  BY DEF Reader, ReaderTypeOK, BufferOK
<1>2. Tag \in Byte
  BY <1>1, AtByte DEF Tag
<1>3. EntryExtra(Tag) \in 0 .. 4 /\ EntryLength(Tag) \in 1 .. 64 /\ EntryOffset(Tag) \in Nat
  <2>1. PICK c \in Byte : c = Tag
    BY <1>2
  <2>2. Extra(c) \in 0 .. 4 /\ LengthIn(c) \in 1 .. 64 /\ OffsetIn(c) \in 0 .. 7
    BY TagParts
  <2>3. EntryExtra(c) = Extra(c) /\ EntryLength(c) = LengthIn(c)
        /\ EntryOffset(c) = 256 * OffsetIn(c)
    BY EntryIs
  <2> QED BY <2>1, <2>2, <2>3
<1>4. ip + 1 + EntryExtra(Tag) <= limit
  BY DEF Reader, BufferOK
<1>5. Offset \in Nat
  <2>1. PICK e \in Nat, i \in Nat : e = EntryExtra(Tag) /\ i = ip + 1
    BY <1>1, <1>3
  <2>2. ip <= i /\ i + e <= limit
    BY <1>1, <1>4, <2>1
  <2>3. Bytes(i, e) \in Seq(Byte)
    BY <1>1, <2>2, BytesAre
  <2>4. Number(Bytes(i, e)) \in 0 .. Huge
    BY <2>3, NumberIs
  <2>5. Offset = EntryOffset(Tag) + Number(Bytes(i, e))
    BY <2>1 DEF Offset
  <2>6. Number(Bytes(i, e)) \in Nat
    BY <2>4
  <2> QED BY <1>3, <2>5, <2>6
<1> QED BY <1>1, <1>2, <1>3, <1>4, <1>5

\* The length and the trailer of a literal, from its tag.
LEMMA AtLiteral ==
  ASSUME Reader, GivenOK, pc = "tag", Kind(Tag) = LITERAL
  PROVE  ShortLength \in 1 .. 64 /\ Trailing = EntryExtra(Tag)
<1>1. PICK c \in Byte : c = Tag
  BY AtTag
<1>2. Upper(c) \in 0 .. 63 /\ EntryExtra(c) = Extra(c)
  BY TagParts, EntryIs
<1>3. Extra(c) = IF Upper(c) < 60 THEN 0 ELSE Upper(c) - 59
  BY <1>1 DEF Extra, LITERAL, COPY_1_BYTE_OFFSET, COPY_2_BYTE_OFFSET, COPY_4_BYTE_OFFSET
<1> QED BY <1>1, <1>2, <1>3 DEF ShortLength, Trailing

----------------------------------------------------------------------------
(* The length *)

\* The length announced is a number.
LEMMA AnnouncedIs ==
  ASSUME LengthTypeOK, Parsed(input) # 0
  PROVE  Announced \in Nat
<1>1. PICK p : p = Parsed(input)
  OBVIOUS
<1>2. p \in 1 .. 5 /\ p <= Len(input) /\ input \in Seq(LengthByte)
  <2>1. p \in 1 .. kMax32 /\ EndsAt(input, p)
    BY <1>1, ParsedFound
  <2> QED BY <2>1 DEF EndsAt, LengthTypeOK, kMax32
<1>3. PICK n \in 0 .. 4 : p = n + 1
  <2>1. p - 1 \in 0 .. 4 /\ p = (p - 1) + 1
    BY <1>2
  <2> QED BY <2>1
<1>4. n < Len(input) /\ n <= Len(input)
  BY <1>2, <1>3
<1>5. Value(input, n) \in Nat
  BY <1>2, <1>4, ValueBound
<1>6. Value(input, n + 1) = Value(input, n) + Digit(input[n + 1]) * PowerOf(n)
  BY <1>2, <1>4, ValueStep
<1>7. Digit(input[n + 1]) \in Nat /\ PowerOf(n) \in Nat
  <2>1. n + 1 \in 1 .. Len(input)
    BY <1>2, <1>3
  <2>2. input[n + 1] \in LengthByte
    BY <1>2, <2>1
  <2> QED BY <2>2, DigitBound, PowerFits
<1>8. \A x, y, z \in Nat : x + y * z \in Nat
  BY SMT
<1>9. Value(input, n + 1) \in Nat
  BY <1>5, <1>6, <1>7, <1>8
<1> QED BY <1>1, <1>3, <1>9 DEF Announced

\* What is read from the source is the length announced in the buffer.
LEMMA ReadAsAnnounced ==
  ASSUME LengthInv, Parsed(input) # 0, status = "read"
  PROVE  result = Announced
<1>1. taken = Parsed(input) /\ result = Value(input, taken)
  BY FollowsParser DEF ReaderFollowsParser
<1> QED BY <1>1 DEF Announced

----------------------------------------------------------------------------
(* What most steps leave as it is *)

\* The reader of a length and the call.
LEMMA SameLength ==
  ASSUME LengthInv, GivenOK, UNCHANGED <<lengthVars, given>>
  PROVE  LengthInv' /\ GivenOK'
  BY DEF LengthInv, LengthTypeOK, Partial, Continues, lengthVars, GivenOK

\* A copy that is not being made.
LEMMA NoCopy ==
  ASSUME CopyOK, UNCHANGED copy, pc' # "copying"
  PROVE  CopyOK'
  BY DEF CopyOK

\* The reader when the call ends.
LEMMA ReaderEnds ==
  ASSUME Reader, pc # "gone", UNCHANGED <<source, tag, answer, given>>, pc' = "done"
  PROVE  Reader'
<1>1. /\ pos' = pos /\ valid' = valid /\ region' = region /\ ip' = ip /\ limit' = limit
      /\ peeked' = peeked /\ scratch' = scratch /\ nbuf' = nbuf /\ literal' = literal
      /\ eof' = eof /\ answer' = answer /\ given' = given /\ pc' = "done"
  BY DEF source, tag
<1>2. ReaderTypeOK'
  BY <1>1 DEF Reader, ReaderTypeOK
<1>3. BufferOK' /\ StitchOK'
  BY <1>1 DEF BufferOK, StitchOK
<1>4. pc # "gone" => SourceOK'
  BY <1>1 DEF Reader, SourceOK
<1> QED BY <1>2, <1>3, <1>4 DEF Reader

\* The reader goes on behind an element.
LEMMA ReaderContinues ==
  ASSUME Reader, GivenOK, pc \in {"tag", "literal", "copying"},
         NEW i \in Nat, ip <= i, i <= limit, Continue(i),
         UNCHANGED <<pos, valid, region, limit, peeked, tag, answer, given>>
  PROVE  Reader'
<1>1. /\ ReaderTypeOK /\ SourceOK /\ (ip < limit => Buffered) /\ ip \in Nat /\ limit \in Nat
      /\ pc # "gone"
  BY DEF Reader, ReaderTypeOK, BufferOK
<1>2. /\ ip' = i /\ limit' = limit /\ pos' = pos /\ valid' = valid /\ region' = region
      /\ peeked' = peeked /\ scratch' = scratch /\ nbuf' = nbuf /\ literal' = literal
      /\ eof' = eof /\ answer' = answer /\ given' = given
      /\ pc' = IF limit - i < 5 THEN "refill" ELSE "tag"
  BY DEF Continue, kMaximumTagLength, tag
<1>3. ReaderTypeOK' /\ SourceOK'
  BY <1>1, <1>2 DEF ReaderTypeOK, SourceOK
<1>4. StitchOK'
  BY <1>2 DEF StitchOK
<1>5. i < limit => Buffered'
  <2> SUFFICES ASSUME i < limit PROVE Buffered'
    OBVIOUS
  <2>1. Buffered
    BY <1>1
  <2>2. \A k \in i + 1 .. limit : k \in ip + 1 .. limit
    BY <1>1
  <2> QED BY <1>2, <2>1, <2>2 DEF Buffered
<1>6. ASSUME pc' = "tag"
      PROVE  /\ i + 5 <= limit
             /\ region = "scratch" => i = 0
             /\ i + 1 + EntryExtra(Tag)' <= limit
  <2>1. i + 5 <= limit
    BY <1>1, <1>2, <1>6
  <2>2. Buffered /\ i < limit
    BY <1>1, <2>1
  <2>3. region = "scratch" => i = 0
    BY <1>1, <2>1, <2>2 DEF Buffered, kMaximumTagLength
  <2>4. At(i) \in Byte
    BY <1>1, <2>2, AtByte
  <2>5. Tag' = At(i)
    BY <1>2 DEF Tag, At, Shown
  <2>6. EntryExtra(At(i)) \in 0 .. 4
    BY <2>4, EntryIs, TagParts
  <2>7. EntryExtra(Tag)' = EntryExtra(At(i))
    BY <2>5 DEF EntryExtra, Entry
  <2> QED BY <1>1, <2>1, <2>3, <2>6, <2>7
<1>7. BufferOK'
  <2>1. pc' \in {"refill", "tag"}
    BY <1>2
  <2>2. pc' = "tag" => i < limit
    BY <1>1, <1>6
  <2> QED BY <1>2, <1>5, <1>6, <2>1, <2>2 DEF BufferOK, kMaximumTagLength
<1> QED BY <1>3, <1>4, <1>7 DEF Reader

\* The invariant after a step, from its parts.
LEMMA InvPartsNext ==
  DecompressInv' <=> (LengthInv' /\ GivenOK' /\ Reader' /\ WriterOK' /\ CopyOK')
  BY InvParts, PTL

\* A step that leaves the length and the call as they are.
LEMMA LaterStep ==
  ASSUME DecompressInv, UNCHANGED <<lengthVars, given>>, Reader', Fits(w)', CopyOK',
         pc' \notin {"called", "length"}
  PROVE  DecompressInv'
<1>1. LengthInv' /\ GivenOK'
  BY InvParts, SameLength
<1>2. WriterOK'
  BY FittingWriter
<1> QED BY <1>1, <1>2, InvPartsNext

----------------------------------------------------------------------------
(* RefillTag *)

\* A new region, or the end of the input.
LEMMA FetchReader ==
  ASSUME Reader, GivenOK, Fetch, UNCHANGED <<given, answer>>
  PROVE  Reader' /\ w' = w /\ pc' \in {"needed", "done"}
<1>1. /\ ReaderTypeOK /\ pos + peeked <= Len(given.bytes) /\ given.bytes \in Seq(Byte)
      /\ pc = "refill" /\ pos \in Nat /\ peeked \in Nat
  BY DEF Reader, SourceOK, Fetch, GivenOK, ReaderTypeOK
<1>2. PICK p \in Nat : p = pos + peeked /\ pos' = p
  BY <1>1 DEF Fetch
<1>3. PICK n \in Peeks(p) :
        /\ peeked' = n
        /\ IF n = 0
             THEN eof' = TRUE /\ pc' = "done" /\ valid' = FALSE /\ UNCHANGED <<region, ip, limit>>
             ELSE /\ region' = "source" /\ valid' = TRUE
                  /\ ip' = p /\ limit' = p + n
                  /\ pc' = "needed" /\ UNCHANGED eof
        /\ UNCHANGED <<scratch, nbuf, literal, w>>
  BY <1>2 DEF Fetch
<1>4. PICK l \in Nat : l = Len(given.bytes)
  BY <1>1
<1>5. n \in Nat /\ p + n <= l
  BY <1>1, <1>2, <1>3, <1>4, ShownIs DEF Peeks
<1>6. SourceOK'
  BY <1>1, <1>2, <1>3, <1>5, <1>4 DEF SourceOK
<1>7. StitchOK'
  BY <1>3 DEF StitchOK
<1>8. CASE n = 0
  <2>1. ReaderTypeOK'
    BY <1>1, <1>2, <1>3, <1>5, <1>8 DEF ReaderTypeOK
  <2>2. BufferOK'
    BY <1>2, <1>3, <1>8 DEF BufferOK
  <2> QED BY <1>2, <1>3, <1>6, <1>7, <1>8, <2>1, <2>2 DEF Reader
<1>9. CASE n # 0
  <2>1. ReaderTypeOK'
    <3>1. /\ pos' \in Nat /\ ip' \in Nat /\ limit' \in Nat /\ ip' <= limit' /\ peeked' \in Nat
          /\ eof' = eof /\ valid' = TRUE /\ region' = "source" /\ pc' = "needed"
          /\ scratch' = scratch /\ nbuf' = nbuf /\ literal' = literal /\ answer' = answer
      BY <1>2, <1>3, <1>5, <1>9
    <3> QED BY <1>1, <3>1 DEF ReaderTypeOK
  <2>2. Buffered' /\ ip' < limit'
    BY <1>2, <1>3, <1>5, <1>9 DEF Buffered
  <2>3. BufferOK'
    BY <1>2, <1>3, <1>9, <2>2 DEF BufferOK
  <2> QED BY <1>2, <1>3, <1>6, <1>7, <1>9, <2>1, <2>3 DEF Reader
<1> QED BY <1>8, <1>9

\* There are bytes in the buffer.
LEMMA NoFetchReader ==
  ASSUME Reader, NoFetch, UNCHANGED <<given, answer>>
  PROVE  Reader' /\ w' = w /\ pc' = "needed"
<1>1. /\ pos' = pos /\ valid' = valid /\ region' = region /\ ip' = ip /\ limit' = limit
      /\ peeked' = peeked /\ scratch' = scratch /\ nbuf' = nbuf /\ literal' = literal
      /\ eof' = eof /\ answer' = answer /\ given' = given /\ w' = w
      /\ pc = "refill" /\ pc' = "needed" /\ ip < limit
  BY DEF NoFetch, source, tag
<1>2. ReaderTypeOK'
  BY <1>1 DEF Reader, ReaderTypeOK
<1>3. Buffered'
  BY <1>1 DEF Reader, BufferOK, Buffered
<1>4. BufferOK' /\ StitchOK' /\ SourceOK'
  BY <1>1, <1>3 DEF Reader, BufferOK, StitchOK, SourceOK
<1> QED BY <1>1, <1>2, <1>4 DEF Reader

\* Before RefillTag looks for the metadata of an element, its tag is buffered.
LEMMA AtNeeded ==
  ASSUME Reader, GivenOK, pc = "needed"
  PROVE  /\ ip \in Nat /\ limit \in Nat /\ ip < limit /\ Buffered
         /\ At(ip) \in Byte /\ Needed \in 1 .. 5 /\ Needed = EntryExtra(At(ip)) + 1
         /\ EntryExtra(At(ip)) \in 0 .. 4
<1>1. ip \in Nat /\ limit \in Nat /\ ip < limit /\ Buffered
  BY DEF Reader, ReaderTypeOK, BufferOK
<1>2. PICK c \in Byte : c = At(ip)
  BY <1>1, AtByte
<1>3. EntryExtra(c) \in 0 .. 4
  BY EntryIs, TagParts
<1> QED BY <1>1, <1>2, <1>3 DEF Needed

\* Fewer than five bytes are moved to the scratch buffer.
LEMMA MovesToScratch ==
  ASSUME Reader, GivenOK, pc = "needed", limit - ip < 5, MoveToScratch
  PROVE  /\ scratch' \in [1 .. kMaximumTagLength -> Byte \cup {Garbage}]
         /\ \A k \in 1 .. limit - ip : scratch'[k] \in Byte
         /\ scratch'[1] = At(ip)
<1>1. /\ ip \in Nat /\ limit \in Nat /\ ip < limit /\ Buffered /\ pc # "gone"
      /\ scratch \in [1 .. 5 -> Byte \cup {Garbage}]
  BY AtNeeded DEF Reader, ReaderTypeOK, kMaximumTagLength
<1>2. scratch' = [i \in 1 .. 5 |-> IF i <= limit - ip THEN At(ip + i - 1) ELSE scratch[i]]
  BY DEF MoveToScratch, kMaximumTagLength
<1>3. ASSUME NEW i \in 1 .. 5, i <= limit - ip PROVE At(ip + i - 1) \in Byte
  <2>1. PICK j \in Nat : j = ip + i - 1 /\ ip <= j /\ j < limit
    BY <1>1, <1>3
  <2> QED BY <1>1, <2>1, AtByte
<1>4. \A i \in 1 .. 5 : i <= limit - ip => scratch'[i] = At(ip + i - 1)
  BY <1>2
<1>5. scratch' \in [1 .. 5 -> Byte \cup {Garbage}]
  BY <1>1, <1>2, <1>3
<1>6. \A k \in 1 .. limit - ip : k \in 1 .. 5 /\ k <= limit - ip
  BY <1>1
<1>7. scratch'[1] = At(ip)
  <2>1. scratch'[1] = At(ip + 1 - 1) /\ ip + 1 - 1 = ip
    BY <1>1, <1>4
  <2> QED BY <2>1
<1> QED BY <1>3, <1>4, <1>5, <1>6, <1>7 DEF kMaximumTagLength

\* The tag's metadata is not all there.
LEMMA StitchReader ==
  ASSUME Reader, GivenOK, Stitch, UNCHANGED <<given, answer>>
  PROVE  Reader' /\ w' = w /\ pc' = "stitch"
<1>1. /\ pc = "needed" /\ pc' = "stitch" /\ limit - ip < Needed /\ MoveToScratch
      /\ nbuf' = limit - ip /\ region' = region /\ ip' = ip /\ limit' = limit
      /\ literal' = literal /\ eof' = eof /\ w' = w /\ given' = given /\ answer' = answer
  BY DEF Stitch
<1>2. pos' = pos + peeked /\ peeked' = 0 /\ valid' = FALSE
  BY <1>1 DEF MoveToScratch
<1>3. /\ ip \in Nat /\ limit \in Nat /\ ip < limit /\ pos \in Nat /\ peeked \in Nat
      /\ Needed \in 1 .. 5 /\ Needed = EntryExtra(At(ip)) + 1
      /\ EntryExtra(At(ip)) \in 0 .. 4
  BY <1>1, AtNeeded DEF Reader, ReaderTypeOK
<1>4. limit - ip \in 1 .. Needed /\ limit - ip \in 0 .. 5 /\ limit - ip < 5
  BY <1>1, <1>3
<1>5. /\ scratch' \in [1 .. kMaximumTagLength -> Byte \cup {Garbage}]
      /\ \A k \in 1 .. limit - ip : scratch'[k] \in Byte
      /\ scratch'[1] = At(ip)
  BY <1>1, <1>4, MovesToScratch
<1>6. Wanted' = Needed
  BY <1>3, <1>5 DEF Wanted, EntryExtra, Entry
<1>7. ReaderTypeOK'
  <2>1. pos' \in Nat /\ peeked' \in Nat
    BY <1>2, <1>3
  <2>2. nbuf' \in 0 .. kMaximumTagLength
    BY <1>1, <1>4 DEF kMaximumTagLength
  <2> QED BY <1>1, <1>2, <1>5, <2>1, <2>2 DEF Reader, ReaderTypeOK
<1>8. StitchOK'
  BY <1>1, <1>2, <1>4, <1>5, <1>6 DEF StitchOK
<1>9. BufferOK'
  BY <1>1 DEF BufferOK
<1>10. SourceOK'
  <2>1. pos + peeked <= Len(given.bytes)
    BY <1>1 DEF Reader, SourceOK
  <2> QED BY <1>1, <1>2, <1>3, <2>1 DEF SourceOK
<1> QED BY <1>1, <1>7, <1>8, <1>9, <1>10 DEF Reader

\* It is, but it is near the end of the buffer.
LEMMA KeepReader ==
  ASSUME Reader, GivenOK, Keep, UNCHANGED <<given, answer>>
  PROVE  Reader' /\ w' = w /\ pc' = "tag"
<1>1. /\ pc = "needed" /\ pc' = "tag" /\ limit - ip >= Needed /\ limit - ip < 5 /\ MoveToScratch
      /\ region' = "scratch" /\ ip' = 0 /\ limit' = limit - ip /\ nbuf' = nbuf
      /\ literal' = literal /\ eof' = eof /\ w' = w /\ given' = given /\ answer' = answer
  BY DEF Keep, kMaximumTagLength
<1>2. pos' = pos + peeked /\ peeked' = 0 /\ valid' = FALSE
  BY <1>1 DEF MoveToScratch
<1>3. /\ ip \in Nat /\ limit \in Nat /\ ip < limit /\ pos \in Nat /\ peeked \in Nat
      /\ Needed \in 1 .. 5 /\ Needed = EntryExtra(At(ip)) + 1
      /\ EntryExtra(At(ip)) \in 0 .. 4
  BY <1>1, AtNeeded DEF Reader, ReaderTypeOK
<1>4. PICK m \in Nat : m = limit - ip /\ m >= Needed /\ m < 5 /\ m # 0
  BY <1>1, <1>3
<1>5. /\ scratch' \in [1 .. kMaximumTagLength -> Byte \cup {Garbage}]
      /\ \A k \in 1 .. m : scratch'[k] \in Byte
      /\ scratch'[1] = At(ip)
  BY <1>1, <1>4, MovesToScratch
<1>6. ReaderTypeOK'
  <2>1. pos' \in Nat /\ peeked' \in Nat
    BY <1>2, <1>3
  <2>2. ip' \in Nat /\ limit' \in Nat /\ ip' <= limit'
    BY <1>1, <1>4
  <2> QED BY <1>1, <1>2, <1>5, <2>1, <2>2 DEF Reader, ReaderTypeOK
<1>7. Buffered'
  BY <1>1, <1>4, <1>5 DEF Buffered, kMaximumTagLength
<1>8. EntryExtra(Tag)' = EntryExtra(At(ip))
  <2>1. Tag' = scratch'[1]
    BY <1>1 DEF Tag, At
  <2> QED BY <1>5, <2>1 DEF EntryExtra, Entry
<1>9. BufferOK'
  <2>1. ip' + 1 + EntryExtra(Tag)' <= limit'
    BY <1>1, <1>3, <1>4, <1>8
  <2>2. ip' < limit'
    BY <1>1, <1>4
  <2> QED BY <1>1, <1>7, <2>1, <2>2 DEF BufferOK
<1>10. StitchOK'
  BY <1>1 DEF StitchOK
<1>11. SourceOK'
  <2>1. pos + peeked <= Len(given.bytes)
    BY <1>1 DEF Reader, SourceOK
  <2> QED BY <1>1, <1>2, <1>3, <2>1 DEF SourceOK
<1> QED BY <1>1, <1>6, <1>9, <1>10, <1>11 DEF Reader

\* There is room for a load of four bytes behind it.
LEMMA UseBufferReader ==
  ASSUME Reader, GivenOK, UseBuffer, UNCHANGED <<given, answer>>
  PROVE  Reader' /\ w' = w /\ pc' = "tag"
<1>1. /\ pos' = pos /\ valid' = valid /\ region' = region /\ ip' = ip /\ limit' = limit
      /\ peeked' = peeked /\ scratch' = scratch /\ nbuf' = nbuf /\ literal' = literal
      /\ eof' = eof /\ answer' = answer /\ given' = given /\ w' = w
      /\ pc = "needed" /\ pc' = "tag" /\ limit - ip >= 5
  BY DEF UseBuffer, source, tag, kMaximumTagLength
<1>2. /\ ip \in Nat /\ limit \in Nat /\ ip < limit /\ Buffered
      /\ Needed \in 1 .. 5 /\ Needed = EntryExtra(At(ip)) + 1
      /\ EntryExtra(At(ip)) \in 0 .. 4
  BY <1>1, AtNeeded
<1>3. ReaderTypeOK'
  BY <1>1 DEF Reader, ReaderTypeOK
<1>4. Buffered'
  BY <1>1, <1>2 DEF Buffered
<1>5. EntryExtra(Tag)' = EntryExtra(At(ip))
  <2>1. Tag' = At(ip)
    BY <1>1 DEF Tag, At, Shown
  <2> QED BY <2>1 DEF EntryExtra, Entry
<1>6. BufferOK'
  <2>1. ip' + 1 + EntryExtra(Tag)' <= limit' /\ ip' + 5 <= limit'
    BY <1>1, <1>2, <1>5
  <2>2. region = "scratch" => ip = 0
    BY <1>1, <1>2 DEF Buffered, kMaximumTagLength
  <2> QED BY <1>1, <1>2, <1>4, <2>1, <2>2 DEF BufferOK, kMaximumTagLength
<1>7. StitchOK' /\ SourceOK'
  BY <1>1 DEF StitchOK, Reader, SourceOK
<1> QED BY <1>1, <1>3, <1>6, <1>7 DEF Reader

\* What an element that is being put together wants is at most five bytes.
LEMMA AtStitch ==
  ASSUME Reader, pc = "stitch"
  PROVE  /\ nbuf \in 1 .. Wanted /\ Wanted \in 1 .. 5 /\ peeked = 0
         /\ \A k \in 1 .. nbuf : scratch[k] \in Byte
         /\ scratch \in [1 .. 5 -> Byte \cup {Garbage}] /\ pos \in Nat
         /\ ip \in Nat /\ limit \in Nat /\ ip <= limit
<1>1. /\ nbuf \in 1 .. Wanted /\ peeked = 0 /\ \A k \in 1 .. nbuf : scratch[k] \in Byte
      /\ nbuf \in 0 .. 5
  BY DEF Reader, StitchOK, ReaderTypeOK, kMaximumTagLength
<1>2. PICK n \in Nat : n = nbuf /\ n >= 1
  BY <1>1
<1>3. 1 \in 1 .. nbuf
  BY <1>2
<1>4. PICK c \in Byte : c = scratch[1]
  BY <1>1, <1>3
<1>5. EntryExtra(c) \in 0 .. 4
  BY EntryIs, TagParts
<1>6. Wanted \in 1 .. 5
  BY <1>4, <1>5 DEF Wanted
<1> QED BY <1>1, <1>6 DEF Reader, ReaderTypeOK, kMaximumTagLength

\* More of the metadata comes.
LEMMA StitchMoreReader ==
  ASSUME Reader, GivenOK, StitchMore, UNCHANGED <<given, answer>>
  PROVE  Reader' /\ w' = w /\ pc' = "stitch"
<1>1. /\ pc = "stitch" /\ pc' = "stitch" /\ nbuf < Wanted
      /\ valid' = valid /\ region' = region /\ ip' = ip /\ limit' = limit /\ peeked' = peeked
      /\ literal' = literal /\ eof' = eof /\ w' = w /\ given' = given /\ answer' = answer
  BY DEF StitchMore
<1>2. /\ nbuf \in 1 .. Wanted /\ Wanted \in 1 .. 5 /\ peeked = 0
      /\ \A k \in 1 .. nbuf : scratch[k] \in Byte
      /\ scratch \in [1 .. 5 -> Byte \cup {Garbage}] /\ pos \in Nat
  BY <1>1, AtStitch
<1>3. PICK n \in Peeks(pos) \ {0}, add \in Nat :
        /\ add = SmallerOf(Wanted - nbuf, n)
        /\ scratch' = [i \in 1 .. 5 |->
             IF i \in nbuf + 1 .. nbuf + add THEN given.bytes[pos + (i - nbuf)] ELSE scratch[i]]
        /\ nbuf' = nbuf + add /\ pos' = pos + add
  <2>1. PICK n \in Peeks(pos) \ {0} :
          /\ scratch' = [i \in 1 .. 5 |->
               IF i \in nbuf + 1 .. nbuf + SmallerOf(Wanted - nbuf, n)
                 THEN given.bytes[pos + (i - nbuf)] ELSE scratch[i]]
          /\ nbuf' = nbuf + SmallerOf(Wanted - nbuf, n) /\ pos' = pos + SmallerOf(Wanted - nbuf, n)
    BY ShownIs DEF StitchMore, kMaximumTagLength
  <2>2. n \in Nat
    BY DEF Peeks
  <2>3. SmallerOf(Wanted - nbuf, n) \in Nat
    BY <1>1, <1>2, <2>2 DEF SmallerOf
  <2> QED BY <2>1, <2>3
<1>4. PICK l \in Nat, m \in Nat, t \in Nat : l = Len(given.bytes) /\ m = nbuf /\ t = Wanted
  BY <1>2 DEF GivenOK
<1>5. m < t /\ t <= 5 /\ 1 <= m /\ m + add <= t /\ pos + add <= l /\ add <= n /\ n \in Nat
  <2>1. n \in Nat /\ pos + n <= l
    BY <1>2, <1>4, ShownIs DEF Peeks, GivenOK
  <2>2. m < t /\ t <= 5 /\ 1 <= m
    BY <1>1, <1>2, <1>4
  <2>3. add <= n /\ add <= t - m
    BY <1>3, <1>4, <2>1, <2>2 DEF SmallerOf
  <2> QED BY <1>2, <2>1, <2>2, <2>3
<1>6. ASSUME NEW i \in nbuf + 1 .. nbuf + add PROVE given.bytes[pos + (i - nbuf)] \in Byte
  <2>1. PICK j \in Nat : j = pos + (i - nbuf) /\ j \in 1 .. l
    BY <1>2, <1>4, <1>5
  <2> QED BY <1>4, <2>1 DEF GivenOK
<1>7. scratch' \in [1 .. 5 -> Byte \cup {Garbage}]
  BY <1>2, <1>3, <1>6
<1>8. \A k \in 1 .. nbuf + add : scratch'[k] \in Byte
  <2> SUFFICES ASSUME NEW k \in 1 .. nbuf + add PROVE scratch'[k] \in Byte
    OBVIOUS
  <2>1. k \in 1 .. 5
    BY <1>4, <1>5
  <2>2. k \in nbuf + 1 .. nbuf + add \/ k \in 1 .. nbuf
    BY <1>4
  <2> QED BY <1>2, <1>3, <1>6, <2>1, <2>2
<1>9. scratch'[1] = scratch[1]
  <2>1. 1 \in 1 .. 5 /\ 1 \notin nbuf + 1 .. nbuf + add
    BY <1>4, <1>5
  <2> QED BY <1>3, <2>1
<1>10. Wanted' = Wanted
  BY <1>9 DEF Wanted, EntryExtra, Entry
<1>11. nbuf' \in 1 .. Wanted /\ nbuf' \in 0 .. 5 /\ pos' \in Nat
  <2>1. nbuf' = m + add
    BY <1>3, <1>4
  <2>2. m + add \in 1 .. t /\ m + add \in 0 .. 5
    BY <1>5
  <2>3. pos' \in Nat
    BY <1>2, <1>3
  <2> QED BY <1>4, <2>1, <2>2, <2>3
<1>12. ReaderTypeOK'
  BY <1>1, <1>7, <1>11 DEF Reader, ReaderTypeOK, kMaximumTagLength
<1>13. StitchOK'
  BY <1>1, <1>2, <1>3, <1>8, <1>10, <1>11 DEF StitchOK
<1>14. BufferOK'
  BY <1>1 DEF BufferOK
<1>15. SourceOK'
  BY <1>1, <1>2, <1>3, <1>4, <1>5 DEF SourceOK
<1> QED BY <1>1, <1>12, <1>13, <1>14, <1>15 DEF Reader

\* The metadata is all there, in the scratch buffer.
LEMMA StitchDoneReader ==
  ASSUME Reader, GivenOK, StitchDone, UNCHANGED <<given, answer>>
  PROVE  Reader' /\ w' = w /\ pc' = "tag"
<1>1. /\ pc = "stitch" /\ pc' = "tag" /\ nbuf = Wanted
      /\ region' = "scratch" /\ ip' = 0 /\ limit' = Wanted
      /\ pos' = pos /\ valid' = valid /\ peeked' = peeked /\ scratch' = scratch /\ nbuf' = nbuf
      /\ literal' = literal /\ eof' = eof /\ w' = w /\ given' = given /\ answer' = answer
  BY DEF StitchDone
<1>2. Wanted \in 1 .. 5 /\ \A k \in 1 .. nbuf : scratch[k] \in Byte
  BY <1>1, AtStitch
<1>3. PICK t \in Nat : t = Wanted /\ 1 <= t /\ t <= 5
  BY <1>2
<1>4. ReaderTypeOK'
  <2>1. ip' \in Nat /\ limit' \in Nat /\ ip' <= limit'
    BY <1>1, <1>3
  <2> QED BY <1>1, <2>1 DEF Reader, ReaderTypeOK
<1>5. Buffered'
  BY <1>1, <1>2, <1>3 DEF Buffered, kMaximumTagLength
<1>6. BufferOK'
  <2>1. Tag' = scratch[1]
    BY <1>1 DEF Tag, At
  <2>2. EntryExtra(Tag)' = EntryExtra(scratch[1])
    BY <2>1 DEF EntryExtra, Entry
  <2>3. EntryExtra(scratch[1]) \in Nat
    <3>1. 1 \in 1 .. nbuf
      BY <1>1, <1>3
    <3>2. PICK c \in Byte : c = scratch[1]
      BY <1>2, <3>1
    <3>3. EntryExtra(c) \in 0 .. 4
      BY EntryIs, TagParts
    <3> QED BY <3>2, <3>3
  <2>4. ip' + 1 + EntryExtra(Tag)' <= limit'
    BY <1>1, <1>3, <2>2, <2>3 DEF Wanted
  <2>5. ip' < limit'
    BY <1>1, <1>3
  <2> QED BY <1>1, <1>5, <2>4, <2>5 DEF BufferOK
<1>7. StitchOK' /\ SourceOK'
  BY <1>1 DEF StitchOK, Reader, SourceOK
<1> QED BY <1>1, <1>4, <1>6, <1>7 DEF Reader

\* The input ends inside the metadata.
LEMMA StitchFailsReader ==
  ASSUME Reader, StitchFails, UNCHANGED <<given, answer>>
  PROVE  Reader' /\ w' = w /\ pc' = "done"
<1>1. pc # "gone" /\ pc' = "done" /\ w' = w /\ UNCHANGED <<source, tag, answer, given>>
  BY DEF StitchFails, Fail
<1> QED BY <1>1, ReaderEnds

----------------------------------------------------------------------------
(* Literals *)

\* TryFastAppend: it is only tried with sixteen bytes and the next tag in the
\* region, and five bytes for a load.
LEMMA FastLiteralKeeps ==
  ASSUME Reader, GivenOK, Fits(w), FastLiteral, UNCHANGED <<given, answer>>
  PROVE  Reader' /\ Fits(w)' /\ pc' = "tag"
<1>1. /\ pc = "tag" /\ pc' = "tag" /\ Kind(Tag) = LITERAL
      /\ FastAccepts(w, limit - (ip + 1), ShortLength)
      /\ w' = FastAppend(w, Bytes(ip + 1, 16), ShortLength)
      /\ ip' = ip + 1 + ShortLength
      /\ pos' = pos /\ valid' = valid /\ region' = region /\ limit' = limit /\ peeked' = peeked
      /\ scratch' = scratch /\ nbuf' = nbuf /\ literal' = literal /\ eof' = eof
      /\ given' = given /\ answer' = answer
  BY DEF FastLiteral, tag
<1>2. /\ ip \in Nat /\ limit \in Nat /\ Buffered /\ ip < limit
      /\ ShortLength \in 1 .. 64
  BY <1>1, AtTag, AtLiteral
<1>3. PICK s \in Nat, j \in Nat : s = ShortLength /\ j = ip + 1 + s
  BY <1>2
<1>4. s <= 16 /\ ip + 1 + 16 + 5 <= limit
  BY <1>1, <1>2, <1>3 DEF FastAccepts, kMaximumTagLength
<1>5. Fits(w)'
  <2>1. PICK i \in Nat : i = ip + 1
    BY <1>2
  <2>2. ip <= i /\ i + 16 <= limit /\ pc # "gone"
    BY <1>1, <1>2, <1>4, <2>1
  <2>3. Bytes(i, 16) \in Seq(Cells) /\ Len(Bytes(i, 16)) = 16
    BY <1>2, <2>2, BytesAre
  <2>4. PICK a \in Int : a = limit - (ip + 1)
    BY <1>2
  <2>5. Fits(FastAppend(w, Bytes(i, 16), s))
    BY <1>1, <1>3, <2>3, <2>4, FastAppendFits
  <2>6. w' = FastAppend(w, Bytes(i, 16), s)
    BY <1>1, <1>3, <2>1
  <2> QED BY <2>5, <2>6 DEF Fits, Writer, BuffersOK, PlaceOK, Address
<1>6. j + 5 <= limit /\ ip <= j /\ j < limit /\ ip' = j
  BY <1>1, <1>2, <1>3, <1>4
<1>7. region = "source" /\ valid /\ limit = pos + peeked
  BY <1>2, <1>4 DEF Buffered, kMaximumTagLength
<1>8. Buffered'
  BY <1>1, <1>7 DEF Buffered
<1>9. ReaderTypeOK'
  <2>1. ip' \in Nat /\ ip' <= limit
    BY <1>2, <1>6
  <2> QED BY <1>1, <2>1 DEF Reader, ReaderTypeOK
<1>10. EntryExtra(Tag)' \in 0 .. 4
  <2>1. At(j) \in Byte
    BY <1>1, <1>2, <1>6, AtByte
  <2>2. Tag' = At(j)
    BY <1>1, <1>6 DEF Tag, At, Shown
  <2>3. EntryExtra(Tag)' = EntryExtra(At(j))
    BY <2>2 DEF EntryExtra, Entry
  <2> QED BY <2>1, <2>3, EntryIs, TagParts
<1>11. BufferOK'
  <2>1. ip' + 1 + EntryExtra(Tag)' <= limit' /\ ip' + 5 <= limit' /\ ip' < limit'
    BY <1>1, <1>2, <1>6, <1>10
  <2> QED BY <1>1, <1>7, <1>8, <2>1 DEF BufferOK, kMaximumTagLength
<1>12. StitchOK' /\ SourceOK'
  BY <1>1 DEF StitchOK, Reader, SourceOK
<1> QED BY <1>1, <1>5, <1>9, <1>11, <1>12 DEF Reader

\* The length of a literal is read from its tag or its trailer.
LEMMA SlowLiteralReader ==
  ASSUME Reader, GivenOK, SlowLiteral, UNCHANGED <<given, answer>>
  PROVE  Reader' /\ w' = w /\ pc' = "literal"
<1>1. /\ pc = "tag" /\ pc' = "literal" /\ Kind(Tag) = LITERAL
      /\ literal' = IF Trailing = 0 THEN ShortLength ELSE LongLength(Bytes(ip + 1, Trailing))
      /\ ip' = ip + 1 + Trailing
      /\ pos' = pos /\ valid' = valid /\ region' = region /\ limit' = limit /\ peeked' = peeked
      /\ scratch' = scratch /\ nbuf' = nbuf /\ eof' = eof
      /\ given' = given /\ answer' = answer /\ w' = w
  BY DEF SlowLiteral
<1>2. /\ ip \in Nat /\ limit \in Nat /\ Buffered /\ EntryExtra(Tag) \in 0 .. 4
      /\ ip + 1 + EntryExtra(Tag) <= limit
      /\ ShortLength \in 1 .. 64 /\ Trailing = EntryExtra(Tag)
  BY <1>1, AtTag, AtLiteral
<1>3. PICK t \in Nat, i \in Nat : t = Trailing /\ i = ip + 1
  BY <1>2
<1>4. i + t <= limit /\ ip <= i /\ ip' = i + t
  BY <1>1, <1>2, <1>3
<1>5. literal' \in 0 .. Huge
  <2>1. Bytes(i, t) \in Seq(Byte)
    BY <1>1, <1>2, <1>4, BytesAre
  <2>2. LongLength(Bytes(i, t)) \in 0 .. Huge
    BY <2>1, NumberIs
  <2>3. ShortLength \in 0 .. Huge
    <3>1. Huge \in Nat /\ 64 <= Huge
      BY SMT DEF Huge
    <3> QED BY <1>2, <3>1
  <2> QED BY <1>1, <1>3, <2>2, <2>3
<1>6. ReaderTypeOK'
  <2>1. ip' \in Nat /\ ip' <= limit
    BY <1>2, <1>4
  <2> QED BY <1>1, <1>5, <2>1 DEF Reader, ReaderTypeOK
<1>7. Buffered'
  <2>1. \A k \in ip' + 1 .. limit : k \in ip + 1 .. limit
    BY <1>2, <1>4
  <2> QED BY <1>1, <1>2, <2>1 DEF Buffered
<1>8. BufferOK'
  BY <1>1, <1>7 DEF BufferOK
<1>9. StitchOK' /\ SourceOK'
  BY <1>1 DEF StitchOK, Reader, SourceOK
<1> QED BY <1>1, <1>6, <1>8, <1>9 DEF Reader

\* The literal goes on in the next region.
LEMMA LiteralPartKeeps ==
  ASSUME Reader, GivenOK, Fits(w), LiteralPart, UNCHANGED <<given, answer>>
  PROVE  Reader' /\ Fits(w)' /\ pc' \in {"literal", "done"}
<1>1. /\ pc = "literal" /\ limit - ip < literal
      /\ w' = AppendBytes(w, Bytes(ip, limit - ip)).w
      /\ literal' = literal - (limit - ip) /\ pos' = pos + peeked /\ region' = "source"
      /\ scratch' = scratch /\ nbuf' = nbuf /\ eof' = eof /\ given' = given /\ answer' = answer
  BY DEF LiteralPart
<1>2. /\ ip \in Nat /\ limit \in Nat /\ ip <= limit /\ pos \in Nat /\ peeked \in Nat
      /\ literal \in 0 .. Huge /\ (ip < limit => Buffered) /\ pc # "gone"
      /\ pos + peeked <= Len(given.bytes) /\ given.bytes \in Seq(Byte)
  BY <1>1 DEF Reader, ReaderTypeOK, BufferOK, SourceOK, GivenOK
<1>3. PICK p \in Nat, m \in Nat, l \in Nat :
        p = pos + peeked /\ m = limit - ip /\ l = Len(given.bytes)
  <2>1. pos + peeked \in Nat /\ limit - ip \in Nat
    BY <1>2
  <2>2. Len(given.bytes) \in Nat
    BY <1>2
  <2> QED BY <2>1, <2>2
<1>4. PICK n \in Peeks(p) :
        /\ peeked' = n /\ valid' = (n > 0)
        /\ IF n = 0 THEN pc' = "done" /\ UNCHANGED <<ip, limit>>
                    ELSE ip' = p /\ limit' = p + n /\ UNCHANGED pc
  BY <1>1, <1>3 DEF LiteralPart
<1>5. n \in Nat /\ p + n <= l
  BY <1>2, <1>3, <1>4, ShownIs DEF Peeks
<1>6. Fits(w)'
  <2>1. ip <= ip /\ ip + m <= limit
    BY <1>2, <1>3
  <2>2. Bytes(ip, m) \in Seq(Cells)
    BY <1>2, <2>1, BytesAre
  <2>3. Fits(AppendBytes(w, Bytes(ip, m)).w)
    BY <2>2, AppendFits
  <2>4. w' = AppendBytes(w, Bytes(ip, m)).w
    BY <1>1, <1>3
  <2> QED BY <2>3, <2>4 DEF Fits, Writer, BuffersOK, PlaceOK, Address
<1>7. literal' \in 0 .. Huge
  <2>1. Huge \in Nat
    BY SMT DEF Huge
  <2> QED BY <1>1, <1>2, <1>3, <2>1
<1>8. SourceOK'
  BY <1>1, <1>3, <1>4, <1>5 DEF SourceOK
<1>9. CASE n = 0
  <2>1. ReaderTypeOK'
    <3>1. pos' \in Nat /\ peeked' \in Nat
      BY <1>1, <1>3, <1>4, <1>5
    <3>2. ip' = ip /\ limit' = limit /\ pc' = "done"
      BY <1>4, <1>9
    <3>3. valid' = FALSE
      <4>1. (n > 0) = FALSE
        BY <1>9
      <4> QED BY <1>4, <4>1, Zenon
    <3> QED BY <1>1, <1>7, <3>1, <3>2, <3>3 DEF Reader, ReaderTypeOK
  <2>2. BufferOK' /\ StitchOK' /\ pc' = "done"
    BY <1>4, <1>9 DEF BufferOK, StitchOK
  <2> QED BY <1>6, <1>8, <2>1, <2>2 DEF Reader
<1>10. CASE n # 0
  <2>1. ip' = p /\ limit' = p + n /\ pc' = "literal" /\ peeked' = n /\ pos' = p
    BY <1>1, <1>3, <1>4, <1>10
  <2>2. valid' = TRUE
    <3>1. (n > 0) = TRUE
      BY <1>5, <1>10
    <3> QED BY <1>4, <3>1, Zenon
  <2>3. ip' = p /\ limit' = p + n /\ valid' = TRUE /\ pc' = "literal" /\ peeked' = n /\ pos' = p
    BY <2>1, <2>2
  <2>4. ReaderTypeOK'
    <3>1. pos' \in Nat /\ peeked' \in Nat /\ ip' \in Nat /\ limit' \in Nat /\ ip' <= limit'
      BY <1>5, <2>3
    <3> QED BY <1>1, <1>7, <2>3, <3>1 DEF Reader, ReaderTypeOK
  <2>5. Buffered'
    BY <1>1, <2>3 DEF Buffered
  <2>6. BufferOK' /\ StitchOK'
    BY <2>3, <2>5 DEF BufferOK, StitchOK
  <2> QED BY <1>6, <1>8, <2>3, <2>4, <2>6 DEF Reader
<1> QED BY <1>9, <1>10

\* The rest of the literal is in the buffer.
LEMMA LiteralEndKeeps ==
  ASSUME Reader, GivenOK, Fits(w), LiteralEnd, UNCHANGED <<given, answer>>
  PROVE  Reader' /\ Fits(w)' /\ pc' \in {"refill", "tag"}
<1>1. /\ pc = "literal" /\ limit - ip >= literal
      /\ w' = AppendBytes(w, Bytes(ip, literal)).w
      /\ Continue(ip + literal)
      /\ UNCHANGED <<pos, valid, region, limit, peeked, tag, answer, given>>
  BY DEF LiteralEnd
<1>2. /\ ip \in Nat /\ limit \in Nat /\ literal \in Nat /\ (ip < limit => Buffered) /\ pc # "gone"
  <2>1. Huge \in Nat
    BY SMT DEF Huge
  <2>2. literal \in 0 .. Huge
    BY DEF Reader, ReaderTypeOK
  <2>3. literal \in Nat
    BY <2>1, <2>2
  <2> QED BY <1>1, <2>3 DEF Reader, ReaderTypeOK, BufferOK
<1>3. PICK i \in Nat : i = ip + literal /\ ip <= i /\ i <= limit
  BY <1>1, <1>2
<1>4. Fits(w)'
  <2>1. ip <= ip /\ ip + literal <= limit
    BY <1>2, <1>3
  <2>2. Bytes(ip, literal) \in Seq(Cells)
    BY <1>2, <2>1, BytesAre
  <2>3. Fits(AppendBytes(w, Bytes(ip, literal)).w)
    BY <2>2, AppendFits
  <2> QED BY <1>1, <2>3 DEF Fits, Writer, BuffersOK, PlaceOK, Address
<1>5. Continue(i)
  BY <1>1, <1>3
<1>6. Reader'
  BY <1>1, <1>3, <1>5, ReaderContinues
<1>7. pc' \in {"refill", "tag"}
  BY <1>5 DEF Continue
<1> QED BY <1>4, <1>6, <1>7

\* Append returns false; the validator has counted the bytes all the same.
LEMMA LiteralFailsKeeps ==
  ASSUME Reader, GivenOK, Fits(w), LiteralFails, UNCHANGED <<given, answer>>
  PROVE  Reader' /\ Fits(w)' /\ pc' = "done"
<1>1. /\ pc = "literal"
      /\ w' = AppendBytes(w, Bytes(ip, SmallerOf(limit - ip, literal))).w
      /\ pc' = "done" /\ UNCHANGED <<source, tag, answer, given>>
  BY DEF LiteralFails, Fail
<1>2. /\ ip \in Nat /\ limit \in Nat /\ ip <= limit /\ literal \in Nat
      /\ (ip < limit => Buffered) /\ pc # "gone"
  <2>1. Huge \in Nat
    BY SMT DEF Huge
  <2>2. literal \in 0 .. Huge
    BY DEF Reader, ReaderTypeOK
  <2>3. literal \in Nat
    BY <2>1, <2>2
  <2> QED BY <1>1, <2>3 DEF Reader, ReaderTypeOK, BufferOK
<1>3. PICK n \in Nat : n = SmallerOf(limit - ip, literal) /\ ip + n <= limit
  <2>1. PICK m \in Nat : m = limit - ip
    BY <1>2
  <2>2. SmallerOf(m, literal) \in Nat /\ SmallerOf(m, literal) <= m
    BY <1>2 DEF SmallerOf
  <2> QED BY <1>2, <2>1, <2>2
<1>4. Fits(w)'
  <2>1. ip <= ip
    BY <1>2
  <2>2. Bytes(ip, n) \in Seq(Cells)
    BY <1>2, <1>3, <2>1, BytesAre
  <2>3. Fits(AppendBytes(w, Bytes(ip, n)).w)
    BY <2>2, AppendFits
  <2>4. w' = AppendBytes(w, Bytes(ip, n)).w
    BY <1>1, <1>3
  <2> QED BY <2>3, <2>4 DEF Fits, Writer, BuffersOK, PlaceOK, Address
<1>5. Reader'
  BY <1>1, <1>2, ReaderEnds
<1> QED BY <1>1, <1>4, <1>5

----------------------------------------------------------------------------
(* Copies *)

\* A copy of the array writer or the validator.
LEMMA CopyKeeps ==
  ASSUME Reader, GivenOK, Fits(w), Copy, UNCHANGED <<given, answer>>
  PROVE  Reader' /\ Fits(w)' /\ copy' = copy /\ pc' \in {"refill", "tag"}
<1>1. /\ pc = "tag" /\ w.kind # "iovec"
      /\ w' = AppendFromSelf(w, Offset, EntryLength(Tag), given.wide).w
      /\ Continue(ip + 1 + EntryExtra(Tag)) /\ copy' = copy
      /\ UNCHANGED <<pos, valid, region, limit, peeked, tag, answer, given>>
  BY DEF Copy, IsCopyTag, Copied
<1>2. /\ ip \in Nat /\ limit \in Nat /\ Offset \in Nat /\ EntryLength(Tag) \in Nat \ {0}
      /\ EntryExtra(Tag) \in Nat /\ ip + 1 + EntryExtra(Tag) <= limit
  BY <1>1, AtTag
<1>3. PICK i \in Nat : i = ip + 1 + EntryExtra(Tag) /\ ip <= i /\ i <= limit
  BY <1>2
<1>4. Fits(w)'
  <2>1. Fits(AppendFromSelf(w, Offset, EntryLength(Tag), given.wide).w)
    BY <1>1, <1>2, FromSelfFits
  <2> QED BY <1>1, <2>1 DEF Fits, Writer, BuffersOK, PlaceOK, Address
<1>5. Continue(i)
  BY <1>1, <1>3
<1>6. Reader'
  BY <1>1, <1>3, <1>5, ReaderContinues
<1>7. pc' \in {"refill", "tag"}
  BY <1>5 DEF Continue
<1> QED BY <1>1, <1>4, <1>6, <1>7

\* AppendFromSelf returns false.
LEMMA CopyFailsKeeps ==
  ASSUME Reader, GivenOK, Fits(w), CopyFails, UNCHANGED <<given, answer>>
  PROVE  Reader' /\ Fits(w)' /\ copy' = copy /\ pc' = "done"
<1>1. /\ pc = "tag" /\ w.kind # "iovec"
      /\ w' = AppendFromSelf(w, Offset, EntryLength(Tag), given.wide).w
      /\ pc' = "done" /\ copy' = copy /\ UNCHANGED <<source, tag, answer, given>>
  BY DEF CopyFails, IsCopyTag, Copied, Fail
<1>2. Offset \in Nat /\ EntryLength(Tag) \in Nat \ {0}
  BY <1>1, AtTag
<1>3. Fits(w)'
  <2>1. Fits(AppendFromSelf(w, Offset, EntryLength(Tag), given.wide).w)
    BY <1>1, <1>2, FromSelfFits
  <2> QED BY <1>1, <2>1 DEF Fits, Writer, BuffersOK, PlaceOK, Address
<1>4. Reader'
  BY <1>1, ReaderEnds
<1> QED BY <1>1, <1>3, <1>4

----------------------------------------------------------------------------
(* The copies of an iovec writer *)

\* The reader between the parts of a copy.
LEMMA ReaderCopies ==
  ASSUME Reader, pc \in {"tag", "copying"}, pc' = "copying",
         UNCHANGED <<source, tag, answer, given>>
  PROVE  Reader'
<1>1. /\ pos' = pos /\ valid' = valid /\ region' = region /\ ip' = ip /\ limit' = limit
      /\ peeked' = peeked /\ scratch' = scratch /\ nbuf' = nbuf /\ literal' = literal
      /\ eof' = eof /\ answer' = answer /\ given' = given
  BY DEF source, tag
<1>2. ReaderTypeOK'
  BY <1>1 DEF Reader, ReaderTypeOK
<1>3. Buffered' <=> Buffered
  BY <1>1 DEF Buffered
<1>4. EntryExtra(Tag)' = EntryExtra(Tag)
  BY <1>1 DEF EntryExtra, Entry, Tag, At, Shown
<1>5. BufferOK'
  BY <1>1, <1>3, <1>4 DEF Reader, BufferOK
<1>6. StitchOK' /\ SourceOK'
  BY <1>1 DEF Reader, StitchOK, SourceOK
<1> QED BY <1>2, <1>5, <1>6 DEF Reader

\* A copy starts where the bytes wanted are.
LEMMA StartCopyKeeps ==
  ASSUME Reader, GivenOK, Fits(w), StartCopy, UNCHANGED <<given, answer>>
  PROVE  Reader' /\ Fits(w)' /\ CopyOK' /\ pc' = "copying"
<1>1. /\ pc = "tag" /\ pc' = "copying" /\ w.kind = "iovec" /\ CanReach(w, Offset)
      /\ EntryLength(Tag) <= SpaceLeft(w) /\ w' = w
      /\ copy' = [from |-> Locate(w, Offset), len |-> EntryLength(Tag)]
      /\ UNCHANGED <<source, tag, answer, given>>
  BY DEF StartCopy, IsCopyTag, CanCopy
<1>2. Offset \in Nat /\ EntryLength(Tag) \in 1 .. 64
  BY <1>1, AtTag
<1>3. PICK f : f = Locate(w, Offset)
  OBVIOUS
<1>4. /\ f \in [b : Nat, at : Nat] /\ f.b \in 1 .. w.cur /\ f.at <= w.lens[f.b]
      /\ f.b = w.cur => f.at <= w.at
  BY <1>1, <1>2, <1>3, LocateIs
<1>5. CopyOK'
  <2>1. copy' = [from |-> f, len |-> EntryLength(Tag)]
    BY <1>1, <1>3
  <2>2. EntryLength(Tag) \in 0 .. 64
    BY <1>2
  <2> QED BY <1>1, <1>4, <2>1, <2>2 DEF CopyOK, SpaceLeft
<1>6. Reader'
  BY <1>1, ReaderCopies
<1>7. Fits(w)'
  BY <1>1 DEF Fits, Writer, BuffersOK, PlaceOK, Address
<1> QED BY <1>1, <1>5, <1>6, <1>7

\* There is nothing at the offset, or no room.
LEMMA StartCopyFailsKeeps ==
  ASSUME Reader, Fits(w), StartCopyFails, UNCHANGED <<given, answer>>
  PROVE  Reader' /\ Fits(w)' /\ copy' = copy /\ pc' = "done"
<1>1. /\ pc = "tag" /\ pc' = "done" /\ w' = w /\ copy' = copy
      /\ UNCHANGED <<source, tag, answer, given>>
  BY DEF StartCopyFails, IsCopyTag, Fail
<1>2. Reader'
  BY <1>1, ReaderEnds
<1>3. Fits(w)'
  BY <1>1 DEF Fits, Writer, BuffersOK, PlaceOK, Address
<1> QED BY <1>1, <1>2, <1>3

\* What a copy under way reads and has left.
LEMMA AtCopy ==
  ASSUME Fits(w), CopyOK, Copying
  PROVE  /\ pc = "copying" /\ w.kind = "iovec" /\ w \in Writer /\ BuffersOK(w)
         /\ w.lens \in Seq(Nat)
         /\ copy.len \in Nat /\ 1 <= copy.len /\ copy.len <= 64
         /\ copy.from.b \in Nat /\ copy.from.at \in Nat
         /\ w.cur \in Nat /\ 1 <= w.cur /\ Len(w.lens) \in Nat
         /\ copy.from.b \in 1 .. w.cur /\ copy.from.at <= w.lens[copy.from.b]
         /\ copy.from.b = w.cur => copy.from.at <= w.at
         /\ copy.len <= w.limit - w.total
         /\ w.cur \in 1 .. Len(w.lens) /\ w.at \in Nat /\ w.total \in Nat /\ w.limit \in Nat
         /\ w.lens[w.cur] \in Nat /\ w.at <= w.lens[w.cur]
         /\ copy = [from |-> [b |-> copy.from.b, at |-> copy.from.at], len |-> copy.len]
         /\ copy.from.b \in 1 .. Len(w.lens) /\ w.lens[copy.from.b] \in Nat
<1>1. /\ pc = "copying" /\ w.kind = "iovec" /\ w \in Writer /\ BuffersOK(w)
      /\ copy \in [from : [b : Nat, at : Nat], len : 0 .. 64] /\ copy.len > 0
      /\ copy.from.b \in 1 .. w.cur /\ copy.from.at <= w.lens[copy.from.b]
      /\ copy.from.b = w.cur => copy.from.at <= w.at
      /\ copy.len <= w.limit - w.total
  BY DEF Copying, CopyOK, Fits, SpaceLeft
<1>2. /\ copy.len \in 0 .. 64 /\ copy.from.b \in Nat /\ copy.from.at \in Nat
      /\ copy = [from |-> [b |-> copy.from.b, at |-> copy.from.at], len |-> copy.len]
  BY <1>1
<1>3. /\ w.cur \in 1 .. Len(w.lens) /\ w.at \in Nat /\ w.total \in Nat /\ w.limit \in Nat
      /\ w.lens[w.cur] \in Nat /\ w.at <= w.lens[w.cur]
  BY <1>1, CurrentBuffer
<1>4. w.lens \in Seq(Nat)
  BY <1>1 DEF Writer
<1>5. /\ copy.len \in Nat /\ 1 <= copy.len /\ copy.len <= 64
      /\ w.cur \in Nat /\ 1 <= w.cur /\ Len(w.lens) \in Nat
  <2>1. PICK len \in Nat : len = copy.len /\ len <= 64
    BY <1>2
  <2>2. 1 <= len
    BY <1>1, <2>1
  <2>3. Len(w.lens) \in Nat
    BY <1>4
  <2>4. w.cur \in Nat /\ 1 <= w.cur
    BY <1>3, <2>3
  <2> QED BY <2>1, <2>2, <2>3, <2>4
<1>6. copy.from.b \in 1 .. Len(w.lens)
  <2>1. Len(w.lens) \in Nat
    BY <1>4
  <2> QED BY <1>1, <1>3, <2>1
<1>7. w.lens[copy.from.b] \in Nat
  BY <1>4, <1>6
<1> QED BY <1>1, <1>2, <1>3, <1>4, <1>5, <1>6, <1>7

\* Bytes of an earlier buffer are appended.
LEMMA CopyAcrossKeeps ==
  ASSUME Reader, Fits(w), CopyOK, CopyAcross, UNCHANGED <<given, answer>>
  PROVE  Reader' /\ Fits(w)' /\ CopyOK' /\ pc' = "copying"
<1>1. Copying /\ copy.from.b # w.cur /\ pc' = pc /\ UNCHANGED <<source, tag, answer, given>>
  BY DEF CopyAcross
<1>2. /\ pc = "copying" /\ w.kind = "iovec" /\ w \in Writer /\ BuffersOK(w)
      /\ copy.len \in Nat /\ 1 <= copy.len /\ copy.len <= 64
      /\ copy.from.b \in Nat /\ copy.from.at \in Nat
      /\ w.cur \in Nat /\ 1 <= w.cur /\ w.lens \in Seq(Nat) /\ Len(w.lens) \in Nat
      /\ copy.from.b \in 1 .. w.cur /\ copy.from.at <= w.lens[copy.from.b]
      /\ copy.len <= w.limit - w.total
      /\ w.cur \in 1 .. Len(w.lens) /\ w.total \in Nat /\ w.limit \in Nat
      /\ copy.from.b \in 1 .. Len(w.lens) /\ w.lens[copy.from.b] \in Nat
  BY <1>1, AtCopy
<1>3. PICK b \in Nat, at \in Nat, len \in Nat, room \in Nat :
        b = copy.from.b /\ at = copy.from.at /\ len = copy.len /\ room = w.lens[copy.from.b]
  BY <1>2, Zenon
<1>4. PICK c \in Nat, top \in Nat, h \in Nat : c = w.cur /\ top = w.limit /\ h = w.total
  BY <1>2, Zenon
<1>5. at <= room /\ len <= 64 /\ 1 <= len /\ len <= top - h /\ b < c
  <2>1. at <= room /\ len <= 64 /\ 1 <= len /\ len <= top - h
    BY <1>2, <1>3, <1>4
  <2>2. b \in 1 .. c /\ b # c
    BY <1>1, <1>2, <1>3, <1>4
  <2> QED BY <2>1, <2>2
<1>6. PICK n \in Nat : n = SmallerOf(room - at, len) /\ n <= len /\ at + n <= room
  BY <1>5 DEF SmallerOf
<1>7. PICK s : s = Load(w, b, at, n)
  OBVIOUS
<1>8. /\ w' = AppendBytes(w, s).w
      /\ copy' = [from |-> [b |-> b + 1, at |-> 0], len |-> len - n]
  BY <1>3, <1>7, <1>6 DEF CopyAcross
<1>9. s \in Seq(Cells) /\ Len(s) = n
  <2>1. PICK q : q = w.bufs[b]
    OBVIOUS
  <2>2. q \in Seq(Cells) /\ Len(q) = room + Slack
    <3>1. q \in Seq(Cells) /\ Len(q) = w.lens[b] + Slack
      BY <1>2, <1>3, <2>1, BufferCells
    <3> QED BY <1>3, <3>1
  <2>3. PICK z \in Nat : z = at + n
    OBVIOUS
  <2>4. at <= z /\ z <= Len(q) /\ z - at = n
    BY <1>6, <2>2, <2>3 DEF Slack
  <2>5. s = SubSeq(q, at + 1, z)
    BY <1>7, <2>1, <2>3 DEF Load
  <2>6. s \in Seq(Cells) /\ Len(s) = z - at
    BY <2>2, <2>5, <2>4, PartIs
  <2> QED BY <2>4, <2>6
<1>10. AppendBytes(w, s) = Fill(w, s) /\ w.total + Len(s) <= w.limit
  <2>1. h + n <= top
    BY <1>5, <1>6
  <2>2. w.total + Len(s) <= w.limit /\ ~(w.total + Len(s) > w.limit)
    BY <1>4, <1>9, <2>1
  <2> QED BY <1>2, <2>1, <2>2 DEF AppendBytes
<1>11. PICK x : x = Fill(w, s).w
  OBVIOUS
<1>12. /\ Fits(x) /\ SameTask(x, w) /\ w.cur <= x.cur /\ x.total <= w.total + n
  BY <1>2, <1>9, <1>10, <1>11, FillFits
<1>13. w' = x
  BY <1>8, <1>10, <1>11
<1>14. /\ x.kind = "iovec" /\ x.lens = w.lens /\ x.limit = w.limit
       /\ x.cur \in 1 .. Len(x.lens) /\ x.at \in Nat /\ x.total \in Nat
  BY <1>2, <1>12, CurrentBuffer DEF SameTask
<1>15. CopyOK'
  <2>1. b + 1 \in 1 .. x.cur
    <3>1. PICK d \in Nat : d = x.cur
      BY <1>14
    <3>2. c <= d
      BY <1>12, <1>4, <3>1
    <3> QED BY <1>5, <3>1, <3>2
  <2>2. 0 <= x.lens[b + 1]
    <3>1. x.lens \in Seq(Nat) /\ Len(x.lens) \in Nat
      BY <1>12 DEF Fits, Writer
    <3>2. b + 1 \in 1 .. Len(x.lens)
      BY <1>14, <2>1, <3>1
    <3> QED BY <3>1, <3>2
  <2>3. len - n <= x.limit - x.total
    <3>1. PICK y \in Nat : y = x.total
      BY <1>14
    <3>2. y <= h + n /\ x.limit = top
      BY <1>12, <1>14, <1>4, <3>1
    <3>3. len - n <= top - y
      BY <1>5, <1>6, <3>2
    <3> QED BY <3>1, <3>2, <3>3
  <2>4. len - n \in 0 .. 64 /\ b + 1 \in Nat
    <3>1. n <= len /\ len <= 64
      BY <1>5, <1>6
    <3> QED BY <3>1
  <2>5. /\ copy' \in [from : [b : Nat, at : Nat], len : 0 .. 64]
        /\ copy'.from.b = b + 1 /\ copy'.from.at = 0 /\ copy'.len = len - n
    BY <1>8, <2>4
  <2> QED BY <1>13, <1>14, <2>1, <2>2, <2>3, <2>5 DEF CopyOK, SpaceLeft
<1>16. Reader'
  BY <1>1, <1>2, ReaderCopies
<1>17. Fits(w)'
  BY <1>12, <1>13 DEF Fits, Writer, BuffersOK, PlaceOK, Address
<1> QED BY <1>1, <1>2, <1>15, <1>16, <1>17

\* Bytes of the current buffer are copied inside it.
LEMMA CopyWithinKeeps ==
  ASSUME Reader, Fits(w), CopyOK, CopyWithin, UNCHANGED <<given, answer>>
  PROVE  Reader' /\ Fits(w)' /\ CopyOK' /\ pc' = "copying"
<1>1. /\ Copying /\ copy.from.b = w.cur /\ Within > 0 /\ pc' = pc
      /\ w' = Advance(IncrementalCopy(w, w.cur, copy.from.at, w.at, Within), Within)
      /\ copy' = [copy EXCEPT !.from.at = @ + Within, !.len = @ - Within]
      /\ UNCHANGED <<source, tag, answer, given>>
  BY DEF CopyWithin
<1>2. /\ pc = "copying" /\ w.kind = "iovec" /\ w \in Writer /\ BuffersOK(w)
      /\ copy.len \in Nat /\ 1 <= copy.len /\ copy.len <= 64
      /\ w.cur \in Nat /\ 1 <= w.cur /\ Len(w.lens) \in Nat
      /\ copy.from.at \in Nat /\ copy.from.at <= w.at
      /\ copy.len <= w.limit - w.total
      /\ w.cur \in 1 .. Len(w.lens) /\ w.at \in Nat /\ w.total \in Nat /\ w.limit \in Nat
      /\ w.lens[w.cur] \in Nat /\ w.at <= w.lens[w.cur] /\ w.lens \in Seq(Nat)
      /\ copy = [from |-> [b |-> copy.from.b, at |-> copy.from.at], len |-> copy.len]
  BY <1>1, AtCopy
<1>3. PICK from \in Nat, at \in Nat, len \in Nat, room \in Nat, c \in Nat :
        from = copy.from.at /\ at = w.at /\ len = copy.len /\ room = w.lens[w.cur] /\ c = w.cur
  BY <1>2, Zenon
<1>4. PICK top \in Nat, h \in Nat : top = w.limit /\ h = w.total
  BY <1>2, Zenon
<1>5. from <= at /\ at <= room /\ len <= 64 /\ 1 <= c /\ len <= top - h
  BY <1>2, <1>3, <1>4
<1>6. PICK n \in Nat : n = Within /\ n <= len /\ at + n <= room /\ from + n <= room
  <2>1. Within = SmallerOf(room - at, len)
    BY <1>3 DEF Within
  <2> QED BY <1>5, <2>1 DEF SmallerOf
<1>7. PICK u : u = IncrementalCopy(w, w.cur, from, at, n)
  OBVIOUS
<1>8. u \in Alike(w)
  <2>1. from + n <= w.lens[w.cur] /\ at + n <= w.lens[w.cur]
    BY <1>3, <1>6
  <2> QED BY <1>2, <1>7, <2>1, IncrementalCopyKeeps
<1>9. PICK x : x = Advance(u, n)
  OBVIOUS
<1>10. w' = x /\ copy' = [from |-> [b |-> c, at |-> from + n], len |-> len - n]
  <2>1. copy.from = [b |-> c, at |-> from] /\ copy = [from |-> [b |-> c, at |-> from], len |-> len]
    BY <1>1, <1>2, <1>3
  <2>2. copy' = [copy EXCEPT !.from.at = @ + n, !.len = @ - n]
    BY <1>1, <1>6
  <2>3. copy' = [from |-> [b |-> c, at |-> from + n], len |-> len - n]
    BY <2>1, <2>2
  <2>4. w' = x
    BY <1>1, <1>3, <1>6, <1>7, <1>9
  <2> QED BY <2>3, <2>4
<1>11. /\ Fits(x) /\ SameTask(x, w) /\ x.total = w.total + n /\ x.at = at + n /\ x.cur = c
  <2>1. w.total + n <= w.limit
    <3>1. h + n <= top
      BY <1>5, <1>6
    <3> QED BY <1>4, <3>1
  <2>2. w.at + n <= w.lens[w.cur]
    BY <1>3, <1>6
  <2> QED BY <1>2, <1>3, <1>8, <1>9, <2>1, <2>2, AdvanceFits
<1>12. CopyOK'
  <2>1. len - n \in 0 .. 64 /\ from + n \in Nat /\ from + n <= x.at /\ from + n <= room
    BY <1>5, <1>6, <1>11
  <2>2. x.lens[c] = room /\ x.kind = "iovec"
    BY <1>2, <1>3, <1>11 DEF SameTask
  <2>3. len - n <= x.limit - x.total
    <3>1. x.limit = top /\ x.total = h + n
      BY <1>4, <1>11 DEF SameTask
    <3>2. len - n <= top - (h + n)
      BY <1>5, <1>6
    <3> QED BY <3>1, <3>2
  <2>4. /\ copy' \in [from : [b : Nat, at : Nat], len : 0 .. 64]
        /\ copy'.from.b = c /\ copy'.from.at = from + n /\ copy'.len = len - n
    BY <1>10, <2>1
  <2>5. c \in 1 .. x.cur
    BY <1>5, <1>11
  <2> QED BY <1>10, <2>1, <2>2, <2>3, <2>4, <2>5 DEF CopyOK, SpaceLeft
<1>13. Reader'
  BY <1>1, <1>2, ReaderCopies
<1>14. Fits(w)'
  BY <1>10, <1>11 DEF Fits, Writer, BuffersOK, PlaceOK, Address
<1> QED BY <1>1, <1>2, <1>12, <1>13, <1>14

\* The current buffer is full: the writer goes on to the next one.
LEMMA CopyOnwardKeeps ==
  ASSUME Reader, Fits(w), CopyOK, CopyOnward, UNCHANGED <<given, answer>>
  PROVE  Reader' /\ Fits(w)' /\ CopyOK' /\ pc' = "copying"
<1>1. /\ Copying /\ copy.from.b = w.cur /\ Within = 0 /\ w.cur < Len(w.lens) /\ pc' = pc
      /\ w' = [w EXCEPT !.cur = @ + 1, !.at = 0] /\ copy' = copy
      /\ UNCHANGED <<source, tag, answer, given>>
  BY DEF CopyOnward
<1>2. /\ pc = "copying" /\ w.kind = "iovec" /\ w \in Writer /\ BuffersOK(w)
      /\ copy.len \in Nat /\ 1 <= copy.len /\ copy.len <= 64
      /\ w.cur \in Nat /\ 1 <= w.cur /\ Len(w.lens) \in Nat
      /\ copy.from.at \in Nat /\ copy.from.at <= w.lens[copy.from.b]
      /\ copy.len <= w.limit - w.total
      /\ w.cur \in 1 .. Len(w.lens) /\ w.at \in Nat /\ w.total \in Nat /\ w.limit \in Nat
      /\ w.lens[w.cur] \in Nat /\ w.at <= w.lens[w.cur] /\ w.lens \in Seq(Nat)
  BY <1>1, AtCopy
<1>3. PICK at \in Nat, len \in Nat, room \in Nat, c \in Nat, last \in Nat :
        at = w.at /\ len = copy.len /\ room = w.lens[w.cur] /\ c = w.cur /\ last = Len(w.lens)
  BY <1>2, Zenon
<1>4. at <= room /\ 1 <= len /\ 1 <= c /\ c < last
  BY <1>1, <1>2, <1>3
<1>5. at = room
  <2>1. SmallerOf(room - at, len) = 0
    BY <1>1, <1>3 DEF Within
  <2> QED BY <1>4, <2>1 DEF SmallerOf
<1>6. PICK x : x = [w EXCEPT !.cur = @ + 1, !.at = 0]
  OBVIOUS
<1>7. /\ x \in Writer /\ x.kind = "iovec" /\ x.lens = w.lens /\ x.cur = c + 1 /\ x.at = 0
      /\ x.total = w.total /\ x.limit = w.limit /\ x.bufs = w.bufs
  <2>1. /\ x.kind = w.kind /\ x.lens = w.lens /\ x.cur = w.cur + 1 /\ x.at = 0
        /\ x.total = w.total /\ x.limit = w.limit /\ x.bufs = w.bufs
    BY <1>2, <1>6 DEF Writer
  <2>2. x \in Writer
    <3>1. w.cur + 1 \in Nat /\ 0 \in Nat
      BY <1>2
    <3> QED BY <1>2, <1>6, <3>1 DEF Writer
  <2> QED BY <1>2, <1>3, <2>1, <2>2
<1>8. PlaceOK(x)
  <2>1. c + 1 \in 1 .. last /\ c + 1 \in 2 .. last /\ c \in 1 .. last
    BY <1>4
  <2>2. Starts(w.lens)[c + 1] = Starts(w.lens)[c] + w.lens[c]
    <3>1. \A b \in 2 .. last : Starts(w.lens)[b] = Starts(w.lens)[b - 1] + w.lens[b - 1]
      BY <1>2, <1>3, StartsIs
    <3>2. (c + 1) - 1 = c
      OBVIOUS
    <3> QED BY <2>1, <3>1, <3>2
  <2>3. PICK sc \in Nat, sn \in Nat : sc = Starts(w.lens)[c] /\ sn = Starts(w.lens)[c + 1]
    BY <1>2, <1>3, <2>1, StartsIs
  <2>4. sn = sc + room
    BY <1>3, <2>2, <2>3
  <2>5. w.total = sc + at
    <3>1. Address(w) = w.total
      BY <1>2 DEF Fits, PlaceOK
    <3> QED BY <1>3, <2>3, <3>1 DEF Address
  <2>6. Address(x) = x.total
    BY <1>5, <1>7, <2>3, <2>4, <2>5 DEF Address
  <2>7. x.at <= x.lens[x.cur]
    <3>1. w.lens[c + 1] \in Nat
      <4>1. PICK l \in Seq(Nat) : l = w.lens /\ c + 1 \in 1 .. Len(l)
        BY <1>2, <1>3, <2>1
      <4> QED BY <4>1
    <3> QED BY <1>7, <3>1
  <2>8. x.total <= x.limit
    BY <1>2, <1>7 DEF Fits, PlaceOK
  <2> QED BY <1>3, <1>7, <2>1, <2>6, <2>7, <2>8 DEF PlaceOK
<1>9. BuffersOK(x)
  BY <1>2, <1>7 DEF BuffersOK
<1>10. w' = x
  BY <1>1, <1>6
<1>11. Fits(w)'
  <2>1. Fits(x)
    BY <1>7, <1>8, <1>9 DEF Fits
  <2> QED BY <1>10, <2>1 DEF Fits, Writer, BuffersOK, PlaceOK, Address
<1>12. CopyOK'
  <2>1. /\ copy \in [from : [b : Nat, at : Nat], len : 0 .. 64] /\ copy.from.b = c
    BY <1>1, <1>3 DEF CopyOK
  <2>2. c \in 1 .. c + 1 /\ c # c + 1
    BY <1>4
  <2>3. copy.len <= SpaceLeft(x)
    BY <1>2, <1>7 DEF SpaceLeft
  <2> QED BY <1>1, <1>2, <1>7, <1>10, <2>1, <2>2, <2>3 DEF CopyOK
<1>13. Reader'
  BY <1>1, <1>2, ReaderCopies
<1> QED BY <1>1, <1>2, <1>11, <1>12, <1>13

\* There is no next buffer.
LEMMA CopyNoRoomKeeps ==
  ASSUME Reader, Fits(w), CopyNoRoom, UNCHANGED <<given, answer>>
  PROVE  Reader' /\ Fits(w)' /\ copy' = copy /\ pc' = "done"
<1>1. /\ pc = "copying" /\ pc' = "done" /\ w' = w /\ copy' = copy
      /\ UNCHANGED <<source, tag, answer, given>>
  BY DEF CopyNoRoom, Copying, Fail
<1>2. Reader'
  BY <1>1, ReaderEnds
<1>3. Fits(w)'
  BY <1>1 DEF Fits, Writer, BuffersOK, PlaceOK, Address
<1> QED BY <1>1, <1>2, <1>3

\* The copy is made: DecompressAllTags goes on.
LEMMA CopyEndKeeps ==
  ASSUME Reader, GivenOK, Fits(w), CopyEnd, UNCHANGED <<given, answer>>
  PROVE  Reader' /\ Fits(w)' /\ copy' = copy /\ pc' \in {"refill", "tag"}
<1>1. /\ pc = "copying" /\ w' = w /\ copy' = copy
      /\ Continue(ip + 1 + EntryExtra(Tag))
      /\ UNCHANGED <<pos, valid, region, limit, peeked, tag, answer, given>>
  BY DEF CopyEnd
<1>2. /\ ip \in Nat /\ limit \in Nat /\ EntryExtra(Tag) \in Nat
      /\ ip + 1 + EntryExtra(Tag) <= limit
  BY <1>1, AtTag
<1>3. PICK i \in Nat : i = ip + 1 + EntryExtra(Tag) /\ ip <= i /\ i <= limit
  BY <1>2
<1>4. Continue(i)
  BY <1>1, <1>3
<1>5. Reader'
  BY <1>1, <1>3, <1>4, ReaderContinues
<1>6. pc' \in {"refill", "tag"}
  BY <1>4 DEF Continue
<1>7. Fits(w)'
  BY <1>1 DEF Fits, Writer, BuffersOK, PlaceOK, Address
<1> QED BY <1>1, <1>5, <1>6, <1>7

----------------------------------------------------------------------------
(* Entry points, and the length *)

\* The reader before the elements are read, and when the call is refused.
LEMMA ReaderWaits ==
  ASSUME Reader, GivenOK, pc \in {"called", "length"}, pc' \in {"length", "refill"},
         UNCHANGED <<source, tag, answer, given>>
  PROVE  Reader'
<1>1. /\ pos' = pos /\ valid' = valid /\ region' = region /\ ip' = ip /\ limit' = limit
      /\ peeked' = peeked /\ scratch' = scratch /\ nbuf' = nbuf /\ literal' = literal
      /\ eof' = eof /\ answer' = answer /\ given' = given
  BY DEF source, tag
<1>2. ReaderTypeOK'
  BY <1>1 DEF Reader, ReaderTypeOK
<1>3. Buffered' <=> Buffered
  BY <1>1 DEF Buffered
<1>4. BufferOK'
  BY <1>1, <1>3 DEF Reader, BufferOK
<1>5. StitchOK' /\ SourceOK'
  BY <1>1 DEF Reader, StitchOK, SourceOK
<1> QED BY <1>2, <1>4, <1>5 DEF Reader

\* The call is made: nothing has been peeked or written.
LEMMA InitDecompressInv ==
  ASSUME ExactSources, Init
  PROVE  DecompressInv
<1>1. PICK r \in Calls :
        /\ input = r.header
        /\ given = [bytes |-> r.bytes, beyond |-> r.beyond, entry |-> r.entry,
                    lens |-> r.lens, wide |-> r.wide]
  BY DEF Init
<1>2. LengthInv
  <2>1. input \in Seq(LengthByte)
    BY <1>1, CallsAssumption
  <2>2. taken = 0 /\ result = 0 /\ status = "reading"
    BY DEF Init
  <2>3. Value(input, 0) = 0
    BY Powers, SMT DEF Value
  <2> QED BY <2>1, <2>2, <2>3, Powers DEF LengthInv, LengthTypeOK, Partial, Continues, kMax32
<1>3. GivenOK
  BY <1>1, CallsAssumption DEF GivenOK, ExactSources
<1>4. /\ pos = 0 /\ valid = FALSE /\ region = "none" /\ ip = 0 /\ limit = 0 /\ peeked = 0
      /\ scratch = [i \in 1 .. kMaximumTagLength |-> Garbage]
      /\ nbuf = 0 /\ literal = 0 /\ eof = FALSE
      /\ w = NewWriter("validator", << >>) /\ copy = [from |-> [b |-> 1, at |-> 0], len |-> 0]
      /\ answer = "none" /\ pc = "called"
  BY DEF Init
<1>5. Reader
  <2>1. 0 \in 0 .. kMaximumTagLength /\ 0 \in 0 .. Huge
    <3>1. Huge \in Nat
      BY SMT DEF Huge
    <3> QED BY <3>1 DEF kMaximumTagLength
  <2>2. ReaderTypeOK
    <3>1. scratch \in [1 .. kMaximumTagLength -> Byte \cup {Garbage}]
      BY <1>4
    <3>2. pos \in Nat /\ valid \in BOOLEAN /\ region \in {"none", "source", "scratch"}
      BY <1>4
    <3>3. ip \in Nat /\ limit \in Nat /\ ip <= limit /\ peeked \in Nat
      BY <1>4
    <3>4. nbuf \in 0 .. kMaximumTagLength /\ literal \in 0 .. Huge /\ eof \in BOOLEAN
      BY <1>4, <2>1
    <3> QED BY <1>4, <3>1, <3>2, <3>3, <3>4 DEF ReaderTypeOK
  <2>3. Len(given.bytes) \in Nat
    BY <1>3 DEF GivenOK
  <2> QED BY <1>4, <2>2, <2>3 DEF Reader, BufferOK, StitchOK, SourceOK
<1>6. WriterOK
  <2>1. << >> \in Seq(Nat)
    OBVIOUS
  <2>2. /\ Fits(w) /\ w.kind = "validator" /\ w.total = 0 /\ w.limit = 0
    BY <1>4, <2>1, NewWriterFits
  <2> QED BY <2>2 DEF Fits, WriterOK, RoomOK
<1>7. CopyOK
  BY <1>4 DEF CopyOK
<1> QED BY <1>2, <1>3, <1>5, <1>6, <1>7, InvParts

\* The buffer has no length, or the array is too small.
LEMMA RefuseInv ==
  ASSUME DecompressInv, Refuse, UNCHANGED given
  PROVE  DecompressInv'
<1>1. /\ LengthInv /\ GivenOK /\ Reader /\ WriterOK /\ CopyOK
  BY InvParts
<1>2. /\ pc = "called" /\ pc' = "gone" /\ answer' \in {"invalid", "too small"}
      /\ UNCHANGED <<lengthVars, given, source, tag, w, copy>>
  BY DEF Refuse
<1>3. ReaderTypeOK'
  BY <1>1, <1>2 DEF Reader, ReaderTypeOK, source, tag
<1>4. Reader'
  <2>1. BufferOK' /\ StitchOK'
    BY <1>2 DEF BufferOK, StitchOK
  <2>2. SourceOK'
    BY <1>1, <1>2 DEF Reader, SourceOK, source
  <2> QED BY <1>3, <2>1, <2>2 DEF Reader
<1>5. Fits(w)'
  <2>1. Fits(w)
    BY <1>1, WriterFits
  <2> QED BY <1>2, <2>1 DEF Fits, Writer, BuffersOK, PlaceOK, Address
<1>6. CopyOK'
  BY <1>1, <1>2, NoCopy
<1>7. pc' \notin {"called", "length"}
  BY <1>2
<1> QED BY <1>2, <1>4, <1>5, <1>6, <1>7, LaterStep

\* A writer is made: an array of the length announced, or one that is long enough.
LEMMA StartInv ==
  ASSUME DecompressInv, Start, UNCHANGED given
  PROVE  DecompressInv'
<1>1. LengthInv /\ GivenOK /\ Reader /\ WriterOK /\ CopyOK
  BY InvParts
<1>2. /\ pc = "called" /\ pc' = "length"
      /\ UNCHANGED <<lengthVars, given, source, tag, answer, copy>>
      /\ Parses => Parsed(input) # 0
      /\ given.entry = "snappy_uncompress" => given.lens[1] >= Announced
      /\ given.entry = "Uncompress" => w' = NewWriter("array", <<Announced>>)
      /\ given.entry = "snappy_uncompress" => w' = NewWriter("array", given.lens)
      /\ given.entry = "RawUncompressToIOVec" => w' = NewWriter("iovec", given.lens)
      /\ given.entry = "IsValidCompressedBuffer" => w' = NewWriter("validator", << >>)
  BY DEF Start
<1>3. LengthInv' /\ GivenOK'
  BY <1>1, <1>2, SameLength
<1>4. Reader'
  BY <1>1, <1>2, ReaderWaits
<1>5. CopyOK'
  BY <1>1, <1>2, NoCopy
<1>6. PICK x : x = w'
  OBVIOUS
<1>7. /\ Fits(x) /\ x.total = 0 /\ x.limit = 0
      /\ x.kind = "array" => Parsed(input) # 0 /\ Announced <= x.lens[1]
  <2>1. CASE given.entry = "Uncompress"
    <3>1. Parsed(input) # 0
      BY <1>2, <2>1 DEF Parses
    <3>2. PICK a \in Nat : a = Announced
      BY <1>1, <3>1, AnnouncedIs DEF LengthInv
    <3>3. <<a>> \in Seq(Nat) /\ Len(<<a>>) = 1 /\ <<a>>[1] = a
      OBVIOUS
    <3>4. x = NewWriter("array", <<a>>)
      BY <1>2, <1>6, <2>1, <3>2
    <3>5. Fits(x) /\ x.total = 0 /\ x.limit = 0 /\ x.lens = <<a>>
      BY <3>3, <3>4, NewWriterFits
    <3> QED BY <3>1, <3>2, <3>3, <3>5
  <2>2. CASE given.entry = "snappy_uncompress"
    <3>1. Parsed(input) # 0 /\ given.lens[1] >= Announced /\ x = NewWriter("array", given.lens)
      BY <1>2, <1>6, <2>2 DEF Parses
    <3>2. given.lens \in Seq(Nat) /\ Len(given.lens) = 1
      BY <1>1, <2>2 DEF GivenOK
    <3>3. Announced \in Nat /\ given.lens[1] \in Nat
      BY <1>1, <3>1, <3>2, AnnouncedIs DEF LengthInv
    <3>4. Fits(x) /\ x.total = 0 /\ x.limit = 0 /\ x.lens = given.lens
      BY <3>1, <3>2, NewWriterFits
    <3> QED BY <3>1, <3>3, <3>4
  <2>3. CASE given.entry = "RawUncompressToIOVec"
    <3>1. given.lens \in Seq(Nat) /\ given.lens # << >> /\ x = NewWriter("iovec", given.lens)
      BY <1>1, <1>2, <1>6, <2>3 DEF GivenOK
    <3>2. Fits(x) /\ x.total = 0 /\ x.limit = 0 /\ x.kind = "iovec"
      BY <3>1, NewWriterFits
    <3> QED BY <3>2
  <2>4. CASE given.entry = "IsValidCompressedBuffer"
    <3>1. << >> \in Seq(Nat) /\ x = NewWriter("validator", << >>)
      BY <1>2, <1>6, <2>4
    <3>2. Fits(x) /\ x.total = 0 /\ x.limit = 0 /\ x.kind = "validator"
      BY <3>1, NewWriterFits
    <3> QED BY <3>2
  <2> QED BY <1>1, <2>1, <2>2, <2>3, <2>4 DEF GivenOK
<1>8. WriterOK'
  <2>1. x \in Writer /\ BuffersOK(x) /\ PlaceOK(x) /\ (x.kind = "array" => x.limit <= x.lens[1])
    BY <1>7 DEF Fits
  <2>2. input' = input /\ Announced' = Announced
    BY <1>2 DEF lengthVars, Announced
  <2> QED BY <1>2, <1>6, <1>7, <2>1, <2>2 DEF WriterOK, RoomOK, Writer, BuffersOK, PlaceOK, Address
<1> QED BY <1>3, <1>4, <1>5, <1>8, InvPartsNext

\* A byte of the length.
LEMMA ReadLengthInv ==
  ASSUME DecompressInv, ReadLength, UNCHANGED given
  PROVE  DecompressInv'
<1>1. LengthInv /\ GivenOK /\ Reader /\ WriterOK /\ CopyOK
  BY InvParts
<1>2. /\ pc = "length" /\ pc' = pc /\ ReadByte /\ input' = input
      /\ UNCHANGED <<given, source, tag, w, answer, copy>>
  BY DEF ReadLength, ReadByte
<1>3. LengthInv' /\ GivenOK'
  BY <1>1, <1>2, ReadByteInv DEF GivenOK
<1>4. Reader'
  BY <1>1, <1>2, ReaderWaits
<1>5. CopyOK'
  BY <1>1, <1>2, NoCopy
<1>6. WriterOK'
  <2>1. Announced' = Announced
    BY <1>2 DEF Announced
  <2> QED BY <1>1, <1>2, <2>1 DEF WriterOK, RoomOK, Writer, BuffersOK, PlaceOK, Address
<1> QED BY <1>3, <1>4, <1>5, <1>6, InvPartsNext

\* There is no length.
LEMMA NoLengthInv ==
  ASSUME DecompressInv, NoLength, UNCHANGED given
  PROVE  DecompressInv'
<1>1. LengthInv /\ GivenOK /\ Reader /\ WriterOK /\ CopyOK /\ Fits(w)
  BY InvParts, WriterFits
<1>2. /\ pc = "length" /\ pc' = "done" /\ FailLength
      /\ UNCHANGED <<given, source, tag, w, answer, copy>>
  BY DEF NoLength
<1>3. LengthInv' /\ GivenOK'
  BY <1>1, <1>2, FailInv DEF GivenOK
<1>4. Reader'
  BY <1>1, <1>2, ReaderEnds
<1>5. CopyOK'
  BY <1>1, <1>2, NoCopy
<1>6. WriterOK'
  <2>1. Fits(w)'
    BY <1>1, <1>2 DEF Fits, Writer, BuffersOK, PlaceOK, Address
  <2> QED BY <1>2, <2>1, FittingWriter
<1> QED BY <1>3, <1>4, <1>5, <1>6, InvPartsNext

\* The writer is told the length: an array is as long.
LEMMA SetExpectedLengthInv ==
  ASSUME DecompressInv, SetExpectedLength, UNCHANGED given
  PROVE  DecompressInv'
<1>1. LengthInv /\ GivenOK /\ Reader /\ WriterOK /\ CopyOK /\ Fits(w)
  BY InvParts, WriterFits
<1>2. /\ pc = "length" /\ pc' = "refill" /\ status = "read" /\ w' = [w EXCEPT !.limit = result]
      /\ UNCHANGED <<lengthVars, given, source, tag, answer, copy>>
  BY DEF SetExpectedLength
<1>3. Reader'
  BY <1>1, <1>2, ReaderWaits
<1>4. CopyOK'
  BY <1>1, <1>2, NoCopy
<1>5. PICK x : x = [w EXCEPT !.limit = result]
  OBVIOUS
<1>6. PICK n \in Nat : n = result
  BY <1>1, Powers DEF LengthInv, LengthTypeOK
<1>7. /\ x.kind = w.kind /\ x.lens = w.lens /\ x.cur = w.cur /\ x.at = w.at
      /\ x.total = w.total /\ x.limit = n /\ x.bufs = w.bufs /\ x \in Writer
  BY <1>1, <1>5, <1>6 DEF WriterOK, Writer
<1>8. w.total = 0
  BY <1>1, <1>2 DEF WriterOK
<1>9. x.kind = "array" => x.limit <= x.lens[1]
  <2> SUFFICES ASSUME x.kind = "array" PROVE x.limit <= x.lens[1]
    OBVIOUS
  <2>1. Parsed(input) # 0 /\ Announced <= w.lens[1]
    BY <1>1, <1>2, <1>7 DEF WriterOK, RoomOK
  <2>2. result = Announced
    BY <1>1, <1>2, <2>1, ReadAsAnnounced
  <2> QED BY <1>6, <1>7, <2>1, <2>2
<1>10. Fits(x)
  <2>1. BuffersOK(x)
    BY <1>1, <1>7 DEF Fits, BuffersOK
  <2>2. PlaceOK(x)
    BY <1>1, <1>7, <1>8 DEF Fits, PlaceOK, Address
  <2> QED BY <1>7, <1>9, <2>1, <2>2 DEF Fits
<1>11. Fits(w)'
  BY <1>2, <1>5, <1>10 DEF Fits, Writer, BuffersOK, PlaceOK, Address
<1>12. pc' \notin {"called", "length"}
  BY <1>2
<1> QED BY <1>2, <1>3, <1>4, <1>11, <1>12, LaterStep

\* The call answers.
LEMMA AnswerInv ==
  ASSUME DecompressInv, Answer, UNCHANGED given
  PROVE  DecompressInv'
<1>1. LengthInv /\ GivenOK /\ Reader /\ WriterOK /\ CopyOK /\ Fits(w)
  BY InvParts, WriterFits
<1>2. /\ pc = "done" /\ pc' = "gone" /\ answer' \in {"ok", "invalid"}
      /\ pos' = pos + peeked /\ valid' = FALSE
      /\ UNCHANGED <<lengthVars, given, region, ip, limit, peeked, tag, w, copy>>
  BY DEF Answer
<1>3. /\ pos \in Nat /\ peeked \in Nat /\ pos + peeked <= Len(given.bytes)
  BY <1>1, <1>2 DEF Reader, ReaderTypeOK, SourceOK
<1>4. ReaderTypeOK'
  <2>1. pos' \in Nat
    BY <1>2, <1>3
  <2> QED BY <1>1, <1>2, <2>1 DEF Reader, ReaderTypeOK, tag
<1>5. Reader'
  <2>1. BufferOK' /\ StitchOK'
    BY <1>2 DEF BufferOK, StitchOK
  <2>2. SourceOK'
    BY <1>2, <1>3 DEF SourceOK
  <2> QED BY <1>4, <2>1, <2>2 DEF Reader
<1>6. Fits(w)'
  BY <1>1, <1>2 DEF Fits, Writer, BuffersOK, PlaceOK, Address
<1>7. CopyOK'
  BY <1>1, <1>2, NoCopy
<1>8. pc' \notin {"called", "length"}
  BY <1>2
<1> QED BY <1>2, <1>5, <1>6, <1>7, <1>8, LaterStep
\* A step of the reader that leaves the writer as it is.
LEMMA KeepsWriter ==
  ASSUME DecompressInv, Fits(w), CopyOK, UNCHANGED <<lengthVars, given, copy>>,
         Reader', w' = w, pc' \notin {"called", "length", "copying"}
  PROVE  DecompressInv'
<1>1. Fits(w)'
  BY DEF Fits, Writer, BuffersOK, PlaceOK, Address
<1>2. CopyOK'
  BY NoCopy
<1> QED BY <1>1, <1>2, LaterStep

\* A step of the reader that may write.
LEMMA KeepsFitting ==
  ASSUME DecompressInv, CopyOK, UNCHANGED <<lengthVars, given, copy>>,
         Reader', Fits(w)', pc' \notin {"called", "length", "copying"}
  PROVE  DecompressInv'
<1>1. CopyOK'
  BY NoCopy
<1> QED BY <1>1, LaterStep

\* The steps of RefillTag and of the literals.
LEMMA ReadingInv ==
  ASSUME DecompressInv, Reading, UNCHANGED <<lengthVars, given, copy, answer>>
  PROVE  DecompressInv'
<1>1. GivenOK /\ Reader /\ CopyOK /\ WriterOK
  BY InvParts
<1>2. Fits(w)
  BY <1>1, WriterFits
<1>3. CASE Fetch
  BY <1>1, <1>2, <1>3, FetchReader, KeepsWriter
<1>4. CASE NoFetch
  BY <1>1, <1>2, <1>4, NoFetchReader, KeepsWriter
<1>5. CASE Stitch
  BY <1>1, <1>2, <1>5, StitchReader, KeepsWriter
<1>6. CASE Keep
  BY <1>1, <1>2, <1>6, KeepReader, KeepsWriter
<1>7. CASE UseBuffer
  BY <1>1, <1>2, <1>7, UseBufferReader, KeepsWriter
<1>8. CASE StitchMore
  BY <1>1, <1>2, <1>8, StitchMoreReader, KeepsWriter
<1>9. CASE StitchFails
  BY <1>1, <1>2, <1>9, StitchFailsReader, KeepsWriter
<1>10. CASE StitchDone
  BY <1>1, <1>2, <1>10, StitchDoneReader, KeepsWriter
<1>11. CASE FastLiteral
  BY <1>1, <1>2, <1>11, FastLiteralKeeps, KeepsFitting
<1>12. CASE SlowLiteral
  BY <1>1, <1>2, <1>12, SlowLiteralReader, KeepsWriter
<1>13. CASE LiteralPart
  BY <1>1, <1>2, <1>13, LiteralPartKeeps, KeepsFitting
<1>14. CASE LiteralEnd
  BY <1>1, <1>2, <1>14, LiteralEndKeeps, KeepsFitting
<1>15. CASE LiteralFails
  BY <1>1, <1>2, <1>15, LiteralFailsKeeps, KeepsFitting
<1> QED
  BY <1>3, <1>4, <1>5, <1>6, <1>7, <1>8, <1>9, <1>10, <1>11, <1>12, <1>13, <1>14, <1>15
  DEF Reading

\* The steps of the decompressor.
LEMMA DecompressStepInv ==
  ASSUME DecompressInv, Decompress, UNCHANGED given
  PROVE  DecompressInv'
<1>1. GivenOK /\ Reader /\ CopyOK /\ WriterOK
  BY InvParts
<1>2. Fits(w)
  BY <1>1, WriterFits
<1>3. UNCHANGED <<lengthVars, answer>>
  BY DEF Decompress
<1>4. CASE Reading /\ UNCHANGED copy
  BY <1>3, <1>4, ReadingInv
<1>5. CASE Copy
  BY <1>1, <1>2, <1>3, <1>5, CopyKeeps, KeepsFitting
<1>6. CASE CopyFails
  BY <1>1, <1>2, <1>3, <1>6, CopyFailsKeeps, KeepsFitting
<1>7. CASE StartCopy
  BY <1>1, <1>2, <1>3, <1>7, StartCopyKeeps, LaterStep
<1>8. CASE StartCopyFails
  BY <1>1, <1>2, <1>3, <1>8, StartCopyFailsKeeps, KeepsFitting
<1>9. CASE CopyAcross
  BY <1>1, <1>2, <1>3, <1>9, CopyAcrossKeeps, LaterStep
<1>10. CASE CopyWithin
  BY <1>1, <1>2, <1>3, <1>10, CopyWithinKeeps, LaterStep
<1>11. CASE CopyOnward
  BY <1>1, <1>2, <1>3, <1>11, CopyOnwardKeeps, LaterStep
<1>12. CASE CopyNoRoom
  BY <1>1, <1>2, <1>3, <1>12, CopyNoRoomKeeps, KeepsFitting
<1>13. CASE CopyEnd
  BY <1>1, <1>2, <1>3, <1>13, CopyEndKeeps, KeepsFitting
<1> QED
  BY <1>4, <1>5, <1>6, <1>7, <1>8, <1>9, <1>10, <1>11, <1>12, <1>13 DEF Decompress

\* Nothing happens.
LEMMA StutterInv ==
  ASSUME DecompressInv, UNCHANGED vars
  PROVE  DecompressInv'
<1>1. /\ UNCHANGED <<lengthVars, given, w, copy, answer, pc>>
      /\ pos' = pos /\ valid' = valid /\ region' = region /\ ip' = ip /\ limit' = limit
      /\ peeked' = peeked /\ scratch' = scratch /\ nbuf' = nbuf /\ literal' = literal
      /\ eof' = eof
  BY DEF vars, source, tag
<1>2. LengthInv /\ GivenOK /\ Reader /\ WriterOK /\ CopyOK
  BY InvParts
<1>3. LengthInv' /\ GivenOK'
  BY <1>1, <1>2, SameLength DEF GivenOK
<1>4. Tag' = Tag /\ Wanted' = Wanted /\ (Buffered' <=> Buffered)
  BY <1>1 DEF Tag, At, Shown, Wanted, Buffered
<1>5. Reader'
  <2>1. ReaderTypeOK'
    BY <1>1, <1>2 DEF Reader, ReaderTypeOK
  <2>2. BufferOK'
    BY <1>1, <1>2, <1>4 DEF Reader, BufferOK, EntryExtra, Entry
  <2>3. StitchOK' /\ SourceOK'
    BY <1>1, <1>2, <1>4 DEF Reader, StitchOK, SourceOK
  <2> QED BY <2>1, <2>2, <2>3 DEF Reader
<1>6. WriterOK'
  <2>1. Fits(w)'
    BY <1>1, <1>2, WriterFits DEF Fits, Writer, BuffersOK, PlaceOK, Address
  <2>2. RoomOK'
    BY <1>1, <1>2 DEF WriterOK, RoomOK, lengthVars, Announced
  <2> QED BY <1>1, <1>2, <2>1, <2>2 DEF WriterOK, Fits
<1>7. CopyOK'
  BY <1>1, <1>2 DEF CopyOK, SpaceLeft
<1> QED BY <1>3, <1>5, <1>6, <1>7, InvPartsNext

\* Every step keeps the invariant.
LEMMA NextDecompressInv ==
  ASSUME DecompressInv, [Next]_vars
  PROVE  DecompressInv'
<1>1. CASE UNCHANGED vars
  BY <1>1, StutterInv
<1>2. CASE Next
  <2>1. UNCHANGED given
    BY <1>2 DEF Next
  <2>2. CASE Refuse
    BY <2>1, <2>2, RefuseInv
  <2>3. CASE Start
    BY <2>1, <2>3, StartInv
  <2>4. CASE ReadLength
    BY <2>1, <2>4, ReadLengthInv
  <2>5. CASE NoLength
    BY <2>1, <2>5, NoLengthInv
  <2>6. CASE SetExpectedLength
    BY <2>1, <2>6, SetExpectedLengthInv
  <2>7. CASE Decompress
    BY <2>1, <2>7, DecompressStepInv
  <2>8. CASE Answer
    BY <2>1, <2>8, AnswerInv
  <2> QED
    BY <1>2, <2>2, <2>3, <2>4, <2>5, <2>6, <2>7, <2>8 DEF Next
<1> QED BY <1>1, <1>2

----------------------------------------------------------------------------
(* What the invariant says *)

\* The inductive invariant of the decompressor holds: whatever calls are made,
\* with whatever bytes, and however the source cuts them, as long as it shows no
\* more than is left (what the run snappy_view shows to be needed).
THEOREM DecompressInvCorrect ==
  ASSUME ExactSources
  PROVE  Spec => []DecompressInv
<1>1. Init => DecompressInv
  BY InitDecompressInv
<1>2. DecompressInv /\ [Next]_vars => DecompressInv'
  BY NextDecompressInv
<1> QED BY <1>1, <1>2, PTL DEF Spec

\* The type invariant.
THEOREM DecompressTypeCorrect ==
  ASSUME ExactSources
  PROVE  Spec => []TypeOK
<1>1. DecompressInv => TypeOK
  BY DEF DecompressInv
<1> QED BY <1>1, DecompressInvCorrect, PTL

\* RefillTag leaves the metadata of a tag in the buffer, and five bytes that
\* can be read, in the scratch buffer or in a region that is still valid.
THEOREM TagIsAlwaysReadable ==
  ASSUME ExactSources
  PROVE  Spec => []TagIsReadable
<1>1. ASSUME DecompressInv, pc = "tag"
      PROVE  /\ ip < limit /\ ip + 1 + EntryExtra(Tag) <= limit
             /\ region = "scratch" => limit <= kMaximumTagLength /\ ip + 5 <= kMaximumTagLength
             /\ region = "source" => valid /\ ip + 5 <= limit
  <2>1. ip \in Nat /\ limit \in Nat /\ ip < limit /\ Buffered
    BY <1>1, AtTag, InvParts
  <2>2. /\ ip + 1 + EntryExtra(Tag) <= limit
        /\ region = "scratch" => ip = 0
        /\ region = "source" => ip + kMaximumTagLength <= limit
    BY <1>1 DEF DecompressInv, BufferOK
  <2> QED BY <2>1, <2>2 DEF Buffered, kMaximumTagLength
<1>2. DecompressInv => TagIsReadable
  BY <1>1 DEF TagIsReadable
<1> QED BY <1>2, DecompressInvCorrect, PTL

\* No store of a writer leaves its buffer, and no writer gets past the length
\* announced.
THEOREM NothingIsOverrun ==
  ASSUME ExactSources
  PROVE  Spec => []NoOverrun
<1>1. ASSUME DecompressInv
      PROVE  NoOverrun
  <2>1. w \in Writer /\ BuffersOK(w) /\ PlaceOK(w)
    BY <1>1 DEF DecompressInv, WriterOK
  <2>2. DOMAIN w.bufs = 1 .. Len(w.lens)
    BY <2>1 DEF Writer, BuffersOK
  <2> QED BY <2>1, <2>2 DEF NoOverrun, BuffersOK, PlaceOK
<1> QED BY <1>1, DecompressInvCorrect, PTL

\* ComputeTable sets the entry of a tag once, and the entry the decompressor
\* uses says what the tag says.
THEOREM TableAlwaysFollowsFormat ==
  ASSUME ExactSources
  PROVE  Spec => []TableFollowsFormat
<1>1. ASSUME DecompressInv, pc = "tag"
      PROVE  Tag \in Byte
  BY <1>1, AtTag, InvParts
<1>2. DecompressInv => TableFollowsFormat
  BY <1>1, TagIsAssignedOnce DEF TableFollowsFormat
<1> QED BY <1>2, DecompressInvCorrect, PTL
=============================================================================

------------------------ MODULE SnappyCompressProofs ------------------------
(***************************************************************************)
(* Proofs about the compressor.  EmitCopy and EmitLiteral write elements   *)
(* that are read back as what they were made from; the reader of module    *)
(* SnappyContents reads literals and copies put one after the other; the   *)
(* bit tricks find the logarithm of a table size and the first byte in     *)
(* which two words differ.  With these, CompressInv is kept by each action *)
(* of SnappyCompress, and the properties of that module follow from it.    *)
(***************************************************************************)
EXTENDS SnappyCompressInv, SnappyLemmas

----------------------------------------------------------------------------
(* EmitCopy and EmitLiteral *)

\* kBlockSize, as a bound.
LEMMA BlockSizeIs == kBlockSize \in Nat /\ kBlockSize <= 65536 /\ 65536 <= kBlockSize
  BY SMT DEF kBlockSize

\* An element of one or two bytes of offset is read back.
LEMMA ShortCopy ==
  ASSUME NEW off \in 1 .. kBlockSize - 1, NEW len \in 4 .. 64
  PROVE  /\ EmitCopyLessThan64(off, len) \in Seq(Byte)
         /\ Len(EmitCopyLessThan64(off, len)) \in 2 .. 3
         /\ IsCopy(EmitCopyLessThan64(off, len), off, len)
  <1> DEFINE e == EmitCopyLessThan64(off, len)
             hi == off \div 256
             lo == off % 256
  <1>0. off \in Nat /\ off < 65536
    BY BlockSizeIs
  <1>1. hi \in 0 .. 255 /\ lo \in 0 .. 255 /\ off = 256 * hi + lo /\ hi % 256 = hi
    BY <1>0, SMT
  <1>2. CASE len < 12 /\ off < 2048
    <2> DEFINE c == 1 + 4 * (len - 4) + 32 * hi
    <2>1. hi \in 0 .. 7
      BY <1>0, <1>2, SMT
    <2> HIDE DEF hi, lo
    <2>2. /\ c \in 0 .. 255 /\ c % 256 = c /\ c % 4 = 1
          /\ (c \div 4) % 8 = len - 4 /\ (c \div 4) \div 8 = hi
      <3>1. c = 1 + 4 * ((len - 4) + 8 * hi) /\ len - 4 \in 0 .. 7
        BY <1>2, <2>1, SMT
      <3>2. PICK x \in 0 .. 7 : x = len - 4
        BY <3>1
      <3>3. PICK y \in 0 .. 7 : y = hi
        BY <2>1
      <3>4. c = 1 + 4 * (x + 8 * y)
        BY <3>1, <3>2, <3>3, SMT
      <3> HIDE DEF c
      <3>5. c \div 4 = x + 8 * y /\ c % 4 = 1 /\ c \in 0 .. 255 /\ c % 256 = c
        BY <3>4, SMT
      <3>6. (x + 8 * y) % 8 = x /\ (x + 8 * y) \div 8 = y
        BY SMT
      <3>. QED BY <3>2, <3>3, <3>5, <3>6
    <2>3. e = << c, lo >>
      BY <1>2, <2>2, SMT DEF EmitCopyLessThan64, hi, lo, COPY_1_BYTE_OFFSET
    <2> HIDE DEF c
    <2>4. /\ Kind(c) = COPY_1_BYTE_OFFSET /\ Extra(c) = 1
          /\ LengthIn(c) = len /\ OffsetIn(c) = hi
      BY <1>2, <2>2, SMT DEF Kind, Upper, Extra, LengthIn, OffsetIn, LITERAL,
         COPY_1_BYTE_OFFSET, COPY_2_BYTE_OFFSET, COPY_4_BYTE_OFFSET
    <2> HIDE DEF lo, hi, e
    <2>5. e[1] = c /\ e[2] = lo /\ Len(e) = 2 /\ e \in Seq(Byte)
      BY <1>1, <2>2, <2>3 DEF Byte
    <2>6. CopyOffset(e) = off
      <3>1. PICK x \in Nat : x = hi
        BY <2>1
      <3>2. PICK y \in Nat : y = lo
        BY <1>1
      <3>3. CopyOffset(e) = 256 * x + y
        BY <2>4, <2>5, <3>1, <3>2 DEF CopyOffset
      <3>. QED BY <1>1, <3>1, <3>2, <3>3
    <2>. QED BY <2>4, <2>5, <2>6 DEF e, IsCopy
  <1>3. CASE ~(len < 12 /\ off < 2048)
    <2> DEFINE c == 2 + 4 * (len - 1)
    <2>1. /\ c \in 0 .. 255 /\ c % 256 = c /\ c % 4 = 2 /\ c \div 4 = len - 1
      BY SMT
    <2>2. e = << c, lo, hi >>
      BY <1>1, <1>3, <2>1, SMT DEF EmitCopyLessThan64, COPY_2_BYTE_OFFSET
    <2> HIDE DEF c, hi, lo
    <2>3. Kind(c) = COPY_2_BYTE_OFFSET /\ Extra(c) = 2 /\ LengthIn(c) = len
      BY <2>1, SMT DEF Kind, Upper, Extra, LengthIn, LITERAL,
         COPY_1_BYTE_OFFSET, COPY_2_BYTE_OFFSET, COPY_4_BYTE_OFFSET
    <2> HIDE DEF e
    <2>4. e[1] = c /\ e[2] = lo /\ e[3] = hi /\ Len(e) = 3 /\ e \in Seq(Byte)
      BY <1>1, <2>1, <2>2 DEF Byte
    <2>5. CopyOffset(e) = off
      <3>1. PICK x \in Nat : x = hi
        BY <1>1
      <3>2. PICK y \in Nat : y = lo
        BY <1>1
      <3>3. CopyOffset(e) = y + 256 * x
        BY <2>3, <2>4, <3>1, <3>2 DEF CopyOffset, COPY_1_BYTE_OFFSET, COPY_2_BYTE_OFFSET
      <3>. QED BY <1>1, <3>1, <3>2, <3>3
    <2>. QED BY <2>3, <2>4, <2>5 DEF e, IsCopy
  <1>. QED BY <1>2, <1>3

\* A byte of length written, or 0, is a number.
LEMMA LengthByteIsNat ==
  ASSUME op \in Seq(Byte), NEW i \in 1 .. 4
  PROVE  LengthByteAt(i) \in Nat
  <1>1. CASE i < Len(op)
    <2>1. op[i + 1] \in Byte
      BY <1>1
    <2>2. LengthByteAt(i) = op[i + 1]
      BY <1>1 DEF LengthByteAt
    <2>3. \A x \in Byte : x \in Nat
      BY DEF Byte
    <2>. QED BY <2>1, <2>2, <2>3, Zenon
  <1>2. CASE ~(i < Len(op))
    BY <1>2 DEF LengthByteAt
  <1>. QED BY <1>1, <1>2

\* A call that starts.
LEMMA EmitInitInv == EmitInit => EmitInv
  <1> SUFFICES ASSUME EmitInit PROVE EmitInv
    OBVIOUS
  <1>1. CASE call = "copy"
    <2>1. total \in 4 .. kBlockSize /\ offset \in 1 .. kBlockSize - 1 /\ left = total
      BY <1>1, EmitAssumption DEF EmitInit
    <2>2. kBlockSize \in Nat
      BY SMT DEF kBlockSize
    <2>3. op = << >> /\ emit = "emitting"
      BY <1>1 DEF EmitInit
    <2>4. EmitTypeOK
      BY <1>1, <2>1, <2>2, <2>3 DEF EmitTypeOK
    <2>5. CopiesShrink
      BY <2>1, <2>2, <2>3 DEF CopiesShrink
    <2>6. RoomInv
      BY <1>1, <2>1, <2>2, <2>3 DEF RoomInv
    <2>. QED BY <1>1, <2>4, <2>5, <2>6 DEF EmitInv, LiteralIsReadBack, LiteralInv
  <1>2. CASE call = "literal"
    <2>1. total \in 1 .. MaxInt /\ left = total - 1
      BY <1>2, EmitAssumption DEF EmitInit
    <2>2. MaxInt \in Nat
      BY SMT DEF MaxInt
    <2>3. op = << >> /\ emit = "emitting"
      BY <1>2 DEF EmitInit
    <2>4. EmitTypeOK
      BY <1>2, <2>1, <2>2, <2>3 DEF EmitTypeOK
    <2>. QED BY <1>2, <2>1, <2>3, <2>4 DEF EmitInv, CopiesShrink, LiteralIsReadBack,
         LiteralInv, RoomInv
  <1>. QED BY <1>1, <1>2 DEF EmitInit

\* One more piece of a match.
LEMMA PieceInv ==
  ASSUME EmitInv, emit' \in {"emitting", "returned"}, NEW len \in 4 .. 64, Piece(len), len <= left,
         emit' = "returned" => len = left, emit' = "emitting" => left - len >= 4
  PROVE  EmitInv'
  <1> DEFINE e == EmitCopyLessThan64(offset, len)
  <1>1. /\ call = "copy" /\ call' = "copy" /\ total' = total /\ offset' = offset
        /\ op' = op \o e /\ left' = left - len
    BY DEF Piece
  <1>2. op \in Seq(Byte) /\ Len(op) \in Nat
    <2>1. op \in Seq(Byte)
      BY DEF EmitInv, EmitTypeOK
    <2>. QED BY <2>1
  <1>3. offset \in 1 .. kBlockSize - 1
    BY <1>1 DEF EmitInv, EmitTypeOK
  <1>4. /\ total \in 4 .. kBlockSize /\ left \in 0 .. kBlockSize /\ Len(op) <= total - left
    BY <1>1 DEF EmitInv, EmitTypeOK, CopiesShrink
  <1>5. kBlockSize \in Nat
    BY SMT DEF kBlockSize
  <1>6. e \in Seq(Byte) /\ Len(e) \in 2 .. 3
    <2>1. /\ EmitCopyLessThan64(offset, len) \in Seq(Byte)
          /\ Len(EmitCopyLessThan64(offset, len)) \in 2 .. 3
      BY <1>3, ShortCopy, Zenon
    <2>. QED BY <2>1 DEF e
  <1> HIDE DEF e
  <1>7. op' \in Seq(Byte) /\ Len(op') = Len(op) + Len(e)
    BY <1>1, <1>2, <1>6
  <1>8. Len(e) \in Nat /\ Len(e) <= len
    <2>1. PICK n \in 2 .. 3 : n = Len(e)
      BY <1>6, Zenon
    <2>. QED BY <2>1
  <1>9. EmitTypeOK'
    <2>1. left' \in 0 .. kBlockSize /\ (emit' = "returned" => left' = 0) /\ (emit' = "emitting" => left' >= 4)
      BY <1>1, <1>4, <1>5
    <2>2. op' \in Seq(Byte)
      BY <1>7
    <2>3. total' \in 4 .. kBlockSize /\ offset' \in 1 .. kBlockSize - 1
      BY <1>1, <1>3, <1>4
    <2>. QED BY <1>1, <2>1, <2>2, <2>3, Zenon DEF EmitTypeOK
  <1>10. CopiesShrink'
    <2>1. PICK m \in Nat : m = Len(op)
      BY <1>2
    <2>2. PICK n \in Nat : n = Len(e) /\ n <= len
      BY <1>8
    <2>3. m + n <= total - (left - len)
      BY <1>4, <1>5, <2>1, <2>2
    <2>4. Len(op') = m + n
      BY <1>7, <2>1, <2>2
    <2>. QED BY <1>1, <2>3, <2>4 DEF CopiesShrink
  <1>11. RoomInv'
    <2>1. PICK m \in Nat : m = Len(op)
      BY <1>2
    <2>2. PICK n \in 2 .. 3 : n = Len(e)
      BY <1>6
    <2>3. 4 * m <= 3 * (total - left)
      BY <1>1, <2>1 DEF EmitInv, RoomInv
    <2>4. 4 * (m + n) <= 3 * (total - (left - len))
      <3>1. total \in Nat /\ left \in Nat
        BY <1>4, <1>5
      <3>2. 4 * n <= 3 * len
        OBVIOUS
      <3>. QED BY <2>3, <3>1, <3>2
    <2>5. Len(op') = m + n
      BY <1>7, <2>1, <2>2
    <2>. QED BY <1>1, <2>4, <2>5 DEF RoomInv
  <1>. QED BY <1>1, <1>9, <1>10, <1>11 DEF EmitInv, LiteralIsReadBack, LiteralInv

\* A short literal.
LEMMA EmitShortInv == EmitInv /\ EmitShort => EmitInv'
  <1> SUFFICES ASSUME EmitInv, EmitShort PROVE EmitInv'
    OBVIOUS
  <1>1. /\ call = "literal" /\ call' = "literal" /\ total' = total /\ left' = left
        /\ left < 60 /\ op' = << 0 + 4 * left >> /\ emit' = "returned" /\ op = << >>
    BY DEF EmitShort, LITERAL
  <1>2. left = total - 1 /\ total \in 1 .. MaxInt /\ MaxInt \in Nat
    <2>1. MaxInt \in Nat
      BY SMT DEF MaxInt
    <2>. QED BY <1>1, <2>1 DEF EmitInv, EmitTypeOK, LiteralInv
  <1>3. PICK x \in 0 .. 59 : x = left
    BY <1>1, <1>2
  <1>4. 4 * x \in 0 .. 255 /\ (4 * x) % 4 = 0 /\ (4 * x) \div 4 = x
    BY SMT
  <1>5. op' = << 4 * x >>
    BY <1>1, <1>3
  <1>6. op'[1] = 4 * x /\ Len(op') = 1 /\ op' \in Seq(Byte)
    <2> DEFINE c == 4 * x
    <2> HIDE DEF c
    <2>1. << c >>[1] = c /\ Len(<< c >>) = 1
      OBVIOUS
    <2>2. c \in Byte
      BY <1>4 DEF Byte, c
    <2>. QED BY <1>5, <2>1, <2>2 DEF c
  <1>7. EmitTypeOK'
    <2>1. left' \in 0 .. total'
      BY <1>1, <1>2
    <2>. QED BY <1>1, <1>2, <1>6, <2>1 DEF EmitTypeOK
  <1>8. LiteralIsReadBack'
    <2>1. Kind(4 * x) = LITERAL /\ Extra(4 * x) = 0 /\ LengthIn(4 * x) = x + 1
      <3> DEFINE c == 4 * x
      <3> HIDE DEF c
      <3>1. c % 4 = 0 /\ c \div 4 = x /\ x < 60
        BY <1>4 DEF c
      <3>2. Kind(c) = LITERAL /\ Extra(c) = 0 /\ LengthIn(c) = x + 1
        BY <3>1 DEF Kind, Upper, Extra, LengthIn, LITERAL,
           COPY_1_BYTE_OFFSET, COPY_2_BYTE_OFFSET, COPY_4_BYTE_OFFSET
      <3>. QED BY <3>2 DEF c
    <2>. QED BY <1>1, <1>2, <1>3, <1>6, <2>1 DEF LiteralIsReadBack, kMaximumTagLength
  <1>9. RoomInv'
    BY <1>1, <1>2, <1>6 DEF RoomInv
  <1>. QED BY <1>1, <1>5, <1>6, <1>7, <1>8, <1>9 DEF EmitInv, CopiesShrink, LiteralInv

\* The tag of a long literal is kept free.
LEMMA ReserveTagInv == EmitInv /\ ReserveTag => EmitInv'
  <1> SUFFICES ASSUME EmitInv, ReserveTag PROVE EmitInv'
    OBVIOUS
  <1>1. /\ call = "literal" /\ call' = "literal" /\ total' = total /\ left' = left
        /\ left >= 60 /\ op' = << 0 >> /\ emit' = "emitting" /\ op = << >>
    BY DEF ReserveTag
  <1>2. left = total - 1 /\ total \in 1 .. MaxInt /\ MaxInt \in Nat
    <2>1. MaxInt \in Nat
      BY SMT DEF MaxInt
    <2>. QED BY <1>1, <2>1 DEF EmitInv, EmitTypeOK, LiteralInv
  <1>3. op' # << >> /\ Len(op') = 1 /\ op' \in Seq(Byte)
    <2>1. 0 \in Byte
      BY DEF Byte
    <2>. QED BY <1>1, <2>1
  <1>4. EmitTypeOK'
    BY <1>1, <1>2, <1>3 DEF EmitTypeOK
  <1>5. PartialLength'
    <2>1. left \in Nat /\ left = total - 1
      BY <1>2
    <2>2. \A i \in 1 .. 4 : LengthByteAt(i)' = 0
      BY <1>3 DEF LengthByteAt
    <2>3. Written' = 0
      BY <2>2, SMT DEF Written
    <2>4. Place(Len(op') - 1) = 1
      BY <1>3, SMT DEF Place
    <2>5. /\ Len(op') \in 1 .. 5 /\ left' >= 60 /\ left' # 0
          /\ total' - 1 = Written' + left' * 1
      BY <1>1, <1>3, <2>1, <2>3
    <2>. QED BY <2>4, <2>5 DEF PartialLength
  <1>6. RoomInv'
    BY <1>1, <1>2, <1>3 DEF RoomInv
  <1>. QED BY <1>1, <1>3, <1>4, <1>5, <1>6 DEF EmitInv, CopiesShrink, LiteralIsReadBack, LiteralInv

\* One more byte of a length takes its place.
LEMMA OneMoreByte ==
  ASSUME NEW k \in 0 .. 3, NEW n \in Nat
  PROVE  n * Place(k) = (n % 256) * Place(k) + (n \div 256) * Place(k + 1)
  <1>1. n = (n % 256) + 256 * (n \div 256) /\ n % 256 \in Nat /\ n \div 256 \in Nat
    BY SMT
  <1>2. PICK r \in Nat, q \in Nat : r = n % 256 /\ q = n \div 256
    BY <1>1
  <1>3. n = r + 256 * q
    BY <1>1, <1>2
  <1>4. CASE k = 0
    BY <1>2, <1>3, <1>4, SMT DEF Place
  <1>5. CASE k = 1
    BY <1>2, <1>3, <1>5, SMT DEF Place
  <1>6. CASE k = 2
    BY <1>2, <1>3, <1>6, SMT DEF Place
  <1>7. CASE k = 3
    BY <1>2, <1>3, <1>7, SMT DEF Place
  <1>. QED BY <1>4, <1>5, <1>6, <1>7

\* One more byte of the length of a literal.
LEMMA EmitLengthByteInv == EmitInv /\ EmitLengthByte => EmitInv'
  <1> SUFFICES ASSUME EmitInv, EmitLengthByte PROVE EmitInv'
    OBVIOUS
  <1>1. /\ call = "literal" /\ call' = "literal" /\ total' = total /\ emit = "emitting"
        /\ emit' = "emitting" /\ op # << >> /\ left > 0
        /\ op' = Append(op, left % 256) /\ left' = left \div 256
    BY DEF EmitLengthByte
  <1>2. op \in Seq(Byte) /\ Len(op) \in Nat
    <2>1. op \in Seq(Byte)
      BY DEF EmitInv, EmitTypeOK
    <2>. QED BY <2>1
  <1>3. total \in 1 .. MaxInt /\ left \in Nat
    <2>1. MaxInt \in Nat
      BY SMT DEF MaxInt
    <2>. QED BY <1>1, <2>1 DEF EmitInv, EmitTypeOK
  <1>4. PartialLength
    BY <1>1 DEF EmitInv, LiteralInv
  <1>5. PICK k \in 0 .. 4 : Len(op) = k + 1
    <2>1. Len(op) \in 1 .. 5
      BY <1>4 DEF PartialLength
    <2>. QED BY <2>1
  <1>6. \A i \in 1 .. 4 : LengthByteAt(i) \in Nat /\ (i > k => LengthByteAt(i) = 0)
    <2> SUFFICES ASSUME NEW i \in 1 .. 4
                 PROVE  LengthByteAt(i) \in Nat /\ (i > k => LengthByteAt(i) = 0)
      OBVIOUS
    <2>1. LengthByteAt(i) \in Nat
      BY <1>2, LengthByteIsNat
    <2>2. i > k => LengthByteAt(i) = 0
      BY <1>5 DEF LengthByteAt
    <2>. QED BY <2>1, <2>2
  <1>7. left % 256 \in 0 .. 255 /\ left \div 256 \in Nat /\ left \div 256 <= left
    BY <1>3, SMT
  <1>8. op' \in Seq(Byte) /\ Len(op') = k + 2 /\ op'[k + 2] = left % 256
        /\ \A i \in 1 .. k + 1 : op'[i] = op[i]
    <2> DEFINE b == left % 256
    <2>1. b \in Byte
      BY <1>7 DEF Byte
    <2> HIDE DEF b
    <2>2. op' = Append(op, b)
      BY <1>1 DEF b
    <2>. QED BY <1>2, <1>5, <2>1, <2>2 DEF b
  <1>9. PICK w1 \in Nat, w2 \in Nat, w3 \in Nat, w4 \in Nat :
          w1 = LengthByteAt(1) /\ w2 = LengthByteAt(2) /\ w3 = LengthByteAt(3) /\ w4 = LengthByteAt(4)
    <2>1. /\ LengthByteAt(1) \in Nat /\ LengthByteAt(2) \in Nat
          /\ LengthByteAt(3) \in Nat /\ LengthByteAt(4) \in Nat
      BY <1>6
    <2>. QED BY <2>1, Zenon
  <1>10. total - 1 = w1 + 256 * w2 + 65536 * w3 + 16777216 * w4 + left * Place(k)
    <2>1. Len(op) - 1 = k
      BY <1>5
    <2>2. total - 1 = Written + left * Place(Len(op) - 1)
      BY <1>1, <1>3, <1>4 DEF PartialLength
    <2>3. Written = w1 + 256 * w2 + 65536 * w3 + 16777216 * w4
      BY <1>9, SMT DEF Written
    <2>4. Place(Len(op) - 1) = Place(k)
      BY <2>1, Zenon
    <2>. QED BY <2>2, <2>3, <2>4, SMT
  <1>11. k # 4
    <2> SUFFICES ASSUME k = 4 PROVE FALSE
      OBVIOUS
    <2>1. Place(k) = 16777216 * 256
      BY SMT DEF Place
    <2>2. MaxInt \in Nat /\ MaxInt < 16777216 * 256
      BY SMT DEF MaxInt
    <2>3. PICK x \in Nat, y \in Nat : x = left /\ y = total /\ x > 0 /\ y <= MaxInt
      BY <1>1, <1>3, <2>2
    <2>4. y - 1 = w1 + 256 * w2 + 65536 * w3 + 16777216 * w4 + x * (16777216 * 256)
      BY <1>10, <2>1, <2>3
    <2>. QED BY <2>2, <2>3, <2>4, SMT
  <1>12. left * Place(k) = (left % 256) * Place(k) + (left \div 256) * Place(k + 1)
    BY <1>3, <1>11, OneMoreByte
  <1>13. \A i \in 1 .. 4 : LengthByteAt(i)' = IF i = k + 1 THEN left % 256 ELSE LengthByteAt(i)
    <2> SUFFICES ASSUME NEW i \in 1 .. 4
                 PROVE  LengthByteAt(i)' = IF i = k + 1 THEN left % 256 ELSE LengthByteAt(i)
      OBVIOUS
    <2>1. CASE i <= k
      BY <1>5, <1>8, <2>1 DEF LengthByteAt
    <2>2. CASE i = k + 1
      BY <1>5, <1>8, <2>2 DEF LengthByteAt
    <2>3. CASE i > k + 1
      BY <1>5, <1>8, <2>3 DEF LengthByteAt
    <2>. QED BY <2>1, <2>2, <2>3
  <1>14. total - 1 = Written' + (left \div 256) * Place(k + 1)
    <2>1. PICK r \in Nat, q \in Nat : r = left % 256 /\ q = left \div 256
      BY <1>7
    <2>2. /\ LengthByteAt(1)' = (IF k = 0 THEN r ELSE w1) /\ LengthByteAt(2)' = (IF k = 1 THEN r ELSE w2)
          /\ LengthByteAt(3)' = (IF k = 2 THEN r ELSE w3) /\ LengthByteAt(4)' = (IF k = 3 THEN r ELSE w4)
      BY <1>9, <1>13, <2>1
    <2>3. /\ (k = 0 => w1 = 0) /\ (k = 1 => w2 = 0) /\ (k = 2 => w3 = 0) /\ (k = 3 => w4 = 0)
      BY <1>6, <1>9
    <2>4. /\ (k = 0 => Place(k) = 1) /\ (k = 1 => Place(k) = 256)
          /\ (k = 2 => Place(k) = 65536) /\ (k = 3 => Place(k) = 16777216)
      BY SMT DEF Place
    <2>5. PICK p \in Nat : p = q * Place(k + 1)
      <3>1. Place(k + 1) \in Nat
        BY <1>11, SMT DEF Place
      <3>. QED BY <3>1, SMT
    <2>6. total - 1 = w1 + 256 * w2 + 65536 * w3 + 16777216 * w4 + (r * Place(k) + p)
      BY <1>10, <1>12, <2>1, <2>5
    <2>7. Written' = LengthByteAt(1)' + 256 * LengthByteAt(2)' + 65536 * LengthByteAt(3)'
                      + 16777216 * LengthByteAt(4)'
      BY DEF Written
    <2>8. CASE k = 0
      BY <2>2, <2>3, <2>4, <2>5, <2>6, <2>7, <2>8, <2>1, SMT
    <2>9. CASE k = 1
      BY <2>2, <2>3, <2>4, <2>5, <2>6, <2>7, <2>9, <2>1, SMT
    <2>10. CASE k = 2
      BY <2>2, <2>3, <2>4, <2>5, <2>6, <2>7, <2>10, <2>1, SMT
    <2>11. CASE k = 3
      BY <2>2, <2>3, <2>4, <2>5, <2>6, <2>7, <2>11, <2>1, SMT
    <2>. QED BY <1>11, <2>8, <2>9, <2>10, <2>11
  <1>15. PartialLength'
    <2>1. Len(op') \in 1 .. 5 /\ Len(op') # 1 /\ Len(op') - 1 = k + 1
      BY <1>8, <1>11
    <2>2. PICK q \in Nat : q = left \div 256
      BY <1>7
    <2>3. PICK p \in Nat : p = Place(k + 1)
      <3>1. Place(k + 1) \in Nat
        BY <1>11, SMT DEF Place
      <3>. QED BY <3>1
    <2>4. q * p = IF q = 0 THEN 0 ELSE q * p
      BY <2>2, <2>3, SMT
    <2>5. total' - 1 = Written' + (IF left' = 0 THEN 0 ELSE left' * Place(Len(op') - 1))
      <3>1. total' = total /\ left' = q /\ Place(Len(op') - 1) = p
        BY <1>1, <2>1, <2>2, <2>3, Zenon
      <3>2. total - 1 = Written' + q * p
        BY <1>14, <2>2, <2>3, Zenon
      <3>. QED BY <2>4, <3>1, <3>2, Zenon
    <2>. QED BY <2>1, <2>5 DEF PartialLength
  <1>16. EmitTypeOK'
    <2>1. left' \in 0 .. total'
      <3>1. left <= total
        BY <1>1 DEF EmitInv, EmitTypeOK
      <3>2. total \in Nat
        <4>1. MaxInt \in Nat
          BY SMT DEF MaxInt
        <4>. QED BY <1>3, <4>1
      <3>. QED BY <1>1, <1>3, <1>7, <3>1, <3>2
    <2>. QED BY <1>1, <1>3, <1>8, <2>1, Zenon DEF EmitTypeOK
  <1>17. op' # << >>
    BY <1>2, <1>8
  <1>18. RoomInv'
    <2>1. total \in Nat
      <3>1. MaxInt \in Nat
        BY SMT DEF MaxInt
      <3>. QED BY <1>3, <3>1
    <2>2. left \in Nat /\ left > 0 /\ (k = 0 => left >= 60)
      BY <1>1, <1>3, <1>4, <1>5 DEF PartialLength
    <2>3. /\ (k = 0 => Place(k) = 1) /\ (k = 1 => Place(k) = 256)
          /\ (k = 2 => Place(k) = 65536) /\ (k = 3 => Place(k) = 16777216)
      BY SMT DEF Place
    <2>4. 60 * (k + 1) <= total
      BY <1>9, <1>10, <1>11, <2>1, <2>2, <2>3, SMT
    <2>5. Len(op') - 1 = k + 1
      BY <1>8
    <2>. QED BY <1>1, <2>4, <2>5 DEF RoomInv
  <1>. QED BY <1>1, <1>15, <1>16, <1>17, <1>18
           DEF EmitInv, CopiesShrink, LiteralIsReadBack, LiteralInv

\* The tag of a long literal.
LEMMA EmitTagInv == EmitInv /\ EmitTag => EmitInv'
  <1> SUFFICES ASSUME EmitInv, EmitTag PROVE EmitInv'
    OBVIOUS
  <1>1. /\ call = "literal" /\ call' = "literal" /\ total' = total /\ left' = left
        /\ emit = "emitting" /\ emit' = "returned" /\ op # << >> /\ left = 0
        /\ op' = [op EXCEPT ![1] = 0 + 4 * (59 + (Len(op) - 1))]
    BY DEF EmitTag, LITERAL
  <1>2. op \in Seq(Byte)
    BY DEF EmitInv, EmitTypeOK
  <1>3. total \in 1 .. MaxInt /\ MaxInt \in Nat
    <2>1. MaxInt \in Nat
      BY SMT DEF MaxInt
    <2>. QED BY <1>1, <2>1 DEF EmitInv, EmitTypeOK
  <1>4. PartialLength
    BY <1>1 DEF EmitInv, LiteralInv
  <1>5. PICK k \in 1 .. 4 : Len(op) = k + 1
    BY <1>1, <1>4 DEF PartialLength
  <1>6. PICK c \in Byte : c = 4 * (59 + k) /\ c % 4 = 0 /\ c \div 4 = 59 + k
    BY DEF Byte
  <1>7. /\ op' \in Seq(Byte) /\ Len(op') = Len(op) /\ op'[1] = c
        /\ \A i \in 2 .. Len(op) : op'[i] = op[i]
    <2>1. op' = [op EXCEPT ![1] = c]
      BY <1>1, <1>5, <1>6
    <2>. QED BY <1>2, <1>5, <2>1
  <1>8. Kind(c) = LITERAL /\ Extra(c) = k /\ LengthIn(c) = 1
    BY <1>6 DEF Kind, Upper, Extra, LengthIn, LITERAL,
       COPY_1_BYTE_OFFSET, COPY_2_BYTE_OFFSET, COPY_4_BYTE_OFFSET
  <1>9. LiteralIsReadBack'
    <2> DEFINE b(i) == IF i < Len(op') THEN op'[i + 1] ELSE 0
    <2>1. \A i \in 1 .. 4 : b(i) = LengthByteAt(i)
      BY <1>5, <1>7 DEF LengthByteAt
    <2>2. total - 1 = Written
      <3>1. Written \in Nat
        <4>1. /\ LengthByteAt(1) \in Nat /\ LengthByteAt(2) \in Nat
              /\ LengthByteAt(3) \in Nat /\ LengthByteAt(4) \in Nat
          BY <1>2, LengthByteIsNat
        <4>. QED BY <4>1, SMT DEF Written
      <3>. QED BY <1>1, <1>4, <3>1 DEF PartialLength
    <2>3. Written = b(1) + 256 * b(2) + 65536 * b(3) + 16777216 * b(4)
      BY <2>1, SMT DEF Written
    <2> HIDE DEF b
    <2>4. 1 + b(1) + 256 * b(2) + 65536 * b(3) + 16777216 * b(4) = total
      <3>1. /\ b(1) \in Nat /\ b(2) \in Nat /\ b(3) \in Nat /\ b(4) \in Nat
        BY <1>2, <2>1, LengthByteIsNat
      <3>. QED BY <1>3, <2>2, <2>3, <3>1, SMT
    <2>. QED BY <1>1, <1>5, <1>7, <1>8, <2>4 DEF LiteralIsReadBack, kMaximumTagLength, b
  <1>10. EmitTypeOK'
    <2>1. left' \in 0 .. total'
      BY <1>1, <1>3
    <2>. QED BY <1>1, <1>3, <1>7, <2>1, Zenon DEF EmitTypeOK
  <1>11. op' # << >>
    BY <1>5, <1>7
  <1>12. RoomInv'
    BY <1>1, <1>7 DEF EmitInv, RoomInv
  <1>. QED BY <1>1, <1>9, <1>10, <1>11, <1>12 DEF EmitInv, CopiesShrink, LiteralInv

\* One step of a call.
LEMMA EmitNextInv == EmitInv /\ [EmitNext]_emitVars => EmitInv'
  <1> SUFFICES ASSUME EmitInv, [EmitNext]_emitVars PROVE EmitInv'
    OBVIOUS
  <1>0. call = "copy" /\ emit = "emitting" => left \in Nat /\ left >= 4
    <2>1. kBlockSize \in Nat
      BY SMT DEF kBlockSize
    <2>. QED BY <2>1 DEF EmitInv, EmitTypeOK
  <1>1. CASE EmitSixtyFour
    <2>1. Piece(64) /\ left - 64 >= 4 /\ emit' = "emitting" /\ 64 <= left
      BY <1>1, <1>0 DEF EmitSixtyFour, Piece
    <2>2. 64 \in 4 .. 64
      OBVIOUS
    <2>. QED BY <2>1, <2>2, PieceInv, Zenon
  <1>2. CASE EmitSixty
    <2>1. Piece(60) /\ left - 60 >= 4 /\ emit' = "emitting" /\ 60 <= left
      BY <1>2, <1>0 DEF EmitSixty, Piece
    <2>2. 60 \in 4 .. 64
      OBVIOUS
    <2>. QED BY <2>1, <2>2, PieceInv, Zenon
  <1>3. CASE EmitRemainder
    <2>1. Piece(left) /\ emit' = "returned" /\ left <= 64
      BY <1>3, Zenon DEF EmitRemainder
    <2>2. left \in Nat /\ left >= 4
      BY <2>1, <1>0, Zenon DEF Piece
    <2>3. left \in 4 .. 64 /\ left <= left
      BY <2>1, <2>2, SMT
    <2>. QED BY <2>1, <2>3, PieceInv, Zenon
  <1>4. CASE EmitShort
    BY <1>4, EmitShortInv
  <1>5. CASE ReserveTag
    BY <1>5, ReserveTagInv
  <1>6. CASE EmitLengthByte
    BY <1>6, EmitLengthByteInv
  <1>7. CASE EmitTag
    BY <1>7, EmitTagInv
  <1>8. CASE UNCHANGED emitVars
    BY <1>8 DEF emitVars, EmitInv, EmitTypeOK, CopiesShrink, LiteralIsReadBack, LiteralInv,
       PartialLength, Written, LengthByteAt, RoomInv
  <1>. QED BY <1>1, <1>2, <1>3, <1>4, <1>5, <1>6, <1>7, <1>8 DEF EmitNext

\* What was written of a call says what was to be said, at every step.
THEOREM EmitInvCorrect == EmitSpec => []EmitInv
  BY EmitInitInv, EmitNextInv, PTL DEF EmitSpec

\* EmitCopy never leaves less than four bytes for its last element.
THEOREM SpecTypeOK == EmitSpec => []EmitTypeOK
  <1>1. EmitInv => EmitTypeOK
    BY DEF EmitInv
  <1>. QED BY <1>1, EmitInvCorrect, PTL

\* Copies take no more room than the bytes they stand for.
THEOREM SpecCopiesShrink == EmitSpec => []CopiesShrink
  <1>1. EmitInv => CopiesShrink
    BY DEF EmitInv
  <1>. QED BY <1>1, EmitInvCorrect, PTL

\* The length of every literal is read back from its tag.
THEOREM SpecLiteralIsReadBack == EmitSpec => []LiteralIsReadBack
  <1>1. EmitInv => LiteralIsReadBack
    BY DEF EmitInv
  <1>. QED BY <1>1, EmitInvCorrect, PTL

\* One piece of a match is one well-formed element.
LEMMA PieceIsCopy ==
  ASSUME EmitInv, NEW len \in 4 .. 64, Piece(len), left \in Nat
  PROVE  LET e == EmitCopyLessThan64(offset, left - left')
         IN  op' = op \o e /\ IsCopy(e, offset, left - left')
  <1>1. left - left' = len /\ op' = op \o EmitCopyLessThan64(offset, len)
    BY DEF Piece
  <1>2. offset \in 1 .. kBlockSize - 1
    BY DEF Piece, EmitInv, EmitTypeOK
  <1>3. IsCopy(EmitCopyLessThan64(offset, len), offset, len)
    BY <1>2, ShortCopy, Zenon
  <1>. QED BY <1>1, <1>3, Zenon

\* Every element EmitCopy writes is read back as the piece it stands for.
THEOREM SpecPiecesAreReadBack == EmitSpec => PiecesAreReadBack
  <1> DEFINE Reads == call = "copy" /\ emit = "emitting" =>
               LET e == EmitCopyLessThan64(offset, left - left')
               IN  op' = op \o e /\ IsCopy(e, offset, left - left')
  <1>1. EmitInv /\ [EmitNext]_emitVars => [Reads]_emitVars
    <2> SUFFICES ASSUME EmitInv, [EmitNext]_emitVars, call = "copy", emit = "emitting",
                        emitVars' # emitVars
                 PROVE  LET e == EmitCopyLessThan64(offset, left - left')
                        IN  op' = op \o e /\ IsCopy(e, offset, left - left')
      OBVIOUS
    <2>0. left \in Nat
      <3>1. kBlockSize \in Nat
        BY SMT DEF kBlockSize
      <3>. QED BY <3>1 DEF EmitInv, EmitTypeOK
    <2>1. PICK len \in 4 .. 64 : Piece(len)
      <3>1. CASE EmitSixtyFour
        BY <3>1 DEF EmitSixtyFour
      <3>2. CASE EmitSixty
        BY <3>2 DEF EmitSixty
      <3>3. CASE EmitRemainder
        <4>1. left >= 4
          BY <3>3 DEF EmitRemainder, Piece, EmitInv, EmitTypeOK
        <4>. QED BY <2>0, <3>3, <4>1 DEF EmitRemainder
      <3>. QED BY <3>1, <3>2, <3>3
           DEF EmitNext, EmitShort, ReserveTag, EmitLengthByte, EmitTag
    <2>. QED BY <2>0, <2>1, PieceIsCopy
  <1>. QED BY <1>1, EmitInvCorrect, PTL DEF EmitSpec, PiecesAreReadBack

----------------------------------------------------------------------------
(* Sizes of the table and the bits of a word *)

\* The least of a set of numbers.
LEMMA MinIs ==
  ASSUME NEW S \in SUBSET Nat, S # {}
  PROVE  Min(S) \in S /\ \A m \in S : Min(S) <= m
  BY LeastNumber, Zenon DEF Min

\* Two to the j, for the places j of a bit of a table's size.
LEMMA PowerOf ==
  ASSUME NEW j \in 0 .. 16, NEW p, p = 2 ^ j
  PROVE  /\ p \in 1 .. kBlockSize
         /\ \A b \in 0 .. 16 : (p \div 2 ^ b) % 2 = 1 <=> b = j
  <1> DEFINE One(b) == (p \div 2 ^ b) % 2 = 1 <=> b = j
  <1>3. /\ (j = 0 => p = 1)
        /\ (j = 1 => p = 2)
        /\ (j = 2 => p = 4)
        /\ (j = 3 => p = 8)
        /\ (j = 4 => p = 16)
        /\ (j = 5 => p = 32)
        /\ (j = 6 => p = 64)
        /\ (j = 7 => p = 128)
        /\ (j = 8 => p = 256)
        /\ (j = 9 => p = 512)
        /\ (j = 10 => p = 1024)
        /\ (j = 11 => p = 2048)
        /\ (j = 12 => p = 4096)
        /\ (j = 13 => p = 8192)
        /\ (j = 14 => p = 16384)
        /\ (j = 15 => p = 32768)
        /\ (j = 16 => p = 65536)
    <2>0. j = 0 => p = 1
      BY SMT
    <2>1. j = 1 => p = 2
      BY SMT
    <2>2. j = 2 => p = 4
      BY SMT
    <2>3. j = 3 => p = 8
      BY SMT
    <2>4. j = 4 => p = 16
      BY SMT
    <2>5. j = 5 => p = 32
      BY SMT
    <2>6. j = 6 => p = 64
      BY SMT
    <2>7. j = 7 => p = 128
      BY SMT
    <2>8. j = 8 => p = 256
      BY SMT
    <2>9. j = 9 => p = 512
      BY SMT
    <2>10. j = 10 => p = 1024
      BY SMT
    <2>11. j = 11 => p = 2048
      BY SMT
    <2>12. j = 12 => p = 4096
      BY SMT
    <2>13. j = 13 => p = 8192
      BY SMT
    <2>14. j = 14 => p = 16384
      BY SMT
    <2>15. j = 15 => p = 32768
      BY SMT
    <2>16. j = 16 => p = 65536
      BY SMT
    <2> HIDE DEF One
    <2>. QED BY <2>0, <2>1, <2>2, <2>3, <2>4, <2>5, <2>6, <2>7, <2>8,
             <2>9, <2>10, <2>11, <2>12, <2>13, <2>14, <2>15, <2>16, SMT
  <1>4. p \in 1 .. kBlockSize
    <2>1. p \in Nat /\ 1 <= p /\ p <= 65536
      BY <1>3, SMT
    <2>2. PICK m \in Nat : m = kBlockSize /\ p <= m
      BY <2>1, SMT DEF kBlockSize
    <2>3. p \in 1 .. m
      BY <2>1, <2>2, SMT
    <2>. QED BY <2>2, <2>3, Zenon
  <1>5. ASSUME NEW b \in 0 .. 16 PROVE One(b)
    <2>0. CASE b = 0
      <3>1. (p \div 1) % 2 = 1 <=> j = 0
        BY <1>3, SMT
      <3>. QED BY <2>0, <3>1, SMT
    <2>1. CASE b = 1
      <3>1. (p \div 2) % 2 = 1 <=> j = 1
        BY <1>3, SMT
      <3>. QED BY <2>1, <3>1, SMT
    <2>2. CASE b = 2
      <3>1. (p \div 4) % 2 = 1 <=> j = 2
        BY <1>3, SMT
      <3>. QED BY <2>2, <3>1, SMT
    <2>3. CASE b = 3
      <3>1. (p \div 8) % 2 = 1 <=> j = 3
        BY <1>3, SMT
      <3>. QED BY <2>3, <3>1, SMT
    <2>4. CASE b = 4
      <3>1. (p \div 16) % 2 = 1 <=> j = 4
        BY <1>3, SMT
      <3>. QED BY <2>4, <3>1, SMT
    <2>5. CASE b = 5
      <3>1. (p \div 32) % 2 = 1 <=> j = 5
        BY <1>3, SMT
      <3>. QED BY <2>5, <3>1, SMT
    <2>6. CASE b = 6
      <3>1. (p \div 64) % 2 = 1 <=> j = 6
        BY <1>3, SMT
      <3>. QED BY <2>6, <3>1, SMT
    <2>7. CASE b = 7
      <3>1. (p \div 128) % 2 = 1 <=> j = 7
        BY <1>3, SMT
      <3>. QED BY <2>7, <3>1, SMT
    <2>8. CASE b = 8
      <3>1. (p \div 256) % 2 = 1 <=> j = 8
        BY <1>3, SMT
      <3>. QED BY <2>8, <3>1, SMT
    <2>9. CASE b = 9
      <3>1. (p \div 512) % 2 = 1 <=> j = 9
        BY <1>3, SMT
      <3>. QED BY <2>9, <3>1, SMT
    <2>10. CASE b = 10
      <3>1. (p \div 1024) % 2 = 1 <=> j = 10
        BY <1>3, SMT
      <3>. QED BY <2>10, <3>1, SMT
    <2>11. CASE b = 11
      <3>1. (p \div 2048) % 2 = 1 <=> j = 11
        BY <1>3, SMT
      <3>. QED BY <2>11, <3>1, SMT
    <2>12. CASE b = 12
      <3>1. (p \div 4096) % 2 = 1 <=> j = 12
        BY <1>3, SMT
      <3>. QED BY <2>12, <3>1, SMT
    <2>13. CASE b = 13
      <3>1. (p \div 8192) % 2 = 1 <=> j = 13
        BY <1>3, SMT
      <3>. QED BY <2>13, <3>1, SMT
    <2>14. CASE b = 14
      <3>1. (p \div 16384) % 2 = 1 <=> j = 14
        BY <1>3, SMT
      <3>. QED BY <2>14, <3>1, SMT
    <2>15. CASE b = 15
      <3>1. (p \div 32768) % 2 = 1 <=> j = 15
        BY <1>3, SMT
      <3>. QED BY <2>15, <3>1, SMT
    <2>16. CASE b = 16
      <3>1. (p \div 65536) % 2 = 1 <=> j = 16
        BY <1>3, SMT
      <3>. QED BY <2>16, <3>1, SMT
    <2>17. \/ b = 0 \/ b = 1 \/ b = 2 \/ b = 3 \/ b = 4 \/ b = 5 \/ b = 6 \/ b = 7 \/ b = 8
           \/ b = 9 \/ b = 10 \/ b = 11 \/ b = 12 \/ b = 13 \/ b = 14 \/ b = 15 \/ b = 16
      BY SMT
    <2>. QED BY <2>0, <2>1, <2>2, <2>3, <2>4, <2>5, <2>6, <2>7, <2>8,
             <2>9, <2>10, <2>11, <2>12, <2>13, <2>14, <2>15, <2>16, <2>17, SMT
  <1>. QED BY <1>4, <1>5, Zenon

\* The size of a table has one bit.
LEMMA BitsOfPower ==
  ASSUME NEW j \in 0 .. 16
  PROVE  BitsOf(2 ^ j) = {j}
  <1>1. \A b \in 0 .. 16 : (2 ^ j \div 2 ^ b) % 2 = 1 <=> b = j
    BY PowerOf, Zenon
  <1>2. BitsOf(2 ^ j) = {b \in 0 .. 16 : (2 ^ j \div 2 ^ b) % 2 = 1}
    BY DEF BitsOf, kBlockBits
  <1>. QED BY <1>1, <1>2, Zenon

\* A round of Log2Floor on a word with one bit.
OneBit(v, r) == [value |-> {v}, log |-> r]

\* One round of Log2Floor leaves one bit, in a lower place.
LEMMA RightRoundIs ==
  ASSUME NEW s \in Nat, NEW v \in 0 .. 31, NEW r \in Nat, s > 0, v < 2 * s
  PROVE  \E w \in 0 .. 31, q \in Nat :
           RightRound(OneBit(v, r), s) = OneBit(w, q) /\ w < s /\ w + q = v + r
  <1> DEFINE a == OneBit(v, r)
  <1>1. a.value = {v} /\ a.log = r
    BY DEF OneBit
  <1>2. CASE v >= s
    <2>1. ShiftRight({v}, s) = {v - s}
      BY <1>2, SMT DEF ShiftRight
    <2>2. RightRound(a, s) = OneBit(v - s, r + s)
      BY <1>1, <2>1 DEF RightRound, OneBit
    <2>3. v - s \in 0 .. 31 /\ r + s \in Nat /\ v - s < s /\ (v - s) + (r + s) = v + r
      BY <1>2, SMT
    <2>. QED BY <2>2, <2>3
  <1>3. CASE v < s
    <2>1. ShiftRight({v}, s) = {}
      BY <1>3, SMT DEF ShiftRight
    <2>2. RightRound(a, s) = a
      BY <1>1, <2>1 DEF RightRound
    <2>. QED BY <1>3, <2>2
  <1>4. v >= s \/ v < s
    BY SMT
  <1>. QED BY <1>2, <1>3, <1>4, Zenon

\* The logarithm of a word with one bit is its place.
LEMMA LogOfBit ==
  ASSUME NEW j \in 0 .. 31
  PROVE  Log2Floor({j}) = j
  <1>1. PICK v1 \in 0 .. 31, r1 \in Nat :
          RightRound(OneBit(j, 0), 16) = OneBit(v1, r1) /\ v1 < 16 /\ v1 + r1 = j + 0
    <2>1. 16 \in Nat /\ 0 \in Nat /\ 16 > 0 /\ j < 2 * 16
      BY SMT
    <2>. QED BY <2>1, RightRoundIs, ZenonT(30)
  <1>2. PICK v2 \in 0 .. 31, r2 \in Nat :
          RightRound(OneBit(v1, r1), 8) = OneBit(v2, r2) /\ v2 < 8 /\ v2 + r2 = v1 + r1
    <2>1. 8 \in Nat /\ r1 \in Nat /\ 8 > 0 /\ v1 < 2 * 8
      BY <1>1, SMT
    <2>. QED BY <2>1, RightRoundIs, ZenonT(30)
  <1>3. PICK v3 \in 0 .. 31, r3 \in Nat :
          RightRound(OneBit(v2, r2), 4) = OneBit(v3, r3) /\ v3 < 4 /\ v3 + r3 = v2 + r2
    <2>1. 4 \in Nat /\ r2 \in Nat /\ 4 > 0 /\ v2 < 2 * 4
      BY <1>2, SMT
    <2>. QED BY <2>1, RightRoundIs, ZenonT(30)
  <1>4. PICK v4 \in 0 .. 31, r4 \in Nat :
          RightRound(OneBit(v3, r3), 2) = OneBit(v4, r4) /\ v4 < 2 /\ v4 + r4 = v3 + r3
    <2>1. 2 \in Nat /\ r3 \in Nat /\ 2 > 0 /\ v3 < 2 * 2
      BY <1>3, SMT
    <2>. QED BY <2>1, RightRoundIs, ZenonT(30)
  <1>5. PICK v5 \in 0 .. 31, r5 \in Nat :
          RightRound(OneBit(v4, r4), 1) = OneBit(v5, r5) /\ v5 < 1 /\ v5 + r5 = v4 + r4
    <2>1. 1 \in Nat /\ r4 \in Nat /\ 1 > 0 /\ v4 < 2 * 1
      BY <1>4, SMT
    <2>. QED BY <2>1, RightRoundIs, ZenonT(30)
  <1>6. r5 = j
    BY <1>1, <1>2, <1>3, <1>4, <1>5, SMT
  <1>7. OneBit(v5, r5).log = r5 /\ {j} # {}
    BY DEF OneBit
  <1>8. OneBit(j, 0) = [value |-> {j}, log |-> 0]
    BY DEF OneBit
  <1>. QED BY <1>1, <1>2, <1>3, <1>4, <1>5, <1>6, <1>7, <1>8 DEF Log2Floor

\* Is m the least place of a bit of a word?
Lowest(x, m) == m \in x /\ \A b \in x : m <= b

\* A round of FindLSBSetNonZero: the shifts so far and the least place make up t.
LowestAt(a, m, t) ==
  a.value \subseteq 0 .. 31 /\ Lowest(a.value, m) /\ a.rc \in Int /\ a.rc + m = t

\* One round of FindLSBSetNonZero moves the least bit up.
LEMMA LeftRoundIs ==
  ASSUME NEW a, NEW m \in 0 .. 31, NEW t, NEW s \in 1 .. 16, LowestAt(a, m, t), m >= 32 - 2 * s
  PROVE  \E w \in 0 .. 31 : LowestAt(LeftRound(a, s), w, t) /\ w >= 32 - s
  <1> DEFINE x == ShiftLeft(a.value, s)
  <1>1. x \subseteq 0 .. 31 /\ \A c \in x : \E b \in a.value : c = b + s
    BY DEF ShiftLeft
  <1>2. \A b \in a.value : b \in 0 .. 31 /\ m <= b
    BY DEF LowestAt, Lowest
  <1>3. CASE m + s <= 31
    <2>1. m + s \in x
      BY <1>3 DEF ShiftLeft, LowestAt, Lowest
    <2>2. \A c \in x : m + s <= c
      BY <1>1, <1>2
    <2>3. LeftRound(a, s) = [value |-> x, rc |-> a.rc - s]
      BY <2>1 DEF LeftRound
    <2>4. a.rc - s \in Int /\ (a.rc - s) + (m + s) = t /\ m + s \in 0 .. 31 /\ m + s >= 32 - s
      BY <1>3 DEF LowestAt
    <2> HIDE DEF x
    <2>5. LeftRound(a, s).value = x /\ LeftRound(a, s).rc = a.rc - s
      BY <2>3
    <2>6. LowestAt(LeftRound(a, s), m + s, t)
      BY <1>1, <2>1, <2>2, <2>4, <2>5, Zenon DEF LowestAt, Lowest
    <2>. QED BY <2>4, <2>6
  <1>4. CASE m + s > 31
    <2>1. x = {}
      <3> SUFFICES ASSUME NEW c \in x PROVE FALSE
        OBVIOUS
      <3>1. PICK b \in a.value : c = b + s
        BY <1>1
      <3>2. c \in 0 .. 31 /\ b \in 0 .. 31 /\ m <= b
        BY <1>1, <1>2
      <3> HIDE DEF x
      <3>. QED BY <1>4, <3>1, <3>2
    <2>2. LeftRound(a, s) = a
      BY <2>1 DEF LeftRound
    <2>3. m >= 32 - s
      BY <1>4
    <2>. QED BY <2>2, <2>3
  <1>. QED BY <1>3, <1>4

\* FindLSBSetNonZero finds the least place of a bit.
LEMMA LowestBit ==
  ASSUME NEW n \in SUBSET (0 .. 31), NEW m, Lowest(n, m)
  PROVE  FindLSBSetNonZero(n) = m
  <1> DEFINE a0 == [value |-> n, rc |-> 31]
             t  == 31 + m
             a1 == LeftRound(a0, 16)
             a2 == LeftRound(a1, 8)
             a3 == LeftRound(a2, 4)
             a4 == LeftRound(a3, 2)
             a5 == LeftRound(a4, 1)
  <1>0. m \in 0 .. 31 /\ LowestAt(a0, m, t)
    BY DEF LowestAt, Lowest
  <1> HIDE DEF t, a0
  <1>1. PICK w1 \in 0 .. 31 : LowestAt(a1, w1, t) /\ w1 >= 32 - 16
    <2>1. 16 \in 1 .. 16 /\ m >= 32 - 2 * 16
      BY <1>0, SMT
    <2>. QED BY <1>0, <2>1, LeftRoundIs, Zenon
  <1> HIDE DEF a1
  <1>2. PICK w2 \in 0 .. 31 : LowestAt(a2, w2, t) /\ w2 >= 32 - 8
    <2>1. 8 \in 1 .. 16 /\ w1 >= 32 - 2 * 8
      BY <1>1, SMT
    <2>. QED BY <1>1, <2>1, LeftRoundIs, Zenon
  <1> HIDE DEF a2
  <1>3. PICK w3 \in 0 .. 31 : LowestAt(a3, w3, t) /\ w3 >= 32 - 4
    <2>1. 4 \in 1 .. 16 /\ w2 >= 32 - 2 * 4
      BY <1>2, SMT
    <2>. QED BY <1>2, <2>1, LeftRoundIs, Zenon
  <1> HIDE DEF a3
  <1>4. PICK w4 \in 0 .. 31 : LowestAt(a4, w4, t) /\ w4 >= 32 - 2
    <2>1. 2 \in 1 .. 16 /\ w3 >= 32 - 2 * 2
      BY <1>3, SMT
    <2>. QED BY <1>3, <2>1, LeftRoundIs, Zenon
  <1> HIDE DEF a4
  <1>5. PICK w5 \in 0 .. 31 : LowestAt(a5, w5, t) /\ w5 >= 32 - 1
    <2>1. 1 \in 1 .. 16 /\ w4 >= 32 - 2 * 1
      BY <1>4, SMT
    <2>. QED BY <1>4, <2>1, LeftRoundIs, Zenon
  <1> HIDE DEF a5
  <1>6. a5.rc = m
    <2>1. a5.rc \in Int /\ a5.rc + w5 = 31 + m
      BY <1>5 DEF LowestAt, t
    <2>2. w5 = 31
      BY <1>5, SMT
    <2>. QED BY <1>0, <2>1, <2>2
  <1>7. FindLSBSetNonZero(n) = a5.rc
    BY Zenon DEF FindLSBSetNonZero, a0, a1, a2, a3, a4, a5
  <1>. QED BY <1>6, <1>7

\* So does FindLSBSetNonZero64, in a word of twice the bits.
LEMMA LowestBit64 ==
  ASSUME NEW n \in SUBSET (0 .. 63), NEW m, Lowest(n, m)
  PROVE  FindLSBSetNonZero64(n) = m
  <1>1. m \in 0 .. 63 /\ m \in n /\ \A b \in n : b \in 0 .. 63 /\ m <= b
    BY DEF Lowest
  <1>2. CASE m <= 31
    <2> DEFINE low == n \cap 0 .. 31
    <2>1. low \in SUBSET (0 .. 31) /\ low # {} /\ Lowest(low, m)
      BY <1>1, <1>2 DEF Lowest
    <2> HIDE DEF low
    <2>2. FindLSBSetNonZero(low) = m
      BY <2>1, LowestBit
    <2>. QED BY <2>1, <2>2 DEF FindLSBSetNonZero64, low
  <1>3. CASE m > 31
    <2> DEFINE top == {b - 32 : b \in n}
    <2>1. n \cap 0 .. 31 = {}
      BY <1>1, <1>3
    <2>2. \A b \in n : b - 32 \in 0 .. 31 /\ m - 32 <= b - 32
      BY <1>1, <1>3
    <2>3. top \in SUBSET (0 .. 31) /\ Lowest(top, m - 32)
      BY <1>1, <2>2 DEF Lowest
    <2> HIDE DEF top
    <2>4. FindLSBSetNonZero(top) = m - 32
      BY <2>3, LowestBit
    <2>5. FindLSBSetNonZero64(n) = 32 + FindLSBSetNonZero(top)
      BY <2>1 DEF FindLSBSetNonZero64, top
    <2>. QED BY <1>1, <2>4, <2>5
  <1>. QED BY <1>1, <1>2, <1>3

\* A byte is determined by its bits.
LEMMA SameByte ==
  ASSUME NEW a \in Byte, NEW c \in Byte,
         \A i \in 0 .. 7 : (a \div 2 ^ i) % 2 = (c \div 2 ^ i) % 2
  PROVE  a = c
  <1>1. a \in 0 .. 255 /\ c \in 0 .. 255
    BY DEF Byte
  <1>2. (a \div 1) % 2 = (c \div 1) % 2
    <2>1. 2 ^ 0 = 1 /\ 0 \in 0 .. 7
      BY SMT
    <2>. QED BY <2>1
  <1>3. (a \div 2) % 2 = (c \div 2) % 2
    <2>1. 2 ^ 1 = 2 /\ 1 \in 0 .. 7
      BY SMT
    <2>. QED BY <2>1
  <1>4. (a \div 4) % 2 = (c \div 4) % 2
    <2>1. 2 ^ 2 = 4 /\ 2 \in 0 .. 7
      BY SMT
    <2>. QED BY <2>1
  <1>5. (a \div 8) % 2 = (c \div 8) % 2
    <2>1. 2 ^ 3 = 8 /\ 3 \in 0 .. 7
      BY SMT
    <2>. QED BY <2>1
  <1>6. (a \div 16) % 2 = (c \div 16) % 2
    <2>1. 2 ^ 4 = 16 /\ 4 \in 0 .. 7
      BY SMT
    <2>. QED BY <2>1
  <1>7. (a \div 32) % 2 = (c \div 32) % 2
    <2>1. 2 ^ 5 = 32 /\ 5 \in 0 .. 7
      BY SMT
    <2>. QED BY <2>1
  <1>8. (a \div 64) % 2 = (c \div 64) % 2
    <2>1. 2 ^ 6 = 64 /\ 6 \in 0 .. 7
      BY SMT
    <2>. QED BY <2>1
  <1>9. (a \div 128) % 2 = (c \div 128) % 2
    <2>1. 2 ^ 7 = 128 /\ 7 \in 0 .. 7
      BY SMT
    <2>. QED BY <2>1
  <1>10. a \div 128 = c \div 128
    BY <1>1, <1>9, SMT
  <1>11. a \div 64 = c \div 64
    <2>1. /\ a \div 64 = 2 * (a \div 128) + ((a \div 64) % 2)
          /\ c \div 64 = 2 * (c \div 128) + ((c \div 64) % 2)
      BY <1>1, SMT
    <2>. QED BY <1>8, <1>10, <2>1, SMT
  <1>12. a \div 32 = c \div 32
    <2>1. /\ a \div 32 = 2 * (a \div 64) + ((a \div 32) % 2)
          /\ c \div 32 = 2 * (c \div 64) + ((c \div 32) % 2)
      BY <1>1, SMT
    <2>. QED BY <1>7, <1>11, <2>1, SMT
  <1>13. a \div 16 = c \div 16
    <2>1. /\ a \div 16 = 2 * (a \div 32) + ((a \div 16) % 2)
          /\ c \div 16 = 2 * (c \div 32) + ((c \div 16) % 2)
      BY <1>1, SMT
    <2>. QED BY <1>6, <1>12, <2>1, SMT
  <1>14. a \div 8 = c \div 8
    <2>1. /\ a \div 8 = 2 * (a \div 16) + ((a \div 8) % 2)
          /\ c \div 8 = 2 * (c \div 16) + ((c \div 8) % 2)
      BY <1>1, SMT
    <2>. QED BY <1>5, <1>13, <2>1, SMT
  <1>15. a \div 4 = c \div 4
    <2>1. /\ a \div 4 = 2 * (a \div 8) + ((a \div 4) % 2)
          /\ c \div 4 = 2 * (c \div 8) + ((c \div 4) % 2)
      BY <1>1, SMT
    <2>. QED BY <1>4, <1>14, <2>1, SMT
  <1>16. a \div 2 = c \div 2
    <2>1. /\ a \div 2 = 2 * (a \div 4) + ((a \div 2) % 2)
          /\ c \div 2 = 2 * (c \div 4) + ((c \div 2) % 2)
      BY <1>1, SMT
    <2>. QED BY <1>3, <1>15, <2>1, SMT
  <1>17. a \div 1 = c \div 1
    <2>1. /\ a \div 1 = 2 * (a \div 2) + ((a \div 1) % 2)
          /\ c \div 1 = 2 * (c \div 2) + ((c \div 1) % 2)
      BY <1>1, SMT
    <2>. QED BY <1>2, <1>16, <2>1, SMT
  <1>. QED BY <1>1, <1>17, SMT

----------------------------------------------------------------------------
(* Reading elements back *)

\* A good element is read the same when there is more behind it.
LEMMA ReadElementBefore ==
  ASSUME NEW s \in Seq(Byte), NEW e \in Seq(Byte), NEW r, r.at \in Nat, r.at < Len(s),
         ReadElement(s, r).at # Len(s) + 1
  PROVE  ReadElement(s \o e, r) = ReadElement(s, r)
  <1> DEFINE t == s \o e
  <1>1. /\ t \in Seq(Byte) /\ Len(t) = Len(s) + Len(e) /\ Len(s) \in Nat /\ Len(e) \in Nat
        /\ \A i \in 1 .. Len(s) : t[i] = s[i]
    <2>1. Len(s) \in Nat /\ Len(e) \in Nat
      OBVIOUS
    <2>. QED BY <2>1, ConcatProperties
  <1>2. ~(r.at >= Len(s)) /\ ~(r.at >= Len(t))
    BY <1>1
  <1> HIDE DEF t
  <1>3. Good(s, r)
    <2>1. Stuck(s).at = Len(s) + 1
      BY DEF Stuck
    <2>. QED BY <1>2, <2>1, Zenon DEF ReadElement
  <1>4. /\ After(s, r) \in Nat /\ r.at + 1 <= After(s, r) /\ After(s, r) <= Len(s)
        /\ LengthAt(s, r) \in Nat
    BY <1>3, PartsAreNumbers DEF Good
  <1>5. TagAt(t, r) = TagAt(s, r)
    <2>1. r.at + 1 \in 1 .. Len(s)
      OBVIOUS
    <2>. QED BY <1>1, <2>1 DEF TagAt
  <1>6. After(t, r) = After(s, r)
    BY <1>5, Zenon DEF After
  <1>7. ASSUME NEW m \in 1 .. Len(s) + 1, NEW n \in 0 .. Len(s)
        PROVE  SubSeq(t, m, n) = SubSeq(s, m, n)
    <2>1. CASE n < m
      BY <2>1, SubSeqEmpty
    <2>2. CASE ~(n < m)
      <3>1. m \in 1 .. Len(s) /\ n \in 1 .. Len(s)
        BY <2>2
      <3>. QED BY <3>1, SubSeqOfConcat1 DEF t
    <2>. QED BY <2>1, <2>2
  <1>8. Trailer(t, r) = Trailer(s, r)
    <2>1. r.at + 2 \in 1 .. Len(s) + 1 /\ After(s, r) \in 0 .. Len(s)
      BY <1>4
    <2>. QED BY <1>6, <1>7, <2>1, Zenon DEF Trailer
  <1>9. /\ IsLiteral(t, r) <=> IsLiteral(s, r)
        /\ LengthAt(t, r) = LengthAt(s, r) /\ OffsetAt(t, r) = OffsetAt(s, r)
    BY <1>5, <1>8, Zenon DEF IsLiteral, LengthAt, OffsetAt
  <1>10. Good(t, r)
    <2>1. After(t, r) <= Len(t)
      BY <1>1, <1>4, <1>6
    <2>2. ASSUME IsLiteral(s, r) PROVE After(t, r) + LengthAt(t, r) <= Len(t)
      <3>1. After(s, r) + LengthAt(s, r) <= Len(s)
        BY <1>3, <2>2, Zenon DEF Good
      <3>. QED BY <1>1, <1>4, <1>6, <1>9, <3>1
    <2>3. ASSUME ~IsLiteral(s, r) PROVE Reaches(r.out, OffsetAt(t, r))
      BY <1>3, <1>9, <2>3, Zenon DEF Good
    <2>. QED BY <1>9, <2>1, <2>2, <2>3, Zenon DEF Good
  <1>11. ReadNext(t, r) = ReadNext(s, r)
    <2>1. CASE IsLiteral(s, r)
      <3>1. After(s, r) + LengthAt(s, r) <= Len(s)
        BY <1>3, <2>1, Zenon DEF Good
      <3>2. /\ After(s, r) + 1 \in 1 .. Len(s) + 1
            /\ After(s, r) + LengthAt(s, r) \in 0 .. Len(s)
        BY <1>1, <1>4, <3>1
      <3>3. SubSeq(t, After(s, r) + 1, After(s, r) + LengthAt(s, r))
              = SubSeq(s, After(s, r) + 1, After(s, r) + LengthAt(s, r))
        BY <1>7, <3>2, Zenon
      <3>. QED BY <1>6, <1>9, <2>1, <3>3, Zenon DEF ReadNext
    <2>2. CASE ~IsLiteral(s, r)
      BY <1>6, <1>9, <2>2, Zenon DEF ReadNext
    <2>. QED BY <2>1, <2>2
  <1>12. ReadElement(s, r) = ReadNext(s, r) /\ ReadElement(t, r) = ReadNext(t, r)
    BY <1>2, <1>3, <1>10, Zenon DEF ReadElement
  <1>. QED BY <1>11, <1>12, Zenon DEF t

\* Once what was read stands for t, one more element stands for what it adds.
LEMMA OneMoreElement ==
  ASSUME NEW s \in Seq(Byte), NEW t, StandsFor(s, t), NEW e \in Seq(Byte), e # << >>, NEW u,
         ReadElement(s \o e, [at |-> Len(s), out |-> t])
           = [at |-> Len(s) + Len(e), out |-> u]
  PROVE  StandsFor(s \o e, u)
  <1> DEFINE w     == s \o e
             start == [at |-> 0, out |-> << >>]
             mid   == [at |-> Len(s), out |-> t]
             end   == [at |-> Len(s) + Len(e), out |-> u]
  <1>1. /\ w \in Seq(Byte) /\ Len(w) = Len(s) + Len(e)
        /\ Len(s) \in Nat /\ Len(e) \in Nat \ {0}
    OBVIOUS
  <1>2. PICK f : /\ f[0] = start
                 /\ \A n \in 1 .. Len(s) : f[n] = ReadElement(s, f[n - 1])
                 /\ ReadAll(s) = f[Len(s)]
    BY ReadersAre, Zenon DEF ReadAll
  <1>3. PICK g : /\ g[0] = start
                 /\ \A n \in 1 .. Len(w) : g[n] = ReadElement(w, g[n - 1])
                 /\ ReadAll(w) = g[Len(w)]
    BY <1>1, ReadersAre, Zenon DEF ReadAll
  <1>4. mid.at = Len(s) /\ end.at = Len(w) /\ start.at = 0
    BY <1>1
  <1>5. f[Len(s)] = mid /\ ReadElement(w, mid) = end
    BY <1>2, Zenon DEF StandsFor
  <1>6. ReadElement(w, end) = end
    <2>1. end.at >= Len(w)
      BY <1>1, <1>4
    <2>. QED BY <2>1, Zenon DEF ReadElement
  <1> HIDE DEF w, start, mid, end
  <1>7. \A n \in 0 .. Len(s) : f[n].at \in Nat
    <2> DEFINE S == {n \in 0 .. Len(s) : f[n].at \in Nat}
    <2>1. 0 \in S
      BY <1>1, <1>2, <1>4
    <2>2. ASSUME NEW n \in 1 .. Len(s), n - 1 \in S PROVE n \in S
      <3>1. f[n].at \in Nat
        BY <1>2, <2>2, ReadElementAt, Zenon
      <3>2. n \in 0 .. Len(s)
        OBVIOUS
      <3>. QED BY <3>1, <3>2
    <2> HIDE DEF S
    <2>3. \A n \in 0 .. Len(s) : n \in S
      BY <1>1, <2>1, <2>2, UpTo
    <2>. QED BY <2>3, Zenon DEF S
  \* A reader that is at the end of s stays there.
  <1>8. \A n \in 0 .. Len(s) : f[n].at >= Len(s) => f[n] = mid
    <2> SUFFICES ASSUME NEW n \in 0 .. Len(s), f[n].at >= Len(s) PROVE f[n] = mid
      OBVIOUS
    <2> DEFINE S == {k \in 0 .. Len(s) - n : f[n + k] = f[n]}
    <2>1. 0 \in S /\ Len(s) - n \in Nat
      BY <1>1
    <2>2. ASSUME NEW k \in 1 .. Len(s) - n, k - 1 \in S PROVE k \in S
      <3>1. n + k \in 1 .. Len(s) /\ (n + k) - 1 = n + (k - 1) /\ k \in 0 .. Len(s) - n
        BY <1>1
      <3>2. f[n + k] = ReadElement(s, f[n])
        BY <1>2, <2>2, <3>1, Zenon
      <3>3. ReadElement(s, f[n]) = f[n]
        BY Zenon DEF ReadElement
      <3>. QED BY <3>1, <3>2, <3>3, Zenon
    <2> HIDE DEF S
    <2>3. \A k \in 0 .. Len(s) - n : k \in S
      BY <2>1, <2>2, UpTo
    <2>4. Len(s) - n \in 0 .. Len(s) - n /\ n + (Len(s) - n) = Len(s)
      BY <1>1
    <2>5. f[n + (Len(s) - n)] = f[n]
      BY <2>3, <2>4, Zenon DEF S
    <2>. QED BY <1>5, <2>4, <2>5
  \* The reader of both is the reader of s up to the end of s.
  <1>9. \A n \in 0 .. Len(s) : g[n] = f[n] \/ g[n] = end
    <2> DEFINE S == {n \in 0 .. Len(s) : g[n] = f[n] \/ g[n] = end}
    <2>1. 0 \in S
      BY <1>1, <1>2, <1>3
    <2>2. ASSUME NEW n \in 1 .. Len(s), n - 1 \in S PROVE n \in S
      <3>1. n \in 1 .. Len(w) /\ n - 1 \in 0 .. Len(s) /\ n \in 0 .. Len(s)
        BY <1>1
      <3>2. g[n] = ReadElement(w, g[n - 1]) /\ f[n] = ReadElement(s, f[n - 1])
        BY <1>2, <1>3, <3>1, Zenon
      <3>3. CASE g[n - 1] = end
        BY <1>6, <3>1, <3>2, <3>3, Zenon
      <3>4. CASE g[n - 1] = f[n - 1] /\ f[n - 1].at >= Len(s)
        BY <1>5, <1>8, <3>1, <3>2, <3>4, Zenon
      <3>5. CASE g[n - 1] = f[n - 1] /\ ~(f[n - 1].at >= Len(s))
        <4>1. f[n - 1].at \in Nat
          BY <1>7, <3>1
        <4>2. f[n - 1].at < Len(s)
          BY <1>1, <3>5, <4>1
        <4>3. f[n].at # Len(s) + 1
          <5>1. f[n].at \in Nat
            BY <1>7, <3>1
          <5>2. f[n].at >= Len(s) => f[n].at = Len(s)
            BY <1>4, <1>8, <3>1, Zenon
          <5>. QED BY <1>1, <5>1, <5>2
        <4>4. ReadElement(w, f[n - 1]) = ReadElement(s, f[n - 1])
          <5>1. ReadElement(s, f[n - 1]).at # Len(s) + 1
            BY <3>2, <4>3, Zenon
          <5>2. ReadElement(s \o e, f[n - 1]) = ReadElement(s, f[n - 1])
            BY <4>1, <4>2, <5>1, ReadElementBefore, Zenon
          <5>. QED BY <5>2, Zenon DEF w
        <4>. QED BY <3>1, <3>2, <3>5, <4>4, Zenon
      <3>6. g[n - 1] = f[n - 1] \/ g[n - 1] = end
        BY <2>2, Zenon
      <3>. QED BY <3>3, <3>4, <3>5, <3>6, Zenon
    <2> HIDE DEF S
    <2>3. \A n \in 0 .. Len(s) : n \in S
      BY <1>1, <2>1, <2>2, UpTo
    <2>. QED BY <2>3, Zenon DEF S
  \* Then it reads e, and stays at the end.
  <1>10. g[Len(w)] = end
    <2> DEFINE k0 == Len(s) + 1
               S == {k \in 0 .. Len(w) - k0 : g[k0 + k] = end}
    <2>1. 0 \in S
      <3>1. Len(s) \in 0 .. Len(s) /\ Len(s) + 1 \in 1 .. Len(w) /\ (Len(s) + 1) - 1 = Len(s)
            /\ 0 \in 0 .. Len(w) - (Len(s) + 1) /\ (Len(s) + 1) + 0 = Len(s) + 1
        BY <1>1
      <3>2. g[Len(s)] = mid \/ g[Len(s)] = end
        BY <1>5, <1>9, <3>1, Zenon
      <3>3. g[Len(s) + 1] = ReadElement(w, g[Len(s)])
        BY <1>3, <3>1, Zenon
      <3>4. g[Len(s) + 1] = end
        BY <1>5, <1>6, <3>2, <3>3, Zenon
      <3>. QED BY <3>1, <3>4, Zenon
    <2>2. ASSUME NEW k \in 1 .. Len(w) - k0, k - 1 \in S PROVE k \in S
      <3>1. k0 + k \in 1 .. Len(w) /\ (k0 + k) - 1 = k0 + (k - 1) /\ k \in 0 .. Len(w) - k0
        BY <1>1
      <3>2. g[k0 + k] = ReadElement(w, g[k0 + (k - 1)])
        BY <1>3, <3>1, Zenon
      <3>. QED BY <1>6, <2>2, <3>1, <3>2, Zenon
    <2>3. Len(w) - k0 \in Nat /\ k0 + (Len(w) - k0) = Len(w)
      BY <1>1
    <2>4. Len(w) - k0 \in 0 .. Len(w) - k0
      BY <2>3
    <2> HIDE DEF S
    <2>5. \A k \in 0 .. Len(w) - k0 : k \in S
      <3> HIDE DEF k0
      <3>. QED BY <2>1, <2>2, <2>3, UpTo
    <2>. QED BY <2>3, <2>4, <2>5, Zenon DEF S
  <1>. QED BY <1>1, <1>3, <1>10, Zenon DEF StandsFor, w, end

\* Nothing stands for nothing.
LEMMA NoElements == StandsFor(<< >>, << >>)
  <1>1. << >> \in Seq(Byte) /\ Len(<< >>) = 0
    OBVIOUS
  <1>2. PICK f : f[0] = [at |-> 0, out |-> << >>] /\ ReadAll(<< >>) = f[Len(<< >>)]
    BY <1>1, ReadersAre, Zenon DEF ReadAll
  <1>. QED BY <1>1, <1>2, Zenon DEF StandsFor

\* A stream that stands for a text has that text as its only contents.
LEMMA StandsForDecodings ==
  ASSUME NEW s, NEW t, StandsFor(s, t)
  PROVE  Decodings(s) = {t}
  BY DEF StandsFor, Decodings

----------------------------------------------------------------------------
(* The elements that the compressor writes *)

\* Is a the n elements of w after the first k?
IsSlice(a, w, k, n, S) == a \in Seq(S) /\ Len(a) = n /\ \A i \in 1 .. n : a[i] = w[k + i]

\* The n elements of w after the first k.
LEMMA SliceIs ==
  ASSUME NEW S, NEW w, NEW k \in Nat, NEW n \in Nat, \A i \in 1 .. n : w[k + i] \in S
  PROVE  IsSlice(SubSeq(w, k + 1, k + n), w, k, n, S)
  <1>1. PICK a \in Int, b \in Int : a = k + 1 /\ b = k + n
    OBVIOUS
  <1>2. \A i \in a .. b : w[i] \in S
    <2> TAKE i \in a .. b
    <2>1. i - k \in 1 .. n /\ k + (i - k) = i
      BY <1>1
    <2>. QED BY <2>1
  <1>3. /\ SubSeq(w, a, b) \in Seq(S)
        /\ Len(SubSeq(w, a, b)) = IF a <= b THEN b - a + 1 ELSE 0
        /\ \A i \in 1 .. b - a + 1 : SubSeq(w, a, b)[i] = w[a + i - 1]
    BY <1>2, SubSeqProperties
  <1>4. b - a + 1 = n /\ (~(a <= b) => n = 0)
    BY <1>1
  <1>5. \A i \in 1 .. n : a + i - 1 = k + i
    BY <1>1
  <1>. QED BY <1>1, <1>3, <1>4, <1>5 DEF IsSlice

\* What reader r finds of an element behind s: its tag and trailer o, then the bytes v.
Finds(s, o, v, r) ==
  /\ TagAt(s \o (o \o v), r) = o[1]
  /\ After(s \o (o \o v), r) = Len(s) + Len(o)
  /\ Trailer(s \o (o \o v), r) = SubSeq(o, 2, Len(o))
  /\ SubSeq(s \o (o \o v), Len(s) + Len(o) + 1, Len(s) + Len(o) + Len(v)) = v

\* It finds them when the trailer is as long as the tag says.
LEMMA ElementParts ==
  ASSUME NEW s \in Seq(Byte), NEW o \in Seq(Byte), o # << >>, NEW v \in Seq(Byte),
         Len(o) = 1 + Extra(o[1]), NEW r, r.at = Len(s)
  PROVE  Finds(s, o, v, r)
  <1> DEFINE w == s \o (o \o v)
  <1>1. /\ w \in Seq(Byte) /\ Len(w) = Len(s) + Len(o) + Len(v)
        /\ Len(s) \in Nat /\ Len(o) \in Nat \ {0} /\ Len(v) \in Nat
    BY SMTT(30)
  <1>2. \A i \in 1 .. Len(o) : w[Len(s) + i] = o[i]
    <2> TAKE i \in 1 .. Len(o)
    <2>1. (o \o v)[i] = o[i] /\ o \o v \in Seq(Byte) /\ Len(o \o v) = Len(o) + Len(v)
      OBVIOUS
    <2>2. Len(s) + i \in 1 .. Len(s) + Len(o \o v) /\ ~(Len(s) + i <= Len(s))
          /\ (Len(s) + i) - Len(s) = i
      BY <1>1, <2>1
    <2>3. w[Len(s) + i] = (o \o v)[(Len(s) + i) - Len(s)]
      <3>1. \A j \in 1 .. Len(s) + Len(o \o v) :
              w[j] = IF j <= Len(s) THEN s[j] ELSE (o \o v)[j - Len(s)]
        BY <2>1, ConcatProperties
      <3>. QED BY <2>2, <3>1, Zenon
    <2>. QED BY <2>1, <2>2, <2>3, Zenon
  <1>3. \A i \in 1 .. Len(v) : w[Len(s) + Len(o) + i] = v[i]
    <2> TAKE i \in 1 .. Len(v)
    <2>1. (o \o v)[Len(o) + i] = v[i] /\ o \o v \in Seq(Byte) /\ Len(o \o v) = Len(o) + Len(v)
      OBVIOUS
    <2>2. Len(s) + Len(o) + i \in 1 .. Len(s) + Len(o \o v) /\ ~(Len(s) + Len(o) + i <= Len(s))
          /\ (Len(s) + Len(o) + i) - Len(s) = Len(o) + i
      BY <1>1, <2>1, SMTT(30)
    <2>3. w[Len(s) + Len(o) + i] = (o \o v)[(Len(s) + Len(o) + i) - Len(s)]
      <3>1. \A j \in 1 .. Len(s) + Len(o \o v) :
              w[j] = IF j <= Len(s) THEN s[j] ELSE (o \o v)[j - Len(s)]
        BY <2>1, ConcatProperties
      <3>. QED BY <2>2, <3>1, Zenon
    <2>. QED BY <2>1, <2>2, <2>3, Zenon
  <1> HIDE DEF w
  <1>4. TagAt(w, r) = o[1]
    <2>1. 1 \in 1 .. Len(o)
      BY <1>1
    <2>. QED BY <1>2, <2>1, Zenon DEF TagAt
  <1>5. After(w, r) = Len(s) + Len(o)
    <2>1. After(w, r) = Len(s) + 1 + Extra(o[1])
      BY <1>4, Zenon DEF After
    <2>2. o[1] \in Byte
      BY <1>1
    <2>3. Extra(o[1]) \in 0 .. 4
      BY <2>2, ElementSizes
    <2>. QED BY <1>1, <2>1, <2>3, SMTT(30)
  <1>6. Trailer(w, r) = SubSeq(o, 2, Len(o))
    <2> DEFINE a == SubSeq(w, Len(s) + 2, Len(s) + Len(o))
               b == SubSeq(o, 2, Len(o))
    <2>1. \A i \in Len(s) + 2 .. Len(s) + Len(o) : w[i] \in Byte
      BY <1>1
    <2>2. \A i \in 2 .. Len(o) : o[i] \in Byte
      BY <1>1
    <2>3. /\ a \in Seq(Byte) /\ Len(a) = Len(o) - 1
          /\ \A i \in 1 .. Len(o) - 1 : a[i] = w[Len(s) + 2 + i - 1]
      BY <1>1, <2>1, SubSeqProperties, SMTT(30)
    <2>4. /\ b \in Seq(Byte) /\ Len(b) = Len(o) - 1
          /\ \A i \in 1 .. Len(o) - 1 : b[i] = o[2 + i - 1]
      BY <1>1, <2>2, SubSeqProperties
    <2>5. ASSUME NEW i \in 1 .. Len(o) - 1 PROVE a[i] = b[i]
      <3>1. Len(s) + 2 + i - 1 = Len(s) + (1 + i) /\ 2 + i - 1 = 1 + i /\ 1 + i \in 1 .. Len(o)
        BY <1>1
      <3> HIDE DEF a, b
      <3>. QED BY <1>2, <2>3, <2>4, <3>1, Zenon
    <2>6. Trailer(w, r) = a
      BY <1>5, Zenon DEF Trailer
    <2> HIDE DEF a, b
    <2>7. a = b
      BY <2>3, <2>4, <2>5, SeqEqual
    <2>. QED BY <2>6, <2>7 DEF b
  <1>7. SubSeq(w, Len(s) + Len(o) + 1, Len(s) + Len(o) + Len(v)) = v
    <2> DEFINE a == SubSeq(w, Len(s) + Len(o) + 1, Len(s) + Len(o) + Len(v))
    <2>1. \A i \in 1 .. Len(v) : w[Len(s) + Len(o) + i] \in Byte
      BY <1>3
    <2>2. Len(s) + Len(o) \in Nat
      BY <1>1
    <2>3. /\ a \in Seq(Byte) /\ Len(a) = Len(v)
          /\ \A i \in 1 .. Len(v) : a[i] = w[Len(s) + Len(o) + i]
      <3>1. PICK k \in Nat : k = Len(s) + Len(o)
        BY <2>2
      <3>2. \A i \in 1 .. Len(v) : w[k + i] \in Byte
        BY <2>1, <3>1
      <3>3. Len(v) \in Nat
        BY <1>1
      <3>4. IsSlice(SubSeq(w, k + 1, k + Len(v)), w, k, Len(v), Byte)
        BY <3>2, <3>3, SliceIs, Zenon
      <3>. QED BY <3>1, <3>4 DEF IsSlice
    <2> HIDE DEF a
    <2>4. \A i \in 1 .. Len(a) : a[i] = v[i]
      BY <1>3, <2>3
    <2>. QED BY <2>3, <2>4, SeqEqual DEF a
  <1>. QED BY <1>4, <1>5, <1>6, <1>7, Zenon DEF w, Finds

\* A copy element behind a stream that stands for the beginning of t.
LEMMA CopyElement ==
  ASSUME NEW s \in Seq(Byte), NEW t \in Seq(Byte), NEW p \in Nat, NEW n \in Nat,
         NEW off \in 1 .. p, p + n <= Len(t),
         \A i \in p + 1 .. p + n : t[i] = t[i - off],
         StandsFor(s, SubSeq(t, 1, p)), NEW e \in Seq(Byte), e # << >>, IsCopy(e, off, n)
  PROVE  StandsFor(s \o e, SubSeq(t, 1, p + n))
  <1> DEFINE r == [at |-> Len(s), out |-> SubSeq(t, 1, p)]
             w == s \o e
             c == e[1]
  <1>1. r.at = Len(s) /\ r.out = SubSeq(t, 1, p) /\ Len(SubSeq(t, 1, p)) = p
    <2>1. Len(t) \in Nat
      OBVIOUS
    <2>2. \A i \in 1 .. p : t[i] \in Byte
      BY <2>1
    <2>3. Len(SubSeq(t, 1, p)) = p
      BY <2>2, SubSeqProperties
    <2>. QED BY <2>3
  <1>2. /\ w \in Seq(Byte) /\ Len(w) = Len(s) + Len(e) /\ Len(s) \in Nat /\ Len(e) \in Nat \ {0}
        /\ e = e \o << >> /\ c \in Byte
    OBVIOUS
  <1>3. /\ Kind(c) \in {1, 2} /\ Len(e) = 1 + Extra(c)
        /\ LengthIn(c) = n /\ CopyOffset(e) = off
    BY Zenon DEF IsCopy, COPY_1_BYTE_OFFSET, COPY_2_BYTE_OFFSET
  <1>4. Extra(c) \in {1, 2}
    BY <1>3, SMT DEF Extra, LITERAL, COPY_1_BYTE_OFFSET, COPY_2_BYTE_OFFSET, COPY_4_BYTE_OFFSET
  <1> HIDE DEF r, w
  <1>5. /\ TagAt(w, r) = c /\ After(w, r) = Len(s) + Len(e) /\ Trailer(w, r) = SubSeq(e, 2, Len(e))
    <2>1. << >> \in Seq(Byte) /\ Len(e) = 1 + Extra(e[1]) /\ w = s \o (e \o << >>)
      BY <1>2, <1>3 DEF w
    <2> HIDE DEF c
    <2>2. Finds(s, e, << >>, r)
      BY <1>1, <2>1, ElementParts, Zenon
    <2>. QED BY <2>1, <2>2, Zenon DEF c, Finds
  <1>6. <<c>> \o Trailer(w, r) = e
    <2>1. 1 \in 1 .. Len(e) /\ Len(e) \in 1 .. Len(e)
      BY <1>2
    <2>2. SubSeq(e, 1, Len(e)) = << e[1] >> \o SubSeq(e, 1 + 1, Len(e))
      BY <2>1, SubSeqRecursiveFirst
    <2>3. SubSeq(e, 1, Len(e)) = e
      BY SubSeqFull
    <2>4. 1 + 1 = 2
      OBVIOUS
    <2>. QED BY <1>5, <2>2, <2>3, <2>4
  <1> HIDE DEF c
  <1>7. ~IsLiteral(w, r)
    BY <1>3, <1>5, SMT DEF IsLiteral, LITERAL
  <1>8. OffsetAt(w, r) = off /\ LengthAt(w, r) = n
    <2>1. Extra(c) # 4
      BY <1>4
    <2>. QED BY <1>3, <1>5, <1>6, <1>7, <2>1, Zenon DEF OffsetAt, LengthAt
  <1>9. Good(w, r)
    <2>1. After(w, r) <= Len(w) /\ off \in 1 .. Len(r.out)
      BY <1>1, <1>2, <1>5
    <2>. QED BY <1>7, <1>8, <2>1, Zenon DEF Good, Reaches
  <1>10. ReadElement(w, r) = ReadNext(w, r)
    <2>1. ~(r.at >= Len(w))
      BY <1>1, <1>2
    <2>. QED BY <1>9, <2>1, Zenon DEF ReadElement
  <1>11. CopyFromSelf(r.out, off, n) = SubSeq(t, 1, p + n)
    BY <1>1, CopyIs, ZenonT(30)
  <1>12. ReadNext(w, r) = [at |-> Len(s) + Len(e), out |-> SubSeq(t, 1, p + n)]
    BY <1>5, <1>7, <1>8, <1>11, Zenon DEF ReadNext
  <1>. QED BY <1>10, <1>12, OneMoreElement, Zenon DEF r, w

\* The bytes of length after the tag of a literal.
LengthByteOf(o, i) == IF i < Len(o) THEN o[i + 1] ELSE 0

\* Are o the tag and the bytes of length of a literal of n bytes?
SaysLength(o, n) ==
  /\ Kind(o[1]) = LITERAL /\ Len(o) = 1 + Extra(o[1]) /\ Len(o) <= kMaximumTagLength
  /\ LengthIn(o[1]) + LengthByteOf(o, 1) + 256 * LengthByteOf(o, 2) + 65536 * LengthByteOf(o, 3)
       + 16777216 * LengthByteOf(o, 4) = n

\* The trailer of a literal is made of these bytes.
LEMMA TrailerBytes ==
  ASSUME NEW o \in Seq(Byte), Len(o) \in 1 .. 5, NEW tr, tr = SubSeq(o, 2, Len(o)),
         NEW i \in 1 .. 4
  PROVE  /\ (IF i <= Len(tr) THEN tr[i] ELSE 0) = LengthByteOf(o, i)
         /\ LengthByteOf(o, i) \in Nat
  <1>1. Len(tr) = Len(o) - 1 /\ \A j \in 1 .. Len(o) - 1 : tr[j] = o[1 + j]
    <2>1. Len(o) - 1 \in Nat /\ 1 + 1 = 2 /\ 1 + (Len(o) - 1) = Len(o)
      OBVIOUS
    <2>2. \A j \in 1 .. Len(o) - 1 : o[1 + j] \in Byte
      OBVIOUS
    <2>3. IsSlice(SubSeq(o, 1 + 1, 1 + (Len(o) - 1)), o, 1, Len(o) - 1, Byte)
      <3>1. 1 \in Nat
        OBVIOUS
      <3>. QED BY <2>1, <2>2, <3>1, SliceIs, Zenon
    <2>. QED BY <2>1, <2>3 DEF IsSlice
  <1>2. CASE i < Len(o)
    <2>1. i \in 1 .. Len(o) - 1 /\ i <= Len(tr) /\ 1 + i = i + 1 /\ i + 1 \in 1 .. Len(o)
      BY <1>1, <1>2
    <2>2. tr[i] = o[i + 1] /\ o[i + 1] \in Byte
      BY <1>1, <2>1
    <2>3. \A x \in Byte : x \in Nat
      BY SMT DEF Byte
    <2>. QED BY <1>2, <2>1, <2>2, <2>3, Zenon DEF LengthByteOf
  <1>3. CASE ~(i < Len(o))
    <2>1. ~(i <= Len(tr)) /\ 0 \in Nat
      BY <1>1, <1>3
    <2>. QED BY <1>3, <2>1, Zenon DEF LengthByteOf
  <1>. QED BY <1>2, <1>3

\* The length of a literal that fits a block has three bytes.
LEMMA NoHighByte ==
  \A l, k, b1, b2, b3, b4 \in Nat :
    l + b1 + 256 * b2 + 65536 * b3 + 16777216 * b4 = k /\ k <= 65536 => b4 = 0
  BY SMT

\* The tag of a long literal adds one to the number behind it.
LEMMA LengthOfLong ==
  ASSUME NEW c, Kind(c) = 0, Upper(c) \in Nat, Extra(c) # 0
  PROVE  LengthIn(c) = 1
  <1>1. ~(Upper(c) < 60)
    BY SMT DEF Extra, LITERAL, COPY_1_BYTE_OFFSET, COPY_2_BYTE_OFFSET,
           COPY_4_BYTE_OFFSET
  <1>. QED BY <1>1, SMT DEF LengthIn, LITERAL, COPY_1_BYTE_OFFSET

\* A literal of n bytes is read as one, for a length that fits a block.
LEMMA LiteralIs ==
  ASSUME NEW o \in Seq(Byte), o # << >>, NEW n \in Nat, n > 0, n <= kBlockSize, SaysLength(o, n), NEW tr,
         tr = SubSeq(o, 2, Len(o))
  PROVE  (IF Extra(o[1]) # 0 THEN LongLength(tr) ELSE LengthIn(o[1])) = n
  <1> DEFINE c == o[1]
             d(i) == IF i <= Len(tr) THEN tr[i] ELSE 0
  <1>1. Len(o) \in 1 .. 5 /\ c \in Byte /\ Len(o) = 1 + Extra(c)
    BY SMT DEF kMaximumTagLength, SaysLength
  <1>2. PICK b1 \in Nat, b2 \in Nat, b3 \in Nat, b4 \in Nat :
          /\ b1 = LengthByteOf(o, 1) /\ b2 = LengthByteOf(o, 2)
          /\ b3 = LengthByteOf(o, 3) /\ b4 = LengthByteOf(o, 4)
          /\ b1 = d(1) /\ b2 = d(2) /\ b3 = d(3) /\ b4 = d(4)
    <2>1. 1 \in 1 .. 4 /\ 2 \in 1 .. 4 /\ 3 \in 1 .. 4 /\ 4 \in 1 .. 4
      BY SMT
    <2>2. \A i \in 1 .. 4 : d(i) = LengthByteOf(o, i) /\ LengthByteOf(o, i) \in Nat
      BY <1>1, TrailerBytes, Zenon
    <2> HIDE DEF d
    <2>. QED BY <2>1, <2>2
  <1>3. Number(tr) = IF d(4) >= 64 THEN Huge
                     ELSE d(1) + 256 * d(2) + 65536 * d(3) + 16777216 * d(4)
    BY SMT DEF Number
  <1> HIDE DEF d, c
  <1>4. PICK l \in Nat, k \in Nat : l = LengthIn(c) /\ k = n
    <2>1. LengthIn(c) \in 1 .. 64
      BY <1>1, ElementSizes, Zenon
    <2>2. \A i \in 1 .. 64 : i \in Nat
      BY SMT
    <2>. QED BY <2>1, <2>2, Zenon
  <1>5. l + b1 + 256 * b2 + 65536 * b3 + 16777216 * b4 = k
    BY <1>2, <1>4, SMT DEF SaysLength, c
  <1>6. k <= 65536
    BY <1>4, SMT DEF kBlockSize
  <1>7. b4 = 0
    BY <1>5, <1>6, NoHighByte, SMT
  <1>8. Kind(c) = 0 /\ Upper(c) \in Nat
    <2>1. c \in 0 .. 255
      BY <1>1, SMT DEF Byte
    <2>2. Upper(c) \in Nat
      BY <2>1, SMT DEF Upper
    <2>3. Kind(c) = 0
      BY SMT DEF SaysLength, LITERAL, c
    <2>. QED BY <2>2, <2>3
  <1>9. CASE Extra(c) # 0
    <2>1. l = 1
      BY <1>4, <1>8, <1>9, LengthOfLong
    <2>2. Number(tr) = b1 + 256 * b2 + 65536 * b3 + 16777216 * b4
      BY <1>2, <1>3, <1>7, SMT
    <2>3. Number(tr) = k - 1
      BY <1>5, <2>1, <2>2, SMT
    <2>4. k - 1 # Huge /\ (k - 1) + 1 = k
      BY <1>6, SMT DEF Huge
    <2>5. Number(<<255, 255, 255, 255>>) = Huge
      BY SMT DEF Number
    <2>6. tr # <<255, 255, 255, 255>>
      BY <2>3, <2>4, <2>5, Zenon
    <2>7. LongLength(tr) = Number(tr) + 1
      BY <2>3, <2>4, <2>6, Zenon DEF LongLength
    <2>. QED BY <1>4, <1>9, <2>3, <2>4, <2>7 DEF c
  <1>10. CASE Extra(c) = 0
    <2>1. Len(o) = 1
      BY <1>1, <1>10
    <2>2. b1 = 0 /\ b2 = 0 /\ b3 = 0 /\ b4 = 0
      BY <1>2, <2>1, SMT DEF LengthByteOf
    <2>3. l = k
      BY <1>5, <2>2, SMT
    <2>. QED BY <1>4, <1>10, <2>3 DEF c
  <1>. QED BY <1>9, <1>10

\* A literal element behind a stream that stands for the beginning of t.
LEMMA LiteralElement ==
  ASSUME NEW s \in Seq(Byte), NEW t \in Seq(Byte), NEW p \in Nat, NEW n \in Nat, n > 0, n <= kBlockSize,
         p + n <= Len(t), StandsFor(s, SubSeq(t, 1, p)),
         NEW o \in Seq(Byte), o # << >>, SaysLength(o, n)
  PROVE  StandsFor(s \o (o \o SubSeq(t, p + 1, p + n)), SubSeq(t, 1, p + n))
  <1> DEFINE r  == [at |-> Len(s), out |-> SubSeq(t, 1, p)]
             v  == SubSeq(t, p + 1, p + n)
             w  == s \o (o \o v)
             tr == SubSeq(o, 2, Len(o))
  <1>0. n \in Nat /\ Len(t) \in Nat
    OBVIOUS
  <1>1. r.at = Len(s) /\ r.out = SubSeq(t, 1, p)
    OBVIOUS
  <1>2. v \in Seq(Byte) /\ Len(v) = n
    <2>1. \A i \in 1 .. n : t[p + i] \in Byte
      BY <1>0
    <2>. QED BY <1>0, <2>1, SliceIs DEF IsSlice
  <1>3. SubSeq(t, 1, p) \o v = SubSeq(t, 1, p + n)
    <2>1. 1 \in 1 .. Len(t) + 1 /\ p \in 1 - 1 .. Len(t) /\ p + n \in p .. Len(t)
      BY <1>0
    <2>. QED BY <2>1, ConcatAdjacentSubSeq
  <1> HIDE DEF r, v
  <1>4. /\ w \in Seq(Byte) /\ Len(w) = Len(s) + Len(o) + Len(v)
        /\ o \o v \in Seq(Byte) /\ o \o v # << >> /\ Len(o \o v) = Len(o) + Len(v)
        /\ Len(s) \in Nat /\ Len(o) \in Nat \ {0}
    <2>1. Len(s) \in Nat /\ Len(o) \in Nat \ {0} /\ Len(v) \in Nat
      BY <1>2
    <2>2. o \o v \in Seq(Byte) /\ Len(o \o v) = Len(o) + Len(v)
      BY <1>2, ConcatProperties
    <2>3. o \o v # << >>
      BY <2>1, <2>2
    <2>4. w \in Seq(Byte) /\ Len(w) = Len(s) + Len(o \o v)
      BY <2>2
    <2>. QED BY <2>1, <2>2, <2>3, <2>4
  <1>5. /\ TagAt(w, r) = o[1] /\ After(w, r) = Len(s) + Len(o) /\ Trailer(w, r) = tr
        /\ SubSeq(w, Len(s) + Len(o) + 1, Len(s) + Len(o) + Len(v)) = v
    <2>1. Len(o) = 1 + Extra(o[1])
      BY SMT DEF SaysLength
    <2>2. Finds(s, o, v, r)
      BY <1>1, <1>2, <2>1, ElementParts, Zenon
    <2>. QED BY <2>2, Zenon DEF w, Finds
  <1> HIDE DEF w
  <1>6. IsLiteral(w, r)
    <2>1. Kind(o[1]) = LITERAL
      BY SMT DEF SaysLength
    <2>. QED BY <1>5, <2>1, Zenon DEF IsLiteral
  <1>7. LengthAt(w, r) = n
    <2>1. (IF Extra(o[1]) # 0 THEN LongLength(tr) ELSE LengthIn(o[1])) = n
      BY LiteralIs, Zenon
    <2>. QED BY <1>5, <1>6, <2>1, Zenon DEF LengthAt
  <1>8. Good(w, r)
    <2>1. After(w, r) <= Len(w) /\ After(w, r) + LengthAt(w, r) <= Len(w)
      BY <1>0, <1>2, <1>4, <1>5, <1>7
    <2>. QED BY <1>6, <2>1, Zenon DEF Good
  <1>9. ReadElement(w, r) = ReadNext(w, r)
    <2>1. ~(r.at >= Len(w))
      BY <1>0, <1>1, <1>2, <1>4
    <2>. QED BY <1>8, <2>1, Zenon DEF ReadElement
  <1>10. ReadNext(w, r) = [at |-> Len(s) + Len(o) + Len(v), out |-> SubSeq(t, 1, p) \o v]
    BY <1>1, <1>2, <1>5, <1>6, <1>7, Zenon DEF ReadNext
  <1>11. Len(s) + Len(o) + Len(v) = Len(s) + Len(o \o v)
    BY <1>0, <1>2, <1>4
  <1>. QED BY <1>3, <1>4, <1>9, <1>10, <1>11, OneMoreElement, Zenon DEF r, v, w

----------------------------------------------------------------------------
(* Constants *)

\* The sizes that the code is built with.
LEMMA CodeSizes ==
  /\ Code /\ BlockSize \in Nat /\ 15 <= BlockSize /\ BlockSize <= 65536
  /\ kBlockSize = 65536 /\ kInputMarginBytes = 15
  /\ MinTable \in Powers /\ SmallTable \in Powers /\ MaxTable \in Powers
  <1>1. kBlockSize = 65536 /\ kInputMarginBytes = 15
    BY SMT DEF kBlockSize, kInputMarginBytes
  <1>2. BlockSize \in kInputMarginBytes .. kBlockSize
    BY CompressAssumption, Zenon
  <1>3. BlockSize \in Nat /\ 15 <= BlockSize /\ BlockSize <= 65536
    <2>1. BlockSize \in 15 .. kBlockSize
      BY <1>2, SMT DEF kInputMarginBytes
    <2>. QED BY <2>1, BlockSizeIs
  <1>4. MinTable \in Powers /\ SmallTable \in Powers /\ MaxTable \in Powers /\ Code
    BY CompressAssumption, Zenon DEF Code
  <1>. QED BY <1>1, <1>3, <1>4

\* A power of two up to kBlockSize.
LEMMA PowersAre ==
  ASSUME NEW p \in Powers
  PROVE  p \in Nat /\ 1 <= p /\ p <= 65536
  <1>1. PICK k \in 0 .. 16 : p = 2 ^ k
    BY SMT DEF Powers, kBlockBits
  <1>2. p \in 1 .. kBlockSize
    BY <1>1, PowerOf, Zenon
  <1>. QED BY <1>2, BlockSizeIs

\* The tables are not empty, and the small one is smaller.
LEMMA Tables ==
  /\ MinTable \in Nat /\ 1 <= MinTable
  /\ SmallTable \in Nat /\ MinTable <= SmallTable
  /\ MaxTable \in Nat /\ SmallTable < MaxTable /\ MaxTable <= 65536
  <1>1. /\ MinTable \in Powers /\ SmallTable \in Powers /\ MaxTable \in Powers
        /\ MinTable <= SmallTable /\ SmallTable < MaxTable
    BY CompressAssumption, Zenon
  <1>. QED BY <1>1, PowersAre

\* A table has a size that is a power of two and fits.
LEMMA TableSizeIs ==
  ASSUME NEW n \in Nat
  PROVE  TableSize(n) \in Powers /\ TableSize(n) \in Nat /\ 1 <= TableSize(n) /\ TableSize(n) <= MaxTable
  <1> DEFINE S == {s \in Powers : s >= MinTable /\ (s >= n \/ s >= MaxTable)}
  <1>1. MaxTable \in S
    BY Tables, CodeSizes
  <1>2. S \in SUBSET Nat
    BY PowersAre
  <1> HIDE DEF S
  <1>3. S # {}
    BY <1>1, Zenon
  <1>4. Min(S) \in S /\ \A m \in S : Min(S) <= m
    BY <1>2, <1>3, MinIs, Zenon
  <1>5. TableSize(n) = Min(S)
    BY DEF TableSize, S
  <1>6. TableSize(n) \in Powers /\ TableSize(n) <= MaxTable
    BY <1>1, <1>4, <1>5, Zenon DEF S
  <1>. QED BY <1>6, PowersAre

\* The shift taken from the logarithm of a table's size.
LEMMA ShiftIs ==
  ASSUME NEW p \in Powers
  PROVE  /\ 32 - Log2Floor(BitsOf(p)) \in 0 .. 32
         /\ 2 ^ (32 - (32 - Log2Floor(BitsOf(p)))) = p
  <1>1. PICK k \in 0 .. 16 : p = 2 ^ k
    BY SMT DEF Powers, kBlockBits
  <1>2. BitsOf(p) = {k}
    BY <1>1, BitsOfPower, Zenon
  <1>3. Log2Floor({k}) = k
    <2>1. k \in 0 .. 31
      BY SMT
    <2>. QED BY <2>1, LogOfBit, Zenon
  <1>4. 32 - k \in 0 .. 32 /\ 32 - (32 - k) = k
    BY SMT
  <1>. QED BY <1>1, <1>2, <1>3, <1>4, Zenon

----------------------------------------------------------------------------
(* The state *)

\* The types of the variables that hold lengths and places, as plain numbers.
Numbers ==
  /\ frag \in {"source", "scratch"}
  /\ text \in Seq(Byte) /\ Len(text) \in Nat /\ capacity \in Nat
  /\ pos \in Nat /\ pos <= Len(text) /\ N \in Nat /\ N <= Len(text)
  /\ size \in Nat /\ size <= BlockSize /\ filled \in Nat /\ filled <= BlockSize
  /\ ip \in Nat /\ ip <= 65536 /\ nextEmit \in Nat /\ nextEmit <= 65536
  /\ candidate \in Nat /\ candidate <= 65536
  /\ nextIp \in Nat /\ nextIp <= 131072 /\ skip \in Nat /\ loaded \in Nat
  /\ high \in Nat /\ room \in Nat /\ shift \in Nat
  /\ dest \in Seq(Byte) /\ Len(dest) \in Nat /\ sink \in Seq(Byte) /\ Len(sink) \in Nat
  /\ op \in Seq(Byte) /\ Len(op) \in Nat

\* The type invariant gives them.
LEMMA TypesAreNumbers ==
  ASSUME TypeOK
  PROVE  Numbers
  <1>1. text \in Texts /\ capacity \in Nat /\ frag \in {"source", "scratch"}
    BY Zenon DEF TypeOK
  <1>2. text \in Seq(Byte)
    BY <1>1, CompressAssumption, Zenon
  <1>3. Len(text) \in Nat
    BY <1>2, LenProperties, Zenon
  <1>4. pos \in Nat /\ pos <= Len(text) /\ N \in Nat /\ N <= Len(text)
    <2>1. pos \in 0 .. Len(text) /\ N \in 0 .. Len(text)
      BY Zenon DEF TypeOK
    <2>. QED BY <1>3, <2>1
  <1>5. size \in Nat /\ size <= BlockSize /\ filled \in Nat /\ filled <= BlockSize
    <2>1. size \in 0 .. BlockSize /\ filled \in 0 .. BlockSize
      BY Zenon DEF TypeOK
    <2>. QED BY <2>1, CodeSizes, SMT
  <1>6. /\ ip \in Nat /\ ip <= 65536 /\ nextEmit \in Nat /\ nextEmit <= 65536
        /\ candidate \in Nat /\ candidate <= 65536
    <2>1. ip \in Places /\ nextEmit \in Places /\ candidate \in Places
      BY Zenon DEF TypeOK
    <2>2. \A x \in Places : x \in Nat /\ x <= 65536
      BY BlockSizeIs DEF Places
    <2>. QED BY <2>1, <2>2
  <1>7. nextIp \in Nat /\ nextIp <= 131072
    <2>1. nextIp \in 0 .. 2 * kBlockSize
      BY Zenon DEF TypeOK
    <2>2. \A x \in 0 .. 2 * kBlockSize : x \in Nat /\ x <= 131072
      <3>1. PICK b \in Nat : b = kBlockSize /\ 2 * b = 131072
        BY SMT DEF kBlockSize
      <3>2. \A x \in 0 .. 2 * b : x \in Nat /\ x <= 131072
        BY <3>1, SMT
      <3>. QED BY <3>1, <3>2
    <2>. QED BY <2>1, <2>2
  <1>8. shift \in Nat
    <2>1. shift \in 0 .. 32
      BY Zenon DEF TypeOK
    <2>. QED BY <2>1, SMT
  <1>9. /\ dest \in Seq(Byte) /\ sink \in Seq(Byte) /\ op \in Seq(Byte)
        /\ skip \in Nat /\ loaded \in Nat /\ high \in Nat /\ room \in Nat
    BY Zenon DEF TypeOK, EmitTypeOK
  <1>10. Len(dest) \in Nat /\ Len(sink) \in Nat /\ Len(op) \in Nat
    BY <1>9, LenProperties, Zenon
  <1> HIDE DEF Numbers
  <1>. QED BY <1>1, <1>2, <1>3, <1>4, <1>5, <1>6, <1>7, <1>8, <1>9, <1>10 DEF Numbers

\* Where the block is in the text.
LEMMA BlockPlace ==
  ASSUME Numbers, BlockInv
  PROVE  /\ Earlier \in Nat /\ Earlier + N = Len(text) /\ NextSize \in Nat /\ NextSize <= N
         /\ NextSize <= BlockSize /\ (NextSize = N \/ NextSize = BlockSize)
         /\ pc \in {"fill"} \cup InBlock => size = NextSize /\ Earlier + size <= Len(text) /\ 1 <= size
  <1>1. Earlier \in Nat /\ Earlier + N = Len(text)
    BY DEF Numbers, Earlier
  <1>2. /\ NextSize \in Nat /\ NextSize <= N /\ NextSize <= BlockSize
        /\ (NextSize = N \/ NextSize = BlockSize)
    BY CodeSizes DEF Numbers, NextSize, SmallerOf
  <1>3. pc \in {"fill"} \cup InBlock => size = NextSize /\ N > 0
    BY Zenon DEF BlockInv
  <1>. QED BY <1>1, <1>2, <1>3, CodeSizes DEF Numbers

\* The bytes of the block are bytes of the text.
LEMMA BlockByte ==
  ASSUME Numbers, BlockInv, pc \in InBlock, NEW i \in Nat, i < size
  PROVE  /\ At(i) = text[Earlier + i + 1] /\ At(i) \in Byte
         /\ Earlier + i + 1 \in 1 .. Len(text)
  <1>1. Earlier \in Nat /\ Earlier + size <= Len(text) /\ size \in Nat
    BY BlockPlace DEF Numbers
  <1>2. Earlier + i + 1 \in 1 .. Len(text)
    BY <1>1 DEF Numbers
  <1>3. text[Earlier + i + 1] \in Byte
    BY <1>2 DEF Numbers
  <1>4. IF frag = "source" THEN pos = Earlier ELSE Collected /\ filled = size
    BY Zenon DEF BlockInv
  <1>5. CASE frag = "source"
    <2>1. At(i) = text[pos + i + 1]
      BY <1>1, <1>5 DEF At
    <2>. QED BY <1>2, <1>3, <1>4, <1>5, <2>1
  <1>6. CASE frag # "source"
    <2>1. scratch[i + 1] = text[Earlier + (i + 1)]
      <3>1. i + 1 \in 1 .. size
        BY <1>1
      <3>. QED BY <1>4, <1>6, <3>1 DEF Collected
    <2>2. Earlier + (i + 1) = Earlier + i + 1
      BY <1>1
    <2>3. At(i) = IF frag = "scratch" THEN scratch[i + 1] ELSE text[pos + i + 1]
      BY <1>1 DEF At
    <2>. QED BY <1>2, <1>3, <1>4, <1>6, <2>1, <2>2, <2>3 DEF Numbers
  <1>. QED BY <1>5, <1>6

\* The bytes of the block from place i on.
LEMMA BlockBytes ==
  ASSUME Numbers, BlockInv, pc \in InBlock, NEW i \in Nat, NEW n \in Nat, i + n <= size
  PROVE  /\ Bytes(i, n) = SubSeq(text, Earlier + i + 1, Earlier + i + n)
         /\ Bytes(i, n) = [k \in 1 .. n |-> text[Earlier + i + k]]
         /\ Bytes(i, n) \in Seq(Byte) /\ Len(Bytes(i, n)) = n
  <1>1. Earlier \in Nat /\ Earlier + size <= Len(text) /\ size \in Nat /\ text \in Seq(Byte)
    BY BlockPlace DEF Numbers
  <1>2. \A k \in 1 .. n : At(i + k - 1) = text[Earlier + i + k] /\ text[Earlier + i + k] \in Byte
    <2> TAKE k \in 1 .. n
    <2>1. i + k - 1 \in Nat /\ i + k - 1 < size /\ Earlier + (i + k - 1) + 1 = Earlier + i + k
      BY <1>1
    <2>2. /\ At(i + k - 1) = text[Earlier + (i + k - 1) + 1] /\ At(i + k - 1) \in Byte
      BY <2>1, BlockByte
    <2>. QED BY <2>1, <2>2
  <1>3. Bytes(i, n) = [k \in 1 .. n |-> text[Earlier + i + k]]
    BY <1>2, Zenon DEF Bytes
  <1>4. PICK e \in Nat : e = Earlier + i
    BY <1>1
  <1>5. IsSlice(SubSeq(text, e + 1, e + n), text, e, n, Byte)
    <2>1. \A k \in 1 .. n : text[e + k] \in Byte
      BY <1>2, <1>4
    <2>. QED BY <2>1, SliceIs, Zenon
  <1>6. SubSeq(text, e + 1, e + n) = [k \in 1 .. n |-> text[e + k]]
    <2> DEFINE a == SubSeq(text, e + 1, e + n)
    <2>1. a \in Seq(Byte) /\ Len(a) = n /\ \A k \in 1 .. n : a[k] = text[e + k]
      BY <1>5 DEF IsSlice
    <2> HIDE DEF a
    <2>2. a = [k \in 1 .. Len(a) |-> a[k]]
      BY <2>1, LenProperties
    <2>3. a = [k \in 1 .. n |-> text[e + k]]
      BY <2>1, <2>2, Zenon
    <2>. QED BY <2>3 DEF a
  <1>. QED BY <1>3, <1>4, <1>5, <1>6 DEF IsSlice

\* Hashes of four bytes of the block are entries of the table.
LEMMA HashInside ==
  ASSUME TypeOK, Numbers, BlockInv, pc \in InBlock, NEW p \in Powers, NEW i \in Nat, i + 4 <= size
  PROVE  Hash(hash, Load32(i), p) \in 0 .. p - 1
  <1>1. Earlier \in Nat /\ Earlier + size <= Len(text) /\ size \in Nat
    BY BlockPlace DEF Numbers
  <1>2. Load32(i) = [k \in 1 .. 4 |-> text[Earlier + i + k]]
    <2>1. 4 \in Nat
      OBVIOUS
    <2>. QED BY <2>1, BlockBytes, Zenon DEF Load32
  <1>3. Earlier + i \in 0 .. Len(text) - 4
    BY <1>1 DEF Numbers
  <1>4. hash \in Hashes /\ text \in Texts
    BY Zenon DEF TypeOK
  <1>5. Hash(hash, [k \in 1 .. 4 |-> text[(Earlier + i) + k]], p) \in 0 .. p - 1
    BY <1>3, <1>4, HashAssumption, Zenon
  <1>. QED BY <1>2, <1>5, Zenon

\* In CompressFragment: they are places of the table in use.
LEMMA HashAtInside ==
  ASSUME TypeOK, Numbers, BlockInv, TableInv, pc \in Compressing, NEW i \in Nat, i + 4 <= size
  PROVE  HashAt(i, shift) \in 0 .. TableSizeNow - 1
  <1>1. pc \in InBlock
    BY DEF InBlock
  <1>2. TableSizeNow \in Powers
    BY TableSizeIs DEF TableSizeNow, Numbers
  <1>3. 2 ^ (32 - shift) = TableSizeNow
    BY Zenon DEF TableInv
  <1>. QED BY <1>1, <1>2, <1>3, HashInside, Zenon DEF HashAt

\* The table in use has an entry for each of them, a place.
LEMMA TableInUse ==
  ASSUME TypeOK, Numbers, TableInv, pc \in Compressing
  PROVE  /\ TableSizeNow \in Nat /\ 1 <= TableSizeNow /\ TableSizeNow <= MaxTable
         /\ which \in {"small", "large"}
         /\ \A h \in 0 .. TableSizeNow - 1 : h \in DOMAIN table[which] /\ table[which][h] \in Nat
                                            /\ table[which][h] <= 65535
  <1>1. TableSizeNow \in Nat /\ 1 <= TableSizeNow /\ TableSizeNow <= MaxTable
    BY TableSizeIs DEF TableSizeNow, Numbers
  <1>2. which = IF TableSizeNow <= SmallTable THEN "small" ELSE "large"
    BY Zenon DEF TableInv
  <1>3. table \in [small : [0 .. SmallTable - 1 -> 0 .. kBlockSize - 1],
                   large : [0 .. MaxTable - 1 -> 0 .. kBlockSize - 1]]
    BY Zenon DEF TypeOK
  <1>4. ASSUME NEW h \in 0 .. TableSizeNow - 1
        PROVE  h \in DOMAIN table[which] /\ table[which][h] \in 0 .. kBlockSize - 1
    <2>1. CASE TableSizeNow <= SmallTable
      <3>1. which = "small" /\ h \in 0 .. SmallTable - 1
        BY <1>1, <1>2, <2>1, Tables
      <3>2. table.small \in [0 .. SmallTable - 1 -> 0 .. kBlockSize - 1]
        BY <1>3
      <3>3. h \in DOMAIN table.small /\ table.small[h] \in 0 .. kBlockSize - 1
        BY <3>1, <3>2, Zenon
      <3>. QED BY <3>1, <3>3
    <2>2. CASE ~(TableSizeNow <= SmallTable)
      <3>1. which = "large" /\ h \in 0 .. MaxTable - 1
        BY <1>1, <1>2, <2>2, Tables
      <3>2. table.large \in [0 .. MaxTable - 1 -> 0 .. kBlockSize - 1]
        BY <1>3
      <3>3. h \in DOMAIN table.large /\ table.large[h] \in 0 .. kBlockSize - 1
        BY <3>1, <3>2, Zenon
      <3>. QED BY <3>1, <3>3
    <2>. QED BY <2>1, <2>2
  <1>5. \A x \in 0 .. kBlockSize - 1 : x \in Nat /\ x <= 65535
    BY BlockSizeIs
  <1>6. which \in {"small", "large"}
    BY <1>2
  <1>7. \A h \in 0 .. TableSizeNow - 1 : h \in DOMAIN table[which] /\ table[which][h] \in Nat
                                            /\ table[which][h] <= 65535
    BY <1>4, <1>5
  <1>. QED BY <1>1, <1>6, <1>7

\* A new value in one of the tables.
LEMMA TableTyped ==
  ASSUME TypeOK, NEW w \in {"small", "large"}, NEW t,
         DOMAIN t = DOMAIN table[w], \A h \in DOMAIN t : t[h] \in 0 .. kBlockSize - 1,
         t = [h \in DOMAIN t |-> t[h]]
  PROVE  /\ [table EXCEPT ![w] = t] \in [small : [0 .. SmallTable - 1 -> 0 .. kBlockSize - 1],
                                         large : [0 .. MaxTable - 1 -> 0 .. kBlockSize - 1]]
         /\ [table EXCEPT ![w] = t][w] = t
  <1> DEFINE B == 0 .. kBlockSize - 1
  <1>1. table \in [small : [0 .. SmallTable - 1 -> B], large : [0 .. MaxTable - 1 -> B]]
    BY Zenon DEF TypeOK
  <1> HIDE DEF B
  <1>2. /\ table.small \in [0 .. SmallTable - 1 -> B] /\ table.large \in [0 .. MaxTable - 1 -> B]
        /\ DOMAIN table = {"small", "large"}
    BY <1>1
  <1>3. t \in [DOMAIN t -> B]
    BY Zenon DEF B
  <1>4. CASE w = "small"
    <2>1. DOMAIN t = 0 .. SmallTable - 1
      BY <1>2, <1>4
    <2>. QED BY <1>1, <1>2, <1>3, <1>4, <2>1 DEF B
  <1>5. CASE w = "large"
    <2>1. DOMAIN t = 0 .. MaxTable - 1
      BY <1>2, <1>5
    <2>. QED BY <1>1, <1>2, <1>3, <1>5, <2>1 DEF B
  <1>. QED BY <1>4, <1>5

----------------------------------------------------------------------------
(* What steps leave alone *)

\* The two tables.
TableType == [small : [0 .. SmallTable - 1 -> 0 .. kBlockSize - 1],
              large : [0 .. MaxTable - 1 -> 0 .. kBlockSize - 1]]

\* The steps of the program.
Steps == {"called", "block", "fill", "table", "scan", "literal", "match", "copy",
          "rest", "last", "append", "done", "refused"}

\* A step of CompressFragment.
InFragment ==
  /\ pc \in Compressing /\ pc' \in Compressing
  /\ UNCHANGED <<call_, blocks, hashing, room, sink>>

\* The variables that InFragment leaves alone.
LEMMA FragmentKeeps ==
  ASSUME InFragment
  PROVE  /\ text' = text /\ hash' = hash /\ arch' = arch /\ capacity' = capacity
         /\ pos' = pos /\ N' = N /\ frag' = frag /\ size' = size /\ scratch' = scratch
         /\ filled' = filled /\ shift' = shift /\ which' = which /\ room' = room /\ sink' = sink
         /\ Earlier' = Earlier /\ NextSize' = NextSize /\ TableSizeNow' = TableSizeNow
         /\ ipLimit' = ipLimit /\ Header' = Header
  <1>1. /\ text' = text /\ hash' = hash /\ arch' = arch /\ capacity' = capacity
        /\ pos' = pos /\ N' = N /\ frag' = frag /\ size' = size /\ scratch' = scratch
        /\ filled' = filled /\ shift' = shift /\ which' = which /\ room' = room /\ sink' = sink
    BY DEF InFragment, call_, blocks, hashing
  <1>. QED BY <1>1, Zenon DEF Earlier, NextSize, TableSizeNow, ipLimit, Header

\* What is read from a block that does not change.
LEMMA SameBytes ==
  ASSUME UNCHANGED <<text, hash, pos, frag, size, scratch>>
  PROVE  /\ Load32(candidate)' = Load32(candidate') /\ Load32(ip)' = Load32(ip')
         /\ HashAt(nextIp, shift)' = HashAt(nextIp', shift')
         /\ Bytes(ip - total, total)' = Bytes(ip' - total', total')
         /\ Bytes(ip - total - offset, total)' = Bytes(ip' - total' - offset', total')
         /\ At(ip)' = At(ip') /\ At(ip - offset)' = At(ip' - offset')
  BY Zenon DEF HashAt, Load32, Bytes, At

\* The types of what may change in a step of CompressFragment.
LEMMA FragmentTypes ==
  ASSUME TypeOK, EmitInv', InFragment,
         ip' \in Places, nextEmit' \in Places, candidate' \in Places,
         nextIp' \in 0 .. 2 * kBlockSize, skip' \in Nat, loaded' \in Nat,
         nextHash' \in 0 .. MaxTable - 1, dest' \in Seq(Byte), high' \in Nat,
         table' \in TableType
  PROVE  TypeOK'
  <1>1. /\ text' = text /\ hash' = hash /\ arch' = arch /\ capacity' = capacity
        /\ pos' = pos /\ N' = N /\ frag' = frag /\ size' = size /\ scratch' = scratch
        /\ filled' = filled /\ shift' = shift /\ which' = which /\ room' = room /\ sink' = sink
    BY FragmentKeeps
  <1>2. pc' \in Steps
    BY DEF InFragment, Compressing, Steps
  <1>3. EmitTypeOK'
    BY DEF EmitInv
  <1>. QED BY <1>1, <1>2, <1>3, Zenon DEF TypeOK, TableType, Steps

\* The invariants of the block, the buffers and the table are kept in such a step.
LEMMA FragmentInv ==
  ASSUME BlockInv, BuffersInv, TableInv, InFragment
  PROVE  BlockInv' /\ BuffersInv' /\ TableInv'
  <1>1. /\ text' = text /\ hash' = hash /\ arch' = arch /\ capacity' = capacity
        /\ pos' = pos /\ N' = N /\ frag' = frag /\ size' = size /\ scratch' = scratch
        /\ filled' = filled /\ shift' = shift /\ which' = which /\ room' = room /\ sink' = sink
        /\ Earlier' = Earlier /\ NextSize' = NextSize /\ TableSizeNow' = TableSizeNow
        /\ ipLimit' = ipLimit /\ Header' = Header
    BY FragmentKeeps
  <1>2. pc \in Compressing /\ pc' \in Compressing /\ pc \in InBlock /\ pc' \in InBlock
    BY DEF InFragment, InBlock
  <1>3. /\ pc \notin {"called", "refused", "block", "done", "fill"}
        /\ pc' \notin {"called", "refused", "block", "done", "fill"}
    BY <1>2 DEF Compressing
  <1>4. Collected' = Collected
    BY <1>1, Zenon DEF Collected
  <1>5. BlockInv'
    <2>1. N > 0 /\ size = NextSize
      BY <1>2, Zenon DEF BlockInv
    <2>2. IF frag = "source" THEN pos = Earlier
                             ELSE Collected /\ filled = size /\ pos = Earlier + size
      BY <1>2, Zenon DEF BlockInv
    <2>3. IF frag' = "source" THEN pos' = Earlier'
                              ELSE Collected' /\ filled' = size' /\ pos' = Earlier' + size'
      BY <1>1, <1>4, <2>2, Zenon
    <2>4. N' > 0 /\ size' = NextSize'
      BY <1>1, <2>1, Zenon
    <2>. QED BY <1>3, <2>3, <2>4 DEF BlockInv
  <1>6. BuffersInv'
    <2>1. /\ room # 0 /\ capacity >= MaxCompressedLength(Len(text))
          /\ MaxCompressedLength(NextSize) <= room /\ (scratch # << >> => NextSize <= Len(scratch))
      BY <1>2, <1>3 DEF BuffersInv
    <2>2. MaxCompressedLength(NextSize)' = MaxCompressedLength(NextSize)
      BY <1>1, Zenon DEF MaxCompressedLength
    <2>3. MaxCompressedLength(Len(text))' = MaxCompressedLength(Len(text))
      BY <1>1, Zenon DEF MaxCompressedLength
    <2>. QED BY <1>1, <2>1, <2>2, <2>3 DEF BuffersInv
  <1>7. TableInv'
    BY <1>1, <1>2, Zenon DEF TableInv
  <1>. QED BY <1>5, <1>6, <1>7

\* Plain bounds give the ranges of places and lengths.
LEMMA InRange ==
  ASSUME NEW m \in Nat
  PROVE  /\ m <= 65536 => m \in 0 .. kBlockSize /\ m \in Places
         /\ 4 <= m /\ m <= 65536 => m \in 4 .. kBlockSize
         /\ m <= 65535 => m \in 0 .. kBlockSize - 1
         /\ 1 <= m /\ m <= 65535 => m \in 1 .. kBlockSize - 1
         /\ m <= 131072 => m \in 0 .. 2 * kBlockSize
         /\ 1 <= m /\ m <= 65536 => m \in 1 .. MaxInt /\ m - 1 \in 0 .. m
  <1>1. PICK b \in Nat, i \in Nat :
          b = kBlockSize /\ i = MaxInt /\ 65536 <= b /\ 65536 <= i
    <2>1. kBlockSize \in Nat /\ MaxInt \in Nat /\ 65536 <= kBlockSize /\ 65536 <= MaxInt
      BY SMT DEF kBlockSize, MaxInt
    <2>. QED BY <2>1, SMT
  <1>2. 131072 <= 2 * b /\ 65535 <= b - 1
    BY <1>1, SMT
  <1>3. /\ m <= 65536 => m \in 0 .. b
        /\ 4 <= m /\ m <= 65536 => m \in 4 .. b
        /\ m <= 65535 => m \in 0 .. b - 1
        /\ 1 <= m /\ m <= 65535 => m \in 1 .. b - 1
        /\ 1 <= m /\ m <= 65536 => m \in 1 .. i /\ m - 1 \in 0 .. m
        /\ m <= 131072 => m \in 0 .. 2 * b
    BY <1>1, <1>2, SMT
  <1>4. /\ m <= 65536 => m \in 0 .. kBlockSize
        /\ 4 <= m /\ m <= 65536 => m \in 4 .. kBlockSize
        /\ m <= 65535 => m \in 0 .. kBlockSize - 1
        /\ 1 <= m /\ m <= 65535 => m \in 1 .. kBlockSize - 1
        /\ 1 <= m /\ m <= 65536 => m \in 1 .. MaxInt /\ m - 1 \in 0 .. m
        /\ m <= 131072 => m \in 0 .. 2 * kBlockSize
    BY <1>1, <1>3, SMT
  <1>. QED BY <1>4, SMT DEF Places

\* A literal of n bytes is begun.
LEMMA StartLiteralInv ==
  ASSUME NEW n \in Nat, 1 <= n, n <= 65536, StartLiteral(n)
  PROVE  EmitInv' /\ call' = "literal" /\ total' = n /\ emit' = "emitting"
  <1>1. /\ call' = "literal" /\ total' = n /\ left' = n - 1 /\ op' = << >> /\ emit' = "emitting"
    BY DEF StartLiteral
  <1>2. total' \in 1 .. MaxInt /\ left' \in 0 .. total'
    BY <1>1, InRange
  <1>3. << >> \in Seq(Byte) /\ Len(<< >>) = 0
    OBVIOUS
  <1>4. EmitTypeOK'
    BY <1>1, <1>2, <1>3 DEF EmitTypeOK
  <1>5. CopiesShrink' /\ LiteralIsReadBack'
    BY <1>1 DEF CopiesShrink, LiteralIsReadBack
  <1>6. LiteralInv'
    BY <1>1 DEF LiteralInv
  <1>7. RoomInv'
    BY <1>1, <1>3 DEF RoomInv
  <1>. QED BY <1>1, <1>4, <1>5, <1>6, <1>7 DEF EmitInv

\* A copy of n bytes is begun.
LEMMA StartCopyInv ==
  ASSUME NEW n \in Nat, 4 <= n, n <= 65536, NEW off \in Nat, 1 <= off, off <= 65535, StartCopy(off, n)
  PROVE  EmitInv' /\ call' = "copy" /\ total' = n /\ offset' = off /\ left' = n /\ op' = << >>
  <1>1. /\ call' = "copy" /\ total' = n /\ left' = n /\ op' = << >> /\ emit' = "emitting"
        /\ offset' = off
    BY DEF StartCopy
  <1>2. n \in 4 .. kBlockSize /\ n \in 0 .. kBlockSize /\ off \in 1 .. kBlockSize - 1
    BY InRange
  <1>3. << >> \in Seq(Byte) /\ Len(<< >>) = 0
    OBVIOUS
  <1>4. EmitTypeOK'
    BY <1>1, <1>2, <1>3 DEF EmitTypeOK
  <1>5. CopiesShrink'
    BY <1>1, <1>3 DEF CopiesShrink
  <1>6. LiteralIsReadBack' /\ LiteralInv'
    BY <1>1 DEF LiteralIsReadBack, LiteralInv
  <1>7. RoomInv'
    BY <1>1, <1>3 DEF RoomInv
  <1>. QED BY <1>1, <1>4, <1>5, <1>6, <1>7 DEF EmitInv

\* Nothing is emitted.
LEMMA EmitKept ==
  ASSUME EmitInv, UNCHANGED emitVars
  PROVE  EmitInv' /\ call' = call /\ total' = total /\ offset' = offset /\ left' = left
         /\ op' = op /\ emit' = emit
  <1>1. EmitInv'
    BY EmitNextInv
  <1>. QED BY <1>1 DEF emitVars

----------------------------------------------------------------------------
(* FindMatchLength *)

\* Are the n bytes from a the same as those from b, and does the match end there?
SameFrom(a, b, n) == n \in Nat /\ b + n <= size /\ \A j \in 0 .. n - 1 : At(b + j) = At(a + j)
IsMatch(a, b, n)  == SameFrom(a, b, n) /\ (b + n < size => At(b + n) # At(a + n))

\* Bytes in words of four and of eight.
LEMMA InWords ==
  ASSUME NEW k \in {4, 8}, NEW m \in Nat
  PROVE  /\ k * m \in Nat /\ m <= k * m /\ (m # 0 => k * m = k * (m - 1) + k /\ k * (m - 1) \in Nat)
         /\ \A j \in 0 .. k * m - 1 :
              /\ j \div k \in Nat /\ j \div k < m /\ j % k \in 0 .. k - 1 /\ k * (j \div k) \in Nat
              /\ j = k * (j \div k) + (j % k)
  <1>1. CASE k = 4
    BY <1>1, SMT
  <1>2. CASE k = 8
    BY <1>2, SMT
  <1>. QED BY <1>1, <1>2

\* The whole words are the same, and the next one is not or does not fit.
LEMMA WordsMatch ==
  ASSUME Numbers, NEW k \in {4, 8}, NEW a \in Nat, NEW b \in Nat, b <= size
  PROVE  /\ SameFrom(a, b, MatchedWords(a, b, k))
         /\ \/ b + MatchedWords(a, b, k) + k > size
            \/ Bytes(b + MatchedWords(a, b, k), k) # Bytes(a + MatchedWords(a, b, k), k)
  <1> DEFINE Ends(m) == \/ b + k * m + k > size
                        \/ Bytes(b + k * m, k) # Bytes(a + k * m, k)
             S == {m \in 0 .. size : Ends(m)}
             l == Min(S)
             w == k * l
  <1>0. size \in Nat /\ k \in Nat /\ k >= 4
    BY DEF Numbers
  <1>1. size \in S
    <2>1. k * size \in Nat /\ size <= k * size
      BY <1>0, InWords
    <2>2. b + k * size + k > size /\ size \in 0 .. size
      BY <1>0, <2>1
    <2>. QED BY <2>2, Zenon
  <1>2. l \in S /\ \A m \in S : l <= m
    <2>1. S \in SUBSET Nat
      <3>1. S \subseteq 0 .. size
        BY Zenon
      <3> HIDE DEF S
      <3>. QED BY <1>0, <3>1
    <2> HIDE DEF S
    <2>2. S # {}
      BY <1>1, Zenon
    <2>. QED BY <2>1, <2>2, MinIs, Zenon
  <1>3. MatchedWords(a, b, k) = w
    BY Zenon DEF MatchedWords
  <1>4. l \in Nat /\ l <= size /\ Ends(l)
    <2>1. l \in 0 .. size /\ Ends(l)
      <3> HIDE DEF l, Ends
      <3>. QED BY <1>2
    <2>. QED BY <1>0, <2>1
  <1>5. \A m \in Nat : m < l => ~Ends(m)
    <2> SUFFICES ASSUME NEW m \in Nat, m < l, Ends(m) PROVE FALSE
      BY Zenon
    <2>1. m \in 0 .. size
      BY <1>0, <1>4
    <2>2. m \in S
      BY <2>1, Zenon
    <2> HIDE DEF S, Ends
    <2>3. l <= m
      BY <1>2, <2>2, Zenon
    <2> HIDE DEF l
    <2>. QED BY <1>4, <2>3
  <1> HIDE DEF l, S
  <1>6. w \in Nat /\ b + w <= size
    <2>1. w \in Nat /\ (l # 0 => w = k * (l - 1) + k /\ k * (l - 1) \in Nat)
      BY <1>4, InWords
    <2>2. CASE l = 0
      <3>1. w = 0
        BY <1>0, <2>2
      <3>. QED BY <1>0, <3>1
    <2>3. CASE l # 0
      <3>1. l - 1 \in Nat /\ l - 1 < l
        BY <1>4, <2>3
      <3>2. ~(b + k * (l - 1) + k > size)
        BY <1>5, <3>1, Zenon
      <3> HIDE DEF w
      <3>. QED BY <1>0, <2>1, <2>3, <3>2
    <2>. QED BY <2>2, <2>3
  <1>7. \A j \in 0 .. w - 1 : At(b + j) = At(a + j)
    <2> TAKE j \in 0 .. w - 1
    <2>1. PICK m \in Nat, r \in 0 .. k - 1 : m < l /\ k * m \in Nat /\ j = k * m + r
      <3>1. /\ j \div k \in Nat /\ j \div k < l /\ j % k \in 0 .. k - 1 /\ k * (j \div k) \in Nat
            /\ j = k * (j \div k) + (j % k)
        BY <1>4, InWords, Zenon
      <3>. QED BY <3>1, Zenon
    <2>2. Bytes(b + k * m, k) = Bytes(a + k * m, k)
      BY <1>5, <2>1, Zenon
    <2>3. r + 1 \in 1 .. k
      BY <1>0
    <2>4. /\ Bytes(b + k * m, k)[r + 1] = At(b + k * m + (r + 1) - 1)
          /\ Bytes(a + k * m, k)[r + 1] = At(a + k * m + (r + 1) - 1)
      BY <2>3, Zenon DEF Bytes
    <2>5. b + k * m + (r + 1) - 1 = b + j /\ a + k * m + (r + 1) - 1 = a + j
      BY <1>0, <2>1
    <2>. QED BY <2>2, <2>4, <2>5, Zenon
  <1>8. SameFrom(a, b, w)
    BY <1>6, <1>7, Zenon DEF SameFrom
  <1>. QED BY <1>3, <1>4, <1>8, Zenon

\* The first byte that differs, found by way of the first bit that differs.
LEMMA FirstDifference ==
  ASSUME Numbers, BlockInv, pc \in InBlock, NEW k \in {4, 8}, NEW a \in Nat, NEW b \in Nat,
         a < b, b + k <= size, Bytes(b, k) # Bytes(a, k), NEW x, x = Differing(a, b, k),
         NEW d, d = IF k = 8 THEN FindLSBSetNonZero64(x) ELSE FindLSBSetNonZero(x)
  PROVE  d \div 8 \in 0 .. k - 1 /\ IsMatch(a, b, d \div 8)
  <1>0. size \in Nat /\ k \in Nat /\ k >= 4
    BY DEF Numbers
  <1>1. \A i \in 0 .. k - 1 : At(a + i) \in Byte /\ At(b + i) \in Byte
    <2> TAKE i \in 0 .. k - 1
    <2>1. a + i \in Nat /\ a + i < size /\ b + i \in Nat /\ b + i < size
      BY <1>0
    <2>. QED BY <2>1, BlockByte
  \* The bit of place t of byte i is bit 8 i + t of the word.
  <1>2. ASSUME NEW i \in 0 .. k - 1, NEW t \in 0 .. 7
        PROVE  8 * i + t \in x <=> (At(a + i) \div 2 ^ t) % 2 # (At(b + i) \div 2 ^ t) % 2
    <2>1. 8 * i + t \in 0 .. 8 * k - 1 /\ (8 * i + t) \div 8 = i /\ (8 * i + t) % 8 = t
      BY <1>0, SMT
    <2>2. 8 * i + t \in x <=>
            (At(a + (8 * i + t) \div 8) \div 2 ^ ((8 * i + t) % 8)) % 2
              # (At(b + (8 * i + t) \div 8) \div 2 ^ ((8 * i + t) % 8)) % 2
      BY <2>1, Zenon DEF Differing
    <2>. QED BY <2>1, <2>2, Zenon
  <1>3. x \subseteq 0 .. 8 * k - 1
    BY Zenon DEF Differing
  \* Bytes that differ have a bit that does.
  <1>4. x # {}
    <2> SUFFICES ASSUME x = {} PROVE FALSE
      OBVIOUS
    <2>1. \A i \in 0 .. k - 1 : At(a + i) = At(b + i)
      <3> TAKE i \in 0 .. k - 1
      <3>1. \A t \in 0 .. 7 : (At(a + i) \div 2 ^ t) % 2 = (At(b + i) \div 2 ^ t) % 2
        BY <1>2, Zenon
      <3>. QED BY <1>1, <3>1, SameByte, Zenon
    <2>2. \A j \in 1 .. k : At(b + j - 1) = At(a + j - 1)
      <3> TAKE j \in 1 .. k
      <3>1. j - 1 \in 0 .. k - 1 /\ b + (j - 1) = b + j - 1 /\ a + (j - 1) = a + j - 1
        BY <1>0
      <3>. QED BY <2>1, <3>1
    <2>3. Bytes(b, k) = Bytes(a, k)
      BY <2>2, Zenon DEF Bytes
    <2>. QED BY <2>3
  <1>5. PICK m \in x : \A c \in x : m <= c
    <2>1. x \in SUBSET Nat
      BY <1>0, <1>3
    <2>. QED BY <1>4, <2>1, LeastNumber, Zenon
  <1>6. Lowest(x, m)
    BY <1>5 DEF Lowest
  <1>7. d = m
    <2>1. CASE k = 8
      <3>1. x \in SUBSET (0 .. 63)
        BY <1>3, <2>1
      <3>. QED BY <1>6, <2>1, <3>1, LowestBit64, Zenon
    <2>2. CASE k = 4
      <3>1. x \in SUBSET (0 .. 31) /\ k # 8
        BY <1>3, <2>2
      <3>. QED BY <1>6, <3>1, LowestBit, Zenon
    <2>. QED BY <2>1, <2>2
  <1>8. PICK i \in 0 .. k - 1, t \in 0 .. 7 : m = 8 * i + t /\ i = m \div 8
    <2>1. m \in 0 .. 8 * k - 1
      BY <1>3, <1>5
    <2>2. m \div 8 \in 0 .. k - 1 /\ m % 8 \in 0 .. 7 /\ m = 8 * (m \div 8) + (m % 8)
      BY <1>0, <2>1, SMT
    <2>. QED BY <2>2
  <1>9. At(b + i) # At(a + i)
    BY <1>2, <1>5, <1>8, Zenon
  <1>10. \A j \in 0 .. i - 1 : At(b + j) = At(a + j)
    <2> TAKE j \in 0 .. i - 1
    <2>1. j \in 0 .. k - 1
      BY <1>0
    <2>2. \A u \in 0 .. 7 : (At(a + j) \div 2 ^ u) % 2 = (At(b + j) \div 2 ^ u) % 2
      <3> TAKE u \in 0 .. 7
      <3>1. 8 * j + u < m
        BY <1>8
      <3>2. 8 * j + u \notin x
        <4>1. m \in Nat /\ 8 * j + u \in Nat
          BY <1>8
        <4>. QED BY <1>5, <3>1, <4>1
      <3>. QED BY <1>2, <2>1, <3>2, Zenon
    <2>. QED BY <1>1, <2>1, <2>2, SameByte, Zenon
  <1>11. i \in Nat /\ b + i <= size /\ i = d \div 8
    BY <1>0, <1>7, <1>8
  <1>12. SameFrom(a, b, i)
    BY <1>10, <1>11, Zenon DEF SameFrom
  <1>. QED BY <1>9, <1>11, <1>12, Zenon DEF IsMatch

\* The byte loop finds the end of the match.
LEMMA BytesMatch ==
  ASSUME Numbers, NEW a \in Nat, NEW b \in Nat, NEW n, SameFrom(a, b, n)
  PROVE  IsMatch(a, b, MatchedBytes(a, b, n))
  <1> DEFINE Ends(m) == b + m >= size \/ At(b + m) # At(a + m)
             S == {m \in n .. n + size : Ends(m)}
             l == Min(S)
  <1>0. size \in Nat /\ n \in Nat /\ b + n <= size /\ \A j \in 0 .. n - 1 : At(b + j) = At(a + j)
    BY DEF Numbers, SameFrom
  <1>1. size - b \in S
    <2>1. size - b \in n .. n + size /\ b + (size - b) >= size
      BY <1>0
    <2>. QED BY <2>1, Zenon
  <1>2. l \in S /\ \A m \in S : l <= m
    <2>1. S \in SUBSET Nat /\ S # {}
      BY <1>0, <1>1
    <2> HIDE DEF S
    <2>. QED BY <2>1, MinIs, Zenon
  <1>3. MatchedBytes(a, b, n) = l
    BY Zenon DEF MatchedBytes
  <1>4. l \in n .. n + size /\ Ends(l) /\ l <= size - b
    <2> HIDE DEF l, Ends
    <2>. QED BY <1>1, <1>2, Zenon
  <1>5. \A m \in n .. n + size : m < l => ~Ends(m)
    <2> SUFFICES ASSUME NEW m \in n .. n + size, m < l, Ends(m) PROVE FALSE
      BY Zenon
    <2>1. m \in S
      BY Zenon
    <2> HIDE DEF S, Ends
    <2>2. l <= m
      BY <1>2, <2>1, Zenon
    <2> HIDE DEF l
    <2>. QED BY <1>0, <1>4, <2>2
  <1> HIDE DEF l, S
  <1>6. l \in Nat /\ b + l <= size
    BY <1>0, <1>4
  <1>7. \A j \in 0 .. l - 1 : At(b + j) = At(a + j)
    <2> TAKE j \in 0 .. l - 1
    <2>1. CASE j < n
      BY <1>0, <2>1
    <2>2. CASE ~(j < n)
      <3>1. j \in n .. n + size /\ j < l
        BY <1>0, <1>4, <2>2
      <3>. QED BY <1>5, <3>1, Zenon
    <2>. QED BY <2>1, <2>2
  <1>8. b + l < size => At(b + l) # At(a + l)
    BY <1>0, <1>4, <1>6
  <1>9. SameFrom(a, b, l)
    BY <1>6, <1>7, Zenon DEF SameFrom
  <1>. QED BY <1>3, <1>8, <1>9, Zenon DEF IsMatch

\* A match after n bytes that are the same.
LEMMA MatchAfter ==
  ASSUME Numbers, NEW a \in Nat, NEW b \in Nat, NEW n, SameFrom(a, b, n), NEW l, IsMatch(a + n, b + n, l)
  PROVE  IsMatch(a, b, n + l)
  <1>0. size \in Nat /\ n \in Nat /\ b + n <= size /\ \A j \in 0 .. n - 1 : At(b + j) = At(a + j)
    BY DEF Numbers, SameFrom
  <1>1. /\ l \in Nat /\ b + n + l <= size /\ \A j \in 0 .. l - 1 : At(b + n + j) = At(a + n + j)
        /\ b + n + l < size => At(b + n + l) # At(a + n + l)
    BY Zenon DEF IsMatch, SameFrom
  <1>2. n + l \in Nat /\ b + (n + l) = b + n + l /\ a + (n + l) = a + n + l
    BY <1>0, <1>1
  <1>3. \A j \in 0 .. (n + l) - 1 : At(b + j) = At(a + j)
    <2> TAKE j \in 0 .. (n + l) - 1
    <2>1. CASE j < n
      BY <1>0, <2>1
    <2>2. CASE ~(j < n)
      <3>1. j - n \in 0 .. l - 1 /\ b + n + (j - n) = b + j /\ a + n + (j - n) = a + j
        BY <1>0, <1>1, <2>2
      <3>. QED BY <1>1, <3>1
    <2>. QED BY <2>1, <2>2
  <1>4. SameFrom(a, b, n + l)
    BY <1>1, <1>2, <1>3, Zenon DEF SameFrom
  <1>. QED BY <1>1, <1>2, <1>4, Zenon DEF IsMatch

\* FindMatchLength finds the longest match, on every kind of machine.
LEMMA FindMatchLengthIs ==
  ASSUME Numbers, BlockInv, pc \in InBlock, NEW a \in Nat, NEW b \in Nat, a < b, b <= size,
         NEW n, n = MatchedWords(a, b, WordSize), NEW x, x = Differing(a + n, b + n, WordSize)
  PROVE  IsMatch(a, b, FindMatchLength(a, b, WordSize, n, x))
  <1> DEFINE k == WordSize
             d == IF k = 8 THEN FindLSBSetNonZero64(x) ELSE FindLSBSetNonZero(x)
  <1>1. k \in {4, 8}
    BY DEF WordSize
  <1> HIDE DEF k
  <1>2. SameFrom(a, b, n) /\ (b + n + k > size \/ Bytes(b + n, k) # Bytes(a + n, k))
    BY <1>1, WordsMatch, Zenon DEF k
  <1>3. n \in Nat /\ size \in Nat
    BY <1>2 DEF SameFrom, Numbers
  <1>4. CASE arch # "be" /\ WordFits(b, n, k)
    <2>1. a + n \in Nat /\ b + n \in Nat /\ a + n < b + n /\ (b + n) + k <= size
      BY <1>1, <1>3, <1>4 DEF WordFits
    <2>2. Bytes(b + n, k) # Bytes(a + n, k)
      BY <1>1, <1>2, <1>3, <2>1
    <2>3. x = Differing(a + n, b + n, k)
      BY DEF k
    <2>4. IsMatch(a + n, b + n, d \div 8)
      BY <1>1, <2>1, <2>2, <2>3, FirstDifference, Zenon
    <2>5. FindMatchLength(a, b, WordSize, n, x) = n + d \div 8
      BY <1>4, Zenon DEF FindMatchLength, k
    <2> HIDE DEF d
    <2>. QED BY <1>2, <2>4, <2>5, MatchAfter, Zenon
  <1>5. CASE ~(arch # "be" /\ WordFits(b, n, k))
    <2>1. FindMatchLength(a, b, WordSize, n, x) = MatchedBytes(a, b, n)
      BY <1>5, Zenon DEF FindMatchLength, k
    <2>. QED BY <1>2, <2>1, BytesMatch, Zenon
  <1>. QED BY <1>4, <1>5

----------------------------------------------------------------------------
(* Tables and buffers that change *)

\* Table t with v as its entry h.
Put(t, h, v) == [t EXCEPT ![h] = v]

\* One entry of the table in use changes.
LEMMA EntryPut ==
  ASSUME NEW T, NEW V, NEW t \in [T -> V], NEW h \in T, NEW v \in V
  PROVE  Put(t, h, v) \in [T -> V] /\ \A k \in T : Put(t, h, v)[k] = IF k = h THEN v ELSE t[k]
  BY DEF Put

\* The domain of the table in use.
Entries == IF which = "small" THEN 0 .. SmallTable - 1 ELSE 0 .. MaxTable - 1

\* The table in use is a function of its entries to places.
LEMMA InUseTyped ==
  ASSUME TypeOK, TableInv, Numbers, pc \in Compressing
  PROVE  /\ table[which] \in [Entries -> 0 .. kBlockSize - 1]
         /\ \A h \in 0 .. TableSizeNow - 1 : h \in Entries
  <1>1. table \in TableType /\ which \in {"small", "large"}
    BY Zenon DEF TypeOK, TableType
  <1>2. table[which] \in [Entries -> 0 .. kBlockSize - 1]
    <2> DEFINE B == 0 .. kBlockSize - 1
    <2>1. table \in [small : [0 .. SmallTable - 1 -> B], large : [0 .. MaxTable - 1 -> B]]
      BY <1>1 DEF TableType
    <2> HIDE DEF B
    <2>2. table.small \in [0 .. SmallTable - 1 -> B] /\ table.large \in [0 .. MaxTable - 1 -> B]
      BY <2>1
    <2>3. table[which] \in [Entries -> B]
      BY <1>1, <2>2 DEF Entries
    <2>. QED BY <2>3 DEF B
  <1>3. \A h \in 0 .. TableSizeNow - 1 : h \in DOMAIN table[which]
    BY TableInUse
  <1>4. DOMAIN table[which] = Entries
    BY <1>2, Zenon
  <1>. QED BY <1>2, <1>3, <1>4, Zenon

\* A new value for the table in use.
LEMMA TableWith ==
  ASSUME TypeOK, NEW t \in [Entries -> 0 .. kBlockSize - 1]
  PROVE  /\ [table EXCEPT ![which] = t] \in TableType
         /\ [table EXCEPT ![which] = t][which] = t
  <1> DEFINE B == 0 .. kBlockSize - 1
  <1>1. table \in [small : [0 .. SmallTable - 1 -> B], large : [0 .. MaxTable - 1 -> B]]
    BY Zenon DEF TypeOK
  <1>2. which \in {"small", "large"}
    BY Zenon DEF TypeOK
  <1>3. t \in [Entries -> B]
    BY DEF B
  <1> HIDE DEF B
  <1>4. CASE which = "small"
    <2>1. t \in [0 .. SmallTable - 1 -> B]
      BY <1>3, <1>4 DEF Entries
    <2>2. /\ [table EXCEPT ![which] = t]
               \in [small : [0 .. SmallTable - 1 -> B], large : [0 .. MaxTable - 1 -> B]]
          /\ [table EXCEPT ![which] = t][which] = t
      BY <1>1, <1>4, <2>1
    <2>. QED BY <2>2, Zenon DEF B, TableType
  <1>5. CASE which = "large"
    <2>1. t \in [0 .. MaxTable - 1 -> B]
      BY <1>3, <1>5 DEF Entries
    <2>2. /\ [table EXCEPT ![which] = t]
               \in [small : [0 .. SmallTable - 1 -> B], large : [0 .. MaxTable - 1 -> B]]
          /\ [table EXCEPT ![which] = t][which] = t
      BY <1>1, <1>5, <2>1
    <2>. QED BY <2>2, Zenon DEF B, TableType
  <1>. QED BY <1>2, <1>4, <1>5

\* What is stored in a buffer.
LEMMA StoredIs ==
  ASSUME NEW S, NEW b \in Seq(S), NEW s \in Seq(S), NEW n \in Nat
  PROVE  /\ Stored(b, n, s) \in Seq(S) /\ Len(Stored(b, n, s)) = Len(b)
         /\ \A k \in 1 .. Len(b) :
              Stored(b, n, s)[k] = IF n < k /\ k <= n + Len(s) THEN s[k - n] ELSE b[k]
  <1>1. \A k \in 1 .. Len(b) : b[k] \in S
    OBVIOUS
  <1>2. \A k \in 1 .. Len(b) : k \in n + 1 .. n + Len(s) => s[k - n] \in S
    OBVIOUS
  <1>3. DOMAIN b = 1 .. Len(b) /\ Len(b) \in Nat /\ Len(s) \in Nat
    OBVIOUS
  <1> DEFINE f == [k \in 1 .. Len(b) |-> IF k \in n + 1 .. n + Len(s) THEN s[k - n] ELSE b[k]]
  <1>4. Stored(b, n, s) = f
    BY <1>3 DEF Stored
  <1>5. f \in [1 .. Len(b) -> S]
    BY <1>1, <1>2
  <1>6. f \in Seq(S) /\ Len(f) = Len(b)
    <2> HIDE DEF f
    <2>. QED BY <1>3, <1>5
  <1>7. \A k \in 1 .. Len(b) : f[k] = IF n < k /\ k <= n + Len(s) THEN s[k - n] ELSE b[k]
    BY <1>3
  <1>. QED BY <1>4, <1>6, <1>7

\* The larger and the smaller of two.
LEMMA Larger ==
  ASSUME NEW a \in Nat, NEW b \in Nat
  PROVE  /\ LargerOf(a, b) \in Nat /\ a <= LargerOf(a, b) /\ b <= LargerOf(a, b)
         /\ (LargerOf(a, b) = a \/ LargerOf(a, b) = b)
         /\ SmallerOf(a, b) \in Nat /\ SmallerOf(a, b) <= a /\ SmallerOf(a, b) <= b
         /\ (SmallerOf(a, b) = a \/ SmallerOf(a, b) = b)
  BY DEF LargerOf, SmallerOf

----------------------------------------------------------------------------
(* The output *)

\* What was written of the elements of earlier blocks.
Body == SubSeq(sink, Len(Header) + 1, Len(sink))

\* The length is written in one to five bytes.
LEMMA HeaderIs ==
  ASSUME TypeOK
  PROVE  /\ Header \in Seq(Byte) /\ Len(Header) \in Nat /\ Len(Header) <= 5
         /\ Len(text) \in 0 .. Word - 1 /\ Len(text) \in Nat
  <1>1. text \in Texts
    BY Zenon DEF TypeOK
  <1>2. text \in Seq(Byte) /\ Len(text) \div Base4 < Top
    BY <1>1, CompressAssumption, Zenon
  <1>3. Code
    BY CodeSizes
  <1>4. Base4 = 268435456 /\ Word = 268435456 * 16 /\ Top = 16
    BY <1>3, CodeConstants DEF Code
  <1>5. Len(text) \in Nat
    BY <1>2, LenProperties, Zenon
  <1>6. Len(text) \in 0 .. Word - 1
    <2>1. PICK n \in Nat : n = Len(text)
      BY <1>5, Zenon
    <2>2. n \div 268435456 < 16
      BY <1>2, <1>4, <2>1
    <2>3. n < 268435456 * 16
      BY <2>2, SMT
    <2>4. PICK w \in Nat : w = Word /\ n < w
      BY <1>4, <2>3, SMT
    <2>5. n \in 0 .. w - 1
      BY <2>4
    <2>. QED BY <2>1, <2>4, <2>5, Zenon
  <1>7. IsEncoded(Header, EncodedLength(Len(text)), Len(text))
    BY <1>3, <1>6, EncodedBytes, Zenon DEF Header
  <1>8. LengthByte = Byte
    BY <1>3, CodeByte DEF Byte
  <1>. QED BY <1>5, <1>6, <1>7, <1>8 DEF IsEncoded

\* What was written is the length and the body.
LEMMA BodyIs ==
  ASSUME TypeOK, Numbers, OutputInv, pc \notin {"called", "refused"}
  PROVE  /\ Body \in Seq(Byte) /\ sink = Header \o Body
         /\ StandsFor(Body \o Output, SubSeq(text, 1, Earlier + Covered))
  <1>1. Header \in Seq(Byte) /\ Len(Header) \in Nat
    BY HeaderIs
  <1>2. sink \in Seq(Byte)
    BY DEF Numbers
  <1>3. Body \in Seq(Byte)
    BY <1>1, <1>2 DEF Body
  <1>4. /\ sink = Header \o Body
        /\ StandsFor(Body \o Output, SubSeq(text, 1, Earlier + Covered))
    BY Zenon DEF OutputInv, Body
  <1>. QED BY <1>3, <1>4

\* A step of CompressFragment that keeps what the output stands for.
LEMMA OutputStep ==
  ASSUME InFragment, OutputInv, pc \notin {"called", "refused"},
         StandsFor(Body \o Output', SubSeq(text, 1, Earlier + Covered'))
  PROVE  OutputInv'
  <1>1. text' = text /\ sink' = sink /\ Header' = Header /\ Earlier' = Earlier
    BY FragmentKeeps
  <1>2. sink = Header \o Body
    BY Zenon DEF OutputInv, Body
  <1>3. \E body \in {SubSeq(sink', Len(Header') + 1, Len(sink'))} :
          /\ sink' = Header' \o body
          /\ StandsFor(body \o Output', SubSeq(text', 1, Earlier' + Covered'))
    BY <1>1, <1>2, Zenon DEF Body
  <1>. QED BY <1>3, Zenon DEF OutputInv

\* The same output for the same bytes.
LEMMA OutputSame ==
  ASSUME TypeOK, Numbers, InFragment, OutputInv, Output' = Output, Covered' = Covered
  PROVE  OutputInv'
  <1>1. pc \notin {"called", "refused"}
    BY DEF InFragment, Compressing
  <1>2. StandsFor(Body \o Output, SubSeq(text, 1, Earlier + Covered))
    BY <1>1, BodyIs
  <1>. QED BY <1>1, <1>2, OutputStep

\* Outputs that are put together.
LEMMA Joined ==
  ASSUME NEW S, NEW a \in Seq(S), NEW b \in Seq(S)
  PROVE  a \o b \in Seq(S) /\ Len(a \o b) = Len(a) + Len(b)
  OBVIOUS

\* Is d what a, b and c are together, so that h and d are h and a, then b and c?
Joins(d, h, a, b, c) ==
  /\ d \in Seq(Byte) /\ Len(d) = Len(a) + Len(b) + Len(c)
  /\ h \o a \in Seq(Byte) /\ h \o d = (h \o a) \o (b \o c)

\* Three sequences put together after another one.
LEMMA JoinedThree ==
  ASSUME NEW h \in Seq(Byte), NEW a \in Seq(Byte), NEW b \in Seq(Byte), NEW c \in Seq(Byte)
  PROVE  Joins(a \o b \o c, h, a, b, c)
  <1>1. a \o b \o c \in Seq(Byte) /\ Len(a \o b \o c) = Len(a) + Len(b) + Len(c)
    OBVIOUS
  <1>2. h \o (a \o b \o c) = (h \o a) \o (b \o c)
    <2>1. a \o b \o c = a \o (b \o c)
      OBVIOUS
    <2>2. ASSUME NEW x \in Seq(Byte)
          PROVE  h \o (a \o x) = (h \o a) \o x
      OBVIOUS
    <2>3. b \o c \in Seq(Byte)
      OBVIOUS
    <2>. QED BY <2>1, <2>2, <2>3
  <1>. QED BY <1>1, <1>2 DEF Joins

\* In a step of CompressFragment these are what may change the size of the output.
LEMMA SizeStep ==
  ASSUME InFragment, SizeInv,
         pc' \in {"scan", "literal", "rest", "last"} => 60 * Len(dest') <= 61 * nextEmit',
         pc' = "match" => 60 * Len(dest') <= 61 * ip' + 60,
         pc' = "copy" => 60 * Len(dest') <= 61 * (ip' - total') + 60,
         pc' = "append" => 60 * Len(dest') <= 61 * size + 60,
         high' <= Len(dest') + 15
  PROVE  SizeInv'
  <1>1. size' = size /\ sink' = sink /\ Earlier' = Earlier /\ N' = N
    BY FragmentKeeps
  <1>2. 60 * Len(sink) <= 300 + 70 * Earlier + (IF N = 0 THEN 60 ELSE 0)
    BY Zenon DEF SizeInv
  <1>3. 60 * Len(sink') <= 300 + 70 * Earlier' + (IF N' = 0 THEN 60 ELSE 0)
    BY <1>1, <1>2, Zenon
  <1>4. pc' = "append" => 60 * Len(dest') <= 61 * size' + 60
    BY <1>1, Zenon
  <1>. QED BY <1>3, <1>4, Zenon DEF SizeInv

\* The conjuncts of the invariant after a step of CompressFragment.
LEMMA FragmentStep ==
  ASSUME CompressInv, InFragment, EmitInv',
         ip' \in Places, nextEmit' \in Places, candidate' \in Places,
         nextIp' \in 0 .. 2 * kBlockSize, skip' \in Nat, loaded' \in Nat,
         nextHash' \in 0 .. MaxTable - 1, dest' \in Seq(Byte), high' \in Nat, table' \in TableType,
         PlaceInv', CallInv', MatchIsLongest', SizeInv', OutputInv'
  PROVE  CompressInv'
  <1>1. TypeOK /\ BlockInv /\ BuffersInv /\ TableInv
    BY Zenon DEF CompressInv
  <1>2. TypeOK'
    BY <1>1, FragmentTypes
  <1>3. BlockInv' /\ BuffersInv' /\ TableInv'
    BY <1>1, FragmentInv
  <1>. QED BY <1>2, <1>3, Zenon DEF CompressInv

\* The conjuncts of the invariant, and the numbers in a state.
LEMMA Parts ==
  ASSUME CompressInv
  PROVE  /\ TypeOK /\ EmitInv /\ BlockInv /\ BuffersInv /\ TableInv /\ PlaceInv /\ CallInv
         /\ MatchIsLongest /\ SizeInv /\ OutputInv /\ Numbers
  <1>1. /\ TypeOK /\ EmitInv /\ BlockInv /\ BuffersInv /\ TableInv /\ PlaceInv /\ CallInv
        /\ MatchIsLongest /\ SizeInv /\ OutputInv
    BY Zenon DEF CompressInv
  <1>. QED BY <1>1, TypesAreNumbers

\* What the output is at each step.
LEMMA OutputAt ==
  /\ pc \in {"scan", "literal", "rest", "last"} => Output = dest /\ Covered = nextEmit
  /\ pc = "match" => Output = dest /\ Covered = ip
  /\ pc = "copy" => Output = dest \o op /\ Covered = ip - left
  /\ pc = "append" => Output = dest /\ Covered = size
  /\ pc \in {"called", "block", "fill", "table", "done", "refused"} => Output = << >> /\ Covered = 0
  BY DEF Output, Covered, Compressing

\* The same after a step.
LEMMA OutputAfter ==
  /\ pc' \in {"scan", "literal", "rest", "last"} => Output' = dest' /\ Covered' = nextEmit'
  /\ pc' = "match" => Output' = dest' /\ Covered' = ip'
  /\ pc' = "copy" => Output' = dest' \o op' /\ Covered' = ip' - left'
  /\ pc' = "append" => Output' = dest' /\ Covered' = size'
  /\ pc' \in {"called", "block", "fill", "table", "done", "refused"} => Output' = << >> /\ Covered' = 0
  BY DEF Output, Covered, Compressing

\* After the matches: a literal for the rest of the block, if there is one.
LEMMA EmitRestInv ==
  ASSUME CompressInv, EmitRest, UNCHANGED call_
  PROVE  CompressInv'
  <1>1. /\ TypeOK /\ EmitInv /\ BlockInv /\ BuffersInv /\ TableInv /\ PlaceInv /\ CallInv
        /\ MatchIsLongest /\ SizeInv /\ OutputInv /\ Numbers
    BY Parts
  <1>2. /\ pc = "rest" /\ pc' \in {"last", "append"}
        /\ UNCHANGED <<blocks, hashing, room, sink>>
        /\ table' = table /\ ip' = ip /\ nextIp' = nextIp /\ nextHash' = nextHash /\ skip' = skip
        /\ candidate' = candidate /\ nextEmit' = nextEmit /\ loaded' = loaded
        /\ dest' = dest /\ high' = high
        /\ IF nextEmit < size THEN StartLiteral(size - nextEmit) /\ pc' = "last"
                              ELSE pc' = "append" /\ UNCHANGED emitVars
    BY DEF EmitRest, looking, written
  <1>3. InFragment
    BY <1>2 DEF InFragment, Compressing
  <1>4. size' = size
    BY <1>3, FragmentKeeps
  <1>5. nextEmit <= size /\ loaded <= size
    BY <1>1, <1>2 DEF PlaceInv
  <1>6. /\ size \in Nat /\ size <= 65536 /\ nextEmit \in Nat
    BY <1>1, CodeSizes DEF Numbers
  <1>7. 60 * Len(dest) <= 61 * nextEmit /\ high <= Len(dest) + 15
    BY <1>1, <1>2 DEF SizeInv, Compressing
  <1>8. EmitInv' /\ CallInv'
    <2>1. CASE nextEmit < size
      <3>1. PICK n \in Nat : n = size - nextEmit /\ 1 <= n /\ n <= 65536
        BY <1>6, <2>1
      <3>2. StartLiteral(n) /\ pc' = "last"
        BY <1>2, <2>1, <3>1
      <3>3. EmitInv' /\ call' = "literal" /\ total' = n /\ emit' = "emitting"
        BY <3>1, <3>2, StartLiteralInv
      <3>. QED BY <1>2, <1>4, <3>1, <3>2, <3>3 DEF CallInv
    <2>2. CASE ~(nextEmit < size)
      <3>1. EmitInv' /\ emit' = emit
        BY <1>1, <1>2, <2>2, EmitKept
      <3>2. emit = "returned"
        BY <1>1, <1>2 DEF CallInv
      <3>. QED BY <1>2, <2>2, <3>1, <3>2 DEF CallInv
    <2>. QED BY <2>1, <2>2
  <1>9. PlaceInv'
    BY <1>2, <1>4, <1>5 DEF PlaceInv
  <1>10. MatchIsLongest'
    BY <1>2 DEF MatchIsLongest
  <1>11. pc' = "append" => nextEmit = size
    BY <1>2, <1>5, <1>6
  <1>12. SizeInv'
    <2>1. /\ pc' = "last" => 60 * Len(dest') <= 61 * nextEmit'
          /\ pc' = "append" => 60 * Len(dest') <= 61 * size + 60
          /\ high' <= Len(dest') + 15
      BY <1>1, <1>2, <1>6, <1>7, <1>11 DEF Numbers
    <2>. QED BY <1>1, <1>2, <1>3, <2>1, SizeStep
  <1>13. OutputInv'
    <2>1. Output' = Output /\ Covered' = Covered
      BY <1>2, <1>4, <1>11, OutputAt, OutputAfter
    <2>. QED BY <1>1, <1>3, <2>1, OutputSame
  <1>14. /\ ip' \in Places /\ nextEmit' \in Places /\ candidate' \in Places
         /\ nextIp' \in 0 .. 2 * kBlockSize /\ skip' \in Nat /\ loaded' \in Nat
         /\ nextHash' \in 0 .. MaxTable - 1 /\ dest' \in Seq(Byte) /\ high' \in Nat /\ table' \in TableType
    BY <1>1, <1>2, Zenon DEF TypeOK, TableType
  <1>. QED BY <1>3, <1>8, <1>9, <1>10, <1>12, <1>13, <1>14, FragmentStep

----------------------------------------------------------------------------
(* Literals *)

\* What is true of the output d when a literal of n bytes is complete.
LiteralOut(d, n) ==
  /\ d \in Seq(Byte) /\ Len(d) = Len(dest) + Len(op) + n /\ Len(op) \in Nat
  /\ 60 * Len(d) <= 61 * (nextEmit + n) + 60
  /\ StandsFor(Body \o d, SubSeq(text, 1, Earlier + (nextEmit + n)))

\* A literal is complete: its tag and bytes stand for the next bytes of the text.
LEMMA LiteralEnds ==
  ASSUME CompressInv, emit = "returned", call = "literal", pc \in {"literal", "last"},
         NEW n \in Nat, n > 0, n <= kBlockSize, total = n, nextEmit + n <= size,
         NEW d, d = dest \o op \o Bytes(nextEmit, n)
  PROVE  LiteralOut(d, n)
  <1>1. /\ TypeOK /\ EmitInv /\ BlockInv /\ SizeInv /\ OutputInv /\ Numbers
    BY Parts
  <1>2. pc \in InBlock /\ pc \notin {"called", "refused"}
    BY DEF InBlock, Compressing
  <1>3. op # << >>
    BY <1>1 DEF EmitInv, LiteralInv
  <1>4. SaysLength(op, n)
    <2>1. LiteralIsReadBack
      BY <1>1 DEF EmitInv
    <2>. QED BY <2>1, SMT DEF LiteralIsReadBack, SaysLength, LengthByteOf
  <1>5. 60 * (Len(op) - 1) <= n
    BY <1>1, <1>3 DEF EmitInv, RoomInv
  <1>6. /\ Body \in Seq(Byte)
        /\ StandsFor(Body \o dest, SubSeq(text, 1, Earlier + nextEmit))
    BY <1>1, <1>2, BodyIs, OutputAt
  <1>7. PICK p \in Nat : p = Earlier + nextEmit /\ p + n <= Len(text)
    <2>1. Earlier \in Nat /\ Earlier + size <= Len(text)
      BY <1>1, <1>2, BlockPlace
    <2>. QED BY <1>1, <2>1 DEF Numbers
  <1>8. /\ dest \in Seq(Byte) /\ op \in Seq(Byte) /\ text \in Seq(Byte) /\ nextEmit \in Nat
        /\ Len(dest) \in Nat /\ Len(op) \in Nat
    BY <1>1 DEF Numbers
  <1>9. /\ Bytes(nextEmit, n) = SubSeq(text, p + 1, p + n)
        /\ Bytes(nextEmit, n) \in Seq(Byte) /\ Len(Bytes(nextEmit, n)) = n
    <2>1. /\ Bytes(nextEmit, n) = SubSeq(text, Earlier + nextEmit + 1, Earlier + nextEmit + n)
          /\ Bytes(nextEmit, n) \in Seq(Byte) /\ Len(Bytes(nextEmit, n)) = n
      BY <1>1, <1>2, <1>8, BlockBytes, Zenon
    <2>. QED BY <1>7, <2>1, Zenon
  <1> DEFINE v == Bytes(nextEmit, n)
  <1>10. /\ v = SubSeq(text, p + 1, p + n) /\ v \in Seq(Byte) /\ Len(v) = n
         /\ d = (dest \o op) \o v
    BY <1>9
  <1> HIDE DEF v
  <1>11. Joins(d, Body, dest, op, v)
    BY <1>6, <1>8, <1>10, JoinedThree, Zenon
  <1>12. 60 * Len(d) <= 61 * (nextEmit + n) + 60
    <2>1. 60 * Len(dest) <= 61 * nextEmit
      BY <1>1 DEF SizeInv
    <2>2. Len(d) = Len(dest) + Len(op) + n
      BY <1>10, <1>11, Zenon DEF Joins
    <2>. QED BY <1>5, <1>8, <2>1, <2>2
  <1>13. Body \o d = (Body \o dest) \o (op \o v) /\ Body \o dest \in Seq(Byte)
    BY <1>11, Zenon DEF Joins
  <1>14. StandsFor((Body \o dest) \o (op \o SubSeq(text, p + 1, p + n)), SubSeq(text, 1, p + n))
    <2> DEFINE s == Body \o dest
    <2>1. s \in Seq(Byte) /\ StandsFor(s, SubSeq(text, 1, p))
      BY <1>6, <1>7, <1>13
    <2> HIDE DEF s
    <2>2. StandsFor(s \o (op \o SubSeq(text, p + 1, p + n)), SubSeq(text, 1, p + n))
      BY <1>3, <1>4, <1>7, <1>8, <2>1, LiteralElement, Zenon
    <2>. QED BY <2>2 DEF s
  <1>15. p + n = Earlier + (nextEmit + n)
    <2>1. Earlier \in Nat
      BY <1>1, BlockPlace
    <2>. QED BY <1>7, <1>8, <2>1
  <1>16. StandsFor(Body \o d, SubSeq(text, 1, Earlier + (nextEmit + n)))
    BY <1>10, <1>13, <1>14, <1>15, Zenon
  <1>. QED BY <1>8, <1>10, <1>11, <1>12, <1>16, Zenon DEF LiteralOut, Joins

\* The rest of the block has been written.
LEMMA RestDoneInv ==
  ASSUME CompressInv, RestDone, UNCHANGED call_
  PROVE  CompressInv'
  <1>1. /\ TypeOK /\ EmitInv /\ BlockInv /\ BuffersInv /\ TableInv /\ PlaceInv /\ CallInv
        /\ MatchIsLongest /\ SizeInv /\ OutputInv /\ Numbers
    BY Parts
  <1>2. /\ pc = "last" /\ emit = "returned" /\ pc' = "append"
        /\ UNCHANGED <<emitVars, blocks, hashing, room, sink>>
        /\ table' = table /\ ip' = ip /\ nextIp' = nextIp /\ nextHash' = nextHash /\ skip' = skip
        /\ candidate' = candidate /\ nextEmit' = nextEmit
        /\ AppendLiteral(size - nextEmit, FALSE)
    BY Zenon DEF RestDone, looking
  <1>3. InFragment
    BY <1>2 DEF InFragment, Compressing
  <1>4. size' = size /\ sink' = sink
    BY <1>3, FragmentKeeps
  <1>5. nextEmit <= size /\ loaded <= size /\ call = "literal" /\ total = size - nextEmit
    BY <1>1, <1>2 DEF PlaceInv, CallInv
  <1>6. size \in Nat /\ size <= 65536 /\ nextEmit \in Nat /\ loaded \in Nat /\ high \in Nat
    BY <1>1, CodeSizes DEF Numbers
  <1>7. PICK n \in Nat : n = size - nextEmit /\ n > 0 /\ n <= kBlockSize /\ total = n /\ nextEmit + n = size
    <2>1. total \in 1 .. MaxInt
      BY <1>1, <1>5 DEF EmitInv, EmitTypeOK
    <2>2. total > 0
      <3>1. MaxInt \in Nat
        BY SMT DEF MaxInt
      <3>. QED BY <2>1, <3>1
    <2>3. kBlockSize = 65536
      BY CodeSizes
    <2>. QED BY <1>5, <1>6, <2>2, <2>3
  <1>8. /\ dest' = dest \o op \o Bytes(nextEmit, n)
        /\ high' = LargerOf(high, Len(dest) + Len(op) + n)
        /\ loaded' = LargerOf(loaded, nextEmit + n)
    BY <1>2, <1>7 DEF AppendLiteral
  <1>9. /\ dest' \in Seq(Byte) /\ Len(dest') = Len(dest) + Len(op) + n /\ Len(op) \in Nat
        /\ 60 * Len(dest') <= 61 * (nextEmit + n) + 60
        /\ StandsFor(Body \o dest', SubSeq(text, 1, Earlier + (nextEmit + n)))
    <2>1. pc \in {"literal", "last"} /\ nextEmit + n <= size /\ n > 0 /\ n <= kBlockSize
      BY <1>2, <1>6, <1>7
    <2>2. LiteralOut(dest', n)
      BY <1>2, <1>5, <1>7, <1>8, <2>1, LiteralEnds, Zenon
    <2>. QED BY <2>2 DEF LiteralOut
  <1>10. high <= Len(dest) + 15 /\ Len(dest) \in Nat
    BY <1>1, <1>2 DEF SizeInv, Compressing, Numbers
  <1>11. high' \in Nat /\ high' <= Len(dest') + 15
    BY <1>6, <1>7, <1>8, <1>9, <1>10 DEF LargerOf
  <1>12. loaded' \in Nat /\ loaded' <= size'
    BY <1>4, <1>5, <1>6, <1>7, <1>8 DEF LargerOf
  <1>13. EmitInv' /\ CallInv'
    <2>1. EmitInv' /\ emit' = emit
      BY <1>1, <1>2, EmitKept
    <2>. QED BY <1>2, <2>1 DEF CallInv
  <1>14. PlaceInv'
    BY <1>2, <1>12 DEF PlaceInv
  <1>15. MatchIsLongest'
    BY <1>2 DEF MatchIsLongest
  <1>16. SizeInv'
    <2>1. /\ pc' = "append" => 60 * Len(dest') <= 61 * size + 60
          /\ high' <= Len(dest') + 15
      BY <1>7, <1>9, <1>11
    <2>. QED BY <1>1, <1>2, <1>3, <2>1, SizeStep
  <1>17. OutputInv'
    <2>1. StandsFor(Body \o Output', SubSeq(text, 1, Earlier + Covered'))
      BY <1>2, <1>4, <1>7, <1>9, OutputAfter
    <2>. QED BY <1>1, <1>2, <1>3, <2>1, OutputStep
  <1>18. /\ ip' \in Places /\ nextEmit' \in Places /\ candidate' \in Places
         /\ nextIp' \in 0 .. 2 * kBlockSize /\ skip' \in Nat
         /\ nextHash' \in 0 .. MaxTable - 1 /\ table' \in TableType
    BY <1>1, <1>2, Zenon DEF TypeOK, TableType
  <1>. QED BY <1>3, <1>9, <1>11, <1>12, <1>13, <1>14, <1>15, <1>16, <1>17, <1>18, FragmentStep

\* The literal before a match has been written.
LEMMA LiteralDoneInv ==
  ASSUME CompressInv, LiteralDone, UNCHANGED call_
  PROVE  CompressInv'
  <1>1. /\ TypeOK /\ EmitInv /\ BlockInv /\ BuffersInv /\ TableInv /\ PlaceInv /\ CallInv
        /\ MatchIsLongest /\ SizeInv /\ OutputInv /\ Numbers
    BY Parts
  <1>2. /\ pc = "literal" /\ emit = "returned" /\ pc' = "match"
        /\ UNCHANGED <<emitVars, blocks, hashing, room, sink>>
        /\ table' = table /\ ip' = ip /\ nextIp' = nextIp /\ nextHash' = nextHash /\ skip' = skip
        /\ candidate' = candidate /\ nextEmit' = nextEmit
        /\ AppendLiteral(ip - nextEmit, TRUE)
    BY Zenon DEF LiteralDone, looking
  <1>3. InFragment
    BY <1>2 DEF InFragment, Compressing
  <1>4. /\ size' = size /\ sink' = sink /\ ipLimit' = ipLimit /\ TableSizeNow' = TableSizeNow
        /\ which' = which /\ text' = text /\ hash' = hash /\ pos' = pos /\ frag' = frag /\ scratch' = scratch
    BY <1>3, FragmentKeeps
  <1>5. /\ nextEmit < ip /\ loaded <= size /\ call = "literal" /\ total = ip - nextEmit
        /\ candidate < ip /\ ip < ipLimit /\ AllBefore(ip + 1) /\ Load32(candidate) = Load32(ip)
    BY <1>1, <1>2 DEF PlaceInv, CallInv
  <1>6. /\ size \in Nat /\ size <= 65536 /\ nextEmit \in Nat /\ loaded \in Nat /\ high \in Nat
        /\ ip \in Nat /\ ip + 15 < size
    BY <1>1, <1>5, CodeSizes DEF Numbers, ipLimit
  <1>7. PICK n \in Nat : n = ip - nextEmit /\ n > 0 /\ n <= kBlockSize /\ total = n /\ nextEmit + n = ip
    <2>1. kBlockSize = 65536
      BY CodeSizes
    <2>. QED BY <1>5, <1>6, <2>1
  <1>8. PICK m \in Nat : /\ (m = n \/ (m = 16 /\ n <= 16))
                         /\ dest' = dest \o op \o Bytes(nextEmit, n)
                         /\ high' = LargerOf(high, Len(dest) + Len(op) + m)
                         /\ loaded' = LargerOf(loaded, nextEmit + m)
    <2> DEFINE m == IF n <= 16 THEN 16 ELSE n
    <2>1. m \in Nat /\ (m = n \/ (m = 16 /\ n <= 16))
      OBVIOUS
    <2>2. AppendLiteral(n, TRUE)
      BY <1>2, <1>7, Zenon
    <2>3. /\ dest' = dest \o op \o Bytes(nextEmit, n)
          /\ high' = LargerOf(high, Len(dest) + Len(op) + m)
          /\ loaded' = LargerOf(loaded, nextEmit + m)
      BY <2>2, Zenon DEF AppendLiteral
    <2> HIDE DEF m
    <2>. QED BY <2>1, <2>3
  <1>9. /\ dest' \in Seq(Byte) /\ Len(dest') = Len(dest) + Len(op) + n /\ Len(op) \in Nat
        /\ 60 * Len(dest') <= 61 * (nextEmit + n) + 60
        /\ StandsFor(Body \o dest', SubSeq(text, 1, Earlier + (nextEmit + n)))
    <2>1. pc \in {"literal", "last"} /\ nextEmit + n <= size /\ n > 0 /\ n <= kBlockSize
      BY <1>2, <1>6, <1>7
    <2>2. LiteralOut(dest', n)
      BY <1>2, <1>5, <1>7, <1>8, <2>1, LiteralEnds, Zenon
    <2>. QED BY <2>2 DEF LiteralOut
  <1>10. high <= Len(dest) + 15 /\ Len(dest) \in Nat
    BY <1>1, <1>2 DEF SizeInv, Compressing, Numbers
  <1>11. high' \in Nat /\ high' <= Len(dest') + 15
    BY <1>6, <1>7, <1>8, <1>9, <1>10 DEF LargerOf
  <1>12. loaded' \in Nat /\ loaded' <= size'
    BY <1>4, <1>5, <1>6, <1>7, <1>8 DEF LargerOf
  <1>13. EmitInv' /\ CallInv'
    <2>1. EmitInv' /\ emit' = emit
      BY <1>1, <1>2, EmitKept
    <2>. QED BY <1>2, <2>1 DEF CallInv
  <1>14. PlaceInv'
    <2>1. AllBefore(ip + 1)'
      BY <1>2, <1>4, <1>5, Zenon DEF AllBefore
    <2>2. Load32(candidate)' = Load32(ip)'
      BY <1>2, <1>4, <1>5, SameBytes, Zenon
    <2>. QED BY <1>2, <1>4, <1>5, <1>12, <2>1, <2>2 DEF PlaceInv
  <1>15. MatchIsLongest'
    BY <1>2 DEF MatchIsLongest
  <1>16. SizeInv'
    <2>1. /\ pc' = "match" => 60 * Len(dest') <= 61 * ip' + 60
          /\ high' <= Len(dest') + 15
      BY <1>2, <1>7, <1>9, <1>11
    <2>. QED BY <1>1, <1>2, <1>3, <2>1, SizeStep
  <1>17. OutputInv'
    <2>1. StandsFor(Body \o Output', SubSeq(text, 1, Earlier + Covered'))
      BY <1>2, <1>4, <1>7, <1>9, OutputAfter
    <2>. QED BY <1>1, <1>2, <1>3, <2>1, OutputStep
  <1>18. /\ ip' \in Places /\ nextEmit' \in Places /\ candidate' \in Places
         /\ nextIp' \in 0 .. 2 * kBlockSize /\ skip' \in Nat
         /\ nextHash' \in 0 .. MaxTable - 1 /\ table' \in TableType
    BY <1>1, <1>2, Zenon DEF TypeOK, TableType
  <1>. QED BY <1>3, <1>9, <1>11, <1>12, <1>13, <1>14, <1>15, <1>16, <1>17, <1>18, FragmentStep

----------------------------------------------------------------------------
(* EmitCopy and EmitLiteral in the compressor *)

\* One more sequence after three.
JoinsFour(h, a, b, c) == h \o (a \o (b \o c)) = (h \o (a \o b)) \o c

\* Four sequences put together, in either order.
LEMMA JoinedFour ==
  ASSUME NEW h \in Seq(Byte), NEW a \in Seq(Byte), NEW b \in Seq(Byte), NEW c \in Seq(Byte)
  PROVE  JoinsFour(h, a, b, c)
  <1>1. a \o (b \o c) = (a \o b) \o c
    OBVIOUS
  <1>2. ASSUME NEW x \in Seq(Byte)
        PROVE  h \o (x \o c) = (h \o x) \o c
    OBVIOUS
  <1>3. a \o b \in Seq(Byte)
    OBVIOUS
  <1>. QED BY <1>1, <1>2, <1>3 DEF JoinsFour

\* A step of them keeps their arguments; one of EmitCopy is a piece of its match.
LEMMA EmitNextIs ==
  ASSUME EmitInv, EmitNext
  PROVE  /\ emit = "emitting" /\ call' = call /\ total' = total /\ offset' = offset
         /\ call = "copy" => \E len \in 4 .. 64 : Piece(len) /\ len <= left
  <1>1. call = "copy" /\ emit = "emitting" => left \in Nat /\ left >= 4
    <2>1. kBlockSize \in Nat
      BY SMT DEF kBlockSize
    <2>. QED BY <2>1 DEF EmitInv, EmitTypeOK
  <1>2. CASE EmitSixtyFour
    <2>1. Piece(64) /\ 64 <= left
      BY <1>1, <1>2 DEF EmitSixtyFour, Piece
    <2>. QED BY <2>1 DEF Piece
  <1>3. CASE EmitSixty
    <2>1. Piece(60) /\ 60 <= left
      BY <1>1, <1>3 DEF EmitSixty, Piece
    <2>. QED BY <2>1 DEF Piece
  <1>4. CASE EmitRemainder
    <2>1. Piece(left) /\ left <= 64
      BY <1>4, Zenon DEF EmitRemainder
    <2>2. /\ call = "copy" /\ emit = "emitting" /\ call' = call /\ total' = total /\ offset' = offset
      BY <2>1, Zenon DEF Piece
    <2>3. left \in 4 .. 64 /\ left <= left
      BY <1>1, <2>1, <2>2
    <2>. QED BY <2>1, <2>2, <2>3
  <1>5. CASE EmitShort \/ ReserveTag \/ EmitLengthByte \/ EmitTag
    BY <1>5, Zenon DEF EmitShort, ReserveTag, EmitLengthByte, EmitTag
  <1>. QED BY <1>2, <1>3, <1>4, <1>5 DEF EmitNext

\* A piece of a match repeats the bytes that are offset bytes back.
LEMMA PieceRepeats ==
  ASSUME Numbers, BlockInv, PlaceInv, MatchIsLongest, EmitInv, pc = "copy", call = "copy",
         NEW n \in Nat, n <= left, NEW p, p = Earlier + (ip - left)
  PROVE  /\ left \in Nat /\ total \in Nat /\ left <= total /\ total + offset <= ip
         /\ p \in Nat /\ p + n <= Len(text) /\ offset \in 1 .. p
         /\ \A i \in p + 1 .. p + n : text[i] = text[i - offset]
  <1>1. /\ left \in Nat /\ total \in Nat /\ offset \in Nat /\ 1 <= offset /\ left <= total
    <2>1. kBlockSize \in Nat
      BY SMT DEF kBlockSize
    <2>2. op \in Seq(Byte) /\ Len(op) \in Nat
      BY DEF Numbers
    <2>3. left \in Nat /\ total \in Nat /\ offset \in Nat /\ 1 <= offset
      BY <2>1 DEF EmitInv, EmitTypeOK
    <2>4. Len(op) <= total - left
      BY DEF EmitInv, CopiesShrink
    <2>. QED BY <2>2, <2>3, <2>4
  <1>2. total + offset <= ip /\ ip <= size
    BY DEF PlaceInv
  <1>3. pc \in InBlock
    BY DEF InBlock, Compressing
  <1>4. Earlier \in Nat /\ Earlier + size <= Len(text) /\ size \in Nat /\ ip \in Nat /\ Len(text) \in Nat
    BY <1>3, BlockPlace DEF Numbers
  <1>5. p \in Nat /\ p + n <= Len(text) /\ offset \in 1 .. p
    BY <1>1, <1>2, <1>4
  <1>6. PICK a \in Nat, b \in Nat : a = ip - total /\ b = ip - total - offset
    BY <1>1, <1>2, <1>4
  <1>7. a + total <= size /\ b + total <= size
    BY <1>1, <1>2, <1>4, <1>6
  <1>8. /\ Bytes(a, total) = [k \in 1 .. total |-> text[Earlier + a + k]]
        /\ Bytes(b, total) = [k \in 1 .. total |-> text[Earlier + b + k]]
    BY <1>1, <1>3, <1>6, <1>7, BlockBytes, Zenon
  <1>9. Bytes(a, total) = Bytes(b, total)
    BY <1>6 DEF MatchIsLongest
  <1>10. \A k \in 1 .. total : text[Earlier + a + k] = text[Earlier + b + k]
    <2> TAKE k \in 1 .. total
    <2>1. Bytes(a, total)[k] = text[Earlier + a + k] /\ Bytes(b, total)[k] = text[Earlier + b + k]
      BY <1>8, Zenon
    <2>. QED BY <1>9, <2>1, Zenon
  <1>11. ASSUME NEW i \in p + 1 .. p + n
         PROVE  text[i] = text[i - offset]
    <2>1. PICK k \in Nat : k = i - Earlier - a
      BY <1>1, <1>4, <1>5, <1>6
    <2>2. k \in 1 .. total /\ Earlier + a + k = i /\ Earlier + b + k = i - offset
      BY <1>1, <1>4, <1>5, <1>6, <2>1
    <2>. QED BY <1>10, <2>2
  <1>. QED BY <1>1, <1>2, <1>5, <1>11

\* A piece of a match is written: it stands for its bytes.
LEMMA PieceStandsFor ==
  ASSUME CompressInv, pc = "copy", NEW len \in 4 .. 64, Piece(len), len <= left
  PROVE  /\ left' = left - len /\ left \in Nat
         /\ StandsFor(Body \o (dest \o op'), SubSeq(text, 1, Earlier + (ip - left')))
  <1>1. /\ TypeOK /\ EmitInv /\ BlockInv /\ PlaceInv /\ MatchIsLongest /\ OutputInv /\ Numbers
    BY Parts
  <1>2. call = "copy" /\ left' = left - len /\ op' = op \o EmitCopyLessThan64(offset, len)
    BY DEF Piece
  <1>3. PICK n \in Nat : n = len
    OBVIOUS
  <1>4. PICK p : p = Earlier + (ip - left)
    OBVIOUS
  <1>5. /\ left \in Nat /\ total \in Nat /\ left <= total /\ total + offset <= ip
        /\ p \in Nat /\ p + n <= Len(text) /\ offset \in 1 .. p
        /\ \A i \in p + 1 .. p + n : text[i] = text[i - offset]
    <2>1. n <= left
      BY <1>3
    <2>. QED BY <1>1, <1>2, <1>4, <2>1, PieceRepeats
  <1> DEFINE e == EmitCopyLessThan64(offset, n)
             s == Body \o (dest \o op)
  <1>6. e \in Seq(Byte) /\ e # << >> /\ IsCopy(e, offset, n)
    <2>1. offset \in 1 .. kBlockSize - 1
      BY <1>1, <1>2, Zenon DEF EmitInv, EmitTypeOK
    <2>2. /\ EmitCopyLessThan64(offset, len) \in Seq(Byte)
          /\ Len(EmitCopyLessThan64(offset, len)) \in 2 .. 3
          /\ IsCopy(EmitCopyLessThan64(offset, len), offset, len)
      BY <2>1, ShortCopy, Zenon
    <2> HIDE DEF e
    <2>3. e = EmitCopyLessThan64(offset, len)
      BY <1>3 DEF e
    <2>. QED BY <1>3, <2>2, <2>3
  <1>7. /\ Body \in Seq(Byte) /\ dest \in Seq(Byte) /\ op \in Seq(Byte) /\ text \in Seq(Byte)
        /\ StandsFor(s, SubSeq(text, 1, p))
    <2>1. pc \notin {"called", "refused"} /\ Output = dest \o op /\ Covered = ip - left
      BY OutputAt
    <2>2. Body \in Seq(Byte) /\ StandsFor(Body \o Output, SubSeq(text, 1, Earlier + Covered))
      BY <1>1, <2>1, BodyIs
    <2>3. dest \in Seq(Byte) /\ op \in Seq(Byte) /\ text \in Seq(Byte)
      BY <1>1 DEF Numbers
    <2>. QED BY <1>4, <2>1, <2>2, <2>3, Zenon
  <1> HIDE DEF e
  <1>8. s \in Seq(Byte) /\ Body \o (dest \o op') = s \o e
    <2>1. op' = op \o e
      BY <1>2, <1>3, Zenon DEF e
    <2>2. dest \o op \in Seq(Byte)
      BY <1>7, Joined, Zenon
    <2>3. s \in Seq(Byte)
      BY <1>7, <2>2, Joined, Zenon
    <2>4. Body \o (dest \o (op \o e)) = (Body \o (dest \o op)) \o e
      <3>1. JoinsFour(Body, dest, op, e)
        BY <1>6, <1>7, JoinedFour, Zenon
      <3>. QED BY <3>1, Zenon DEF JoinsFour
    <2>. QED BY <2>1, <2>3, <2>4, Zenon
  <1> HIDE DEF s
  <1>9. StandsFor(s \o e, SubSeq(text, 1, p + n))
    BY <1>5, <1>6, <1>7, <1>8, CopyElement, Zenon
  <1>10. p + n = Earlier + (ip - left')
    <2>1. Earlier \in Nat /\ ip \in Nat
      BY <1>1, BlockPlace DEF Numbers
    <2>. QED BY <1>2, <1>3, <1>4, <1>5, <2>1
  <1>11. StandsFor(Body \o (dest \o op'), SubSeq(text, 1, Earlier + (ip - left')))
    BY <1>8, <1>9, <1>10, Zenon
  <1>. QED BY <1>2, <1>5, <1>11

\* EmitCopy or EmitLiteral runs on.
LEMMA EmittingInv ==
  ASSUME CompressInv, Emitting, UNCHANGED call_
  PROVE  CompressInv'
  <1>1. /\ TypeOK /\ EmitInv /\ BlockInv /\ BuffersInv /\ TableInv /\ PlaceInv /\ CallInv
        /\ MatchIsLongest /\ SizeInv /\ OutputInv /\ Numbers
    BY Parts
  <1>2. /\ EmitNext /\ UNCHANGED <<blocks, hashing, room, sink>>
        /\ table' = table /\ ip' = ip /\ nextIp' = nextIp /\ nextHash' = nextHash /\ skip' = skip
        /\ candidate' = candidate /\ nextEmit' = nextEmit /\ loaded' = loaded
        /\ dest' = dest /\ high' = high /\ pc' = pc
    BY Zenon DEF Emitting, looking, written
  <1>3. /\ emit = "emitting" /\ call' = call /\ total' = total /\ offset' = offset
        /\ call = "copy" => \E len \in 4 .. 64 : Piece(len) /\ len <= left
    BY <1>1, <1>2, EmitNextIs
  <1>4. pc \in {"literal", "copy", "last", "refused"}
    BY <1>1, <1>3, Zenon DEF CallInv
  <1>5. EmitInv'
    BY <1>1, <1>2, EmitNextInv
  <1>6. /\ ip' \in Places /\ nextEmit' \in Places /\ candidate' \in Places
        /\ nextIp' \in 0 .. 2 * kBlockSize /\ skip' \in Nat /\ loaded' \in Nat
        /\ nextHash' \in 0 .. MaxTable - 1 /\ dest' \in Seq(Byte) /\ high' \in Nat /\ table' \in TableType
    BY <1>1, <1>2, Zenon DEF TypeOK, TableType
  <1>7. CASE pc # "refused"
    <2>1. InFragment /\ pc \in Compressing
      BY <1>2, <1>4, <1>7, Zenon DEF InFragment, Compressing
    <2>2. /\ size' = size /\ ipLimit' = ipLimit /\ TableSizeNow' = TableSizeNow
          /\ which' = which /\ text' = text /\ hash' = hash /\ pos' = pos /\ frag' = frag /\ scratch' = scratch
      BY <2>1, FragmentKeeps
    <2>3. PlaceInv'
      <3>1. AllBefore(ip + 1)' = AllBefore(ip + 1) /\ AllBefore(ip)' = AllBefore(ip)
        BY <1>2, <2>2, Zenon DEF AllBefore
      <3>2. Load32(candidate)' = Load32(candidate) /\ Load32(ip)' = Load32(ip)
        BY <1>2, <2>2, SameBytes, Zenon
      <3>. QED BY <1>1, <1>2, <1>3, <1>4, <1>7, <2>2, <3>1, <3>2 DEF PlaceInv
    <2>4. CallInv'
      BY <1>1, <1>2, <1>3, <1>4, <1>7, <2>2 DEF CallInv
    <2>5. MatchIsLongest'
      <3>1. UNCHANGED <<text, hash, pos, frag, size, scratch>>
        BY <2>2
      <3>2. /\ Bytes(ip - total, total)' = Bytes(ip - total, total)
            /\ Bytes(ip - total - offset, total)' = Bytes(ip - total - offset, total)
            /\ At(ip)' = At(ip) /\ At(ip - offset)' = At(ip - offset)
        BY <1>2, <1>3, <3>1, SameBytes, Zenon
      <3>. QED BY <1>1, <1>2, <2>2, <3>2, Zenon DEF MatchIsLongest
    <2>6. SizeInv'
      <3>1. /\ pc \in {"scan", "literal", "rest", "last"} => 60 * Len(dest) <= 61 * nextEmit
            /\ pc = "match" => 60 * Len(dest) <= 61 * ip + 60
            /\ pc = "copy" => 60 * Len(dest) <= 61 * (ip - total) + 60
            /\ pc = "append" => 60 * Len(dest) <= 61 * size + 60
            /\ high <= Len(dest) + 15
        BY <1>1, <2>1, Zenon DEF SizeInv
      <3>2. /\ pc' \in {"scan", "literal", "rest", "last"} => 60 * Len(dest') <= 61 * nextEmit'
            /\ pc' = "match" => 60 * Len(dest') <= 61 * ip' + 60
            /\ pc' = "copy" => 60 * Len(dest') <= 61 * (ip' - total') + 60
            /\ pc' = "append" => 60 * Len(dest') <= 61 * size + 60
            /\ high' <= Len(dest') + 15
        BY <1>2, <1>3, <3>1, Zenon
      <3>. QED BY <1>1, <2>1, <3>2, SizeStep
    <2>7. OutputInv'
      <3>1. CASE pc = "copy"
        <4>1. PICK len \in 4 .. 64 : Piece(len) /\ len <= left
          BY <1>1, <1>3, <3>1 DEF CallInv
        <4>2. StandsFor(Body \o (dest \o op'), SubSeq(text, 1, Earlier + (ip - left')))
          BY <3>1, <4>1, PieceStandsFor
        <4>3. Output' = dest \o op' /\ Covered' = ip - left'
          BY <1>2, <3>1, OutputAfter
        <4>4. StandsFor(Body \o Output', SubSeq(text, 1, Earlier + Covered'))
          BY <4>2, <4>3, Zenon
        <4>. QED BY <1>1, <2>1, <3>1, <4>4, OutputStep
      <3>2. CASE pc # "copy"
        <4>1. Output' = Output /\ Covered' = Covered
          BY <1>2, <1>4, <1>7, <2>2, <3>2, OutputAt, OutputAfter
        <4>. QED BY <1>1, <2>1, <4>1, OutputSame
      <3>. QED BY <3>1, <3>2
    <2>. QED BY <1>5, <1>6, <2>1, <2>3, <2>4, <2>5, <2>6, <2>7, FragmentStep
  <1>8. CASE pc = "refused"
    <2>1. /\ text' = text /\ hash' = hash /\ arch' = arch /\ capacity' = capacity
          /\ pos' = pos /\ N' = N /\ frag' = frag /\ size' = size /\ scratch' = scratch
          /\ filled' = filled /\ shift' = shift /\ which' = which /\ room' = room /\ sink' = sink
      BY <1>2 DEF call_, blocks, hashing
    <2>2. TypeOK'
      BY <1>1, <1>2, <1>5, <1>6, <2>1, Zenon DEF TypeOK, EmitInv
    <2>3. BlockInv'
      BY <1>1, <1>2, <1>8, <2>1 DEF BlockInv, Earlier, InBlock, Compressing
    <2>4. BuffersInv'
      <3>1. NextSize' = NextSize
        BY <2>1, Zenon DEF NextSize
      <3>2. MaxCompressedLength(NextSize)' = MaxCompressedLength(NextSize)
        BY <3>1, Zenon DEF MaxCompressedLength
      <3>. QED BY <1>1, <1>2, <1>8, <2>1, <3>1, <3>2 DEF BuffersInv, Compressing
    <2>5. TableInv'
      BY <1>2, <1>8 DEF TableInv, Compressing
    <2>6. PlaceInv'
      BY <1>1, <1>2, <1>8, <2>1 DEF PlaceInv
    <2>7. CallInv' /\ MatchIsLongest' /\ OutputInv'
      BY <1>2, <1>8 DEF CallInv, MatchIsLongest, OutputInv
    <2>8. SizeInv'
      BY <1>1, <1>2, <1>8, <2>1 DEF SizeInv, Earlier, Compressing
    <2>. QED BY <1>5, <2>2, <2>3, <2>4, <2>5, <2>6, <2>7, <2>8, Zenon DEF CompressInv
  <1>. QED BY <1>7, <1>8

----------------------------------------------------------------------------
(* A match *)

\* The four bytes with the same hash are the same, so a match of the bytes after
\* them is one from there.
LEMMA MatchOfFour ==
  ASSUME Numbers, NEW a \in Nat, NEW b \in Nat, Load32(a) = Load32(b), b + 4 <= size,
         NEW l, IsMatch(a + 4, b + 4, l)
  PROVE  IsMatch(a, b, 4 + l)
  <1>1. SameFrom(a, b, 4)
    <2>1. \A k \in 1 .. 4 : At(a + k - 1) = At(b + k - 1)
      <3> TAKE k \in 1 .. 4
      <3>1. Load32(a)[k] = At(a + k - 1) /\ Load32(b)[k] = At(b + k - 1)
        BY Zenon DEF Load32, Bytes
      <3>. QED BY <3>1, Zenon
    <2>2. ASSUME NEW j \in 0 .. 3
          PROVE  At(b + j) = At(a + j)
      <3>1. j + 1 \in 1 .. 4 /\ a + (j + 1) - 1 = a + j /\ b + (j + 1) - 1 = b + j
        OBVIOUS
      <3>. QED BY <2>1, <3>1
    <2>. QED BY <2>2 DEF SameFrom
  <1>2. 4 \in Nat
    OBVIOUS
  <1>. QED BY <1>1, <1>2, MatchAfter, Zenon

\* The match that was found is extended as far as it goes.
LEMMA ExtendMatchInv ==
  ASSUME CompressInv, ExtendMatch, UNCHANGED call_
  PROVE  CompressInv'
  <1>1. /\ TypeOK /\ EmitInv /\ BlockInv /\ BuffersInv /\ TableInv /\ PlaceInv /\ CallInv
        /\ MatchIsLongest /\ SizeInv /\ OutputInv /\ Numbers
    BY Parts
  <1>2. /\ pc = "match" /\ pc' = "copy"
        /\ UNCHANGED <<blocks, hashing, room, sink>>
        /\ table' = table /\ nextIp' = nextIp /\ nextHash' = nextHash /\ skip' = skip
        /\ candidate' = candidate /\ nextEmit' = nextEmit /\ dest' = dest /\ high' = high
    BY Zenon DEF ExtendMatch, looking, written
  <1>3. InFragment /\ pc \in Compressing /\ pc \in InBlock
    BY <1>2, Zenon DEF InFragment, Compressing, InBlock
  <1>4. /\ size' = size /\ TableSizeNow' = TableSizeNow
        /\ which' = which /\ text' = text /\ hash' = hash /\ pos' = pos /\ frag' = frag /\ scratch' = scratch
    BY <1>3, FragmentKeeps
  <1>5. /\ candidate < ip /\ ip < ipLimit /\ AllBefore(ip + 1) /\ Load32(candidate) = Load32(ip)
        /\ loaded <= size
    BY <1>1, <1>2 DEF PlaceInv
  <1>6. /\ size \in Nat /\ size <= 65536 /\ loaded \in Nat /\ ip \in Nat /\ ip + 15 < size
        /\ candidate \in Nat
    BY <1>1, <1>5, CodeSizes DEF Numbers, ipLimit
  <1>7. PICK n, x, l :
          /\ n = MatchedWords(candidate + 4, ip + 4, WordSize)
          /\ x = Differing(candidate + 4 + n, ip + 4 + n, WordSize)
          /\ l = FindMatchLength(candidate + 4, ip + 4, WordSize, n, x)
          /\ StartCopy(ip - candidate, 4 + l)
          /\ ip' = ip + (4 + l)
          /\ loaded' = LargerOf(loaded, IF WordFits(ip + 4, n, WordSize)
                                          THEN ip + 4 + n + WordSize
                                          ELSE SmallerOf(ip + (4 + l) + 1, size))
    BY Zenon DEF ExtendMatch
  <1>8. IsMatch(candidate, ip, 4 + l)
    <2>1. candidate + 4 \in Nat /\ ip + 4 \in Nat /\ candidate + 4 < ip + 4 /\ ip + 4 <= size
      BY <1>5, <1>6
    <2>2. IsMatch(candidate + 4, ip + 4, l)
      BY <1>1, <1>3, <1>7, <2>1, FindMatchLengthIs, Zenon
    <2>3. candidate \in Nat /\ ip \in Nat
      BY <1>6
    <2>. QED BY <1>1, <1>5, <2>1, <2>2, <2>3, MatchOfFour, Zenon
  <1>9. PICK m \in Nat : /\ m = 4 + l /\ 4 <= m /\ ip + m <= size
                         /\ \A j \in 0 .. m - 1 : At(ip + j) = At(candidate + j)
                         /\ ip + m < size => At(ip + m) # At(candidate + m)
    <2>1. l \in Nat
      <3>1. candidate + 4 \in Nat /\ ip + 4 \in Nat /\ candidate + 4 < ip + 4 /\ ip + 4 <= size
        BY <1>5, <1>6
      <3>2. IsMatch(candidate + 4, ip + 4, l)
        BY <1>1, <1>3, <1>7, <3>1, FindMatchLengthIs, Zenon
      <3>. QED BY <3>2 DEF IsMatch, SameFrom
    <2>2. /\ ip + (4 + l) <= size /\ \A j \in 0 .. (4 + l) - 1 : At(ip + j) = At(candidate + j)
          /\ ip + (4 + l) < size => At(ip + (4 + l)) # At(candidate + (4 + l))
      BY <1>8, Zenon DEF IsMatch, SameFrom
    <2>3. PICK m \in Nat : m = 4 + l /\ 4 <= m
      BY <2>1
    <2>. QED BY <2>2, <2>3, Zenon
  <1>10. PICK off \in Nat : off = ip - candidate /\ 1 <= off /\ off <= 65535 /\ m + off <= ip + m
                            /\ candidate = ip - off
    BY <1>5, <1>6, <1>9
  <1>11. /\ EmitInv' /\ call' = "copy" /\ total' = m /\ offset' = off /\ left' = m /\ op' = << >>
    <2>1. StartCopy(off, m) /\ m <= 65536
      BY <1>6, <1>7, <1>9, <1>10
    <2>. QED BY <1>9, <1>10, <2>1, StartCopyInv
  <1>12. ip' = ip + m
    BY <1>7, <1>9, Zenon
  <1>13. loaded' \in Nat /\ loaded' <= size'
    <2>1. PICK k : k \in {4, 8} /\ k = WordSize
      BY DEF WordSize
    <2>2. n \in Nat
      <3>1. candidate + 4 \in Nat /\ ip + 4 \in Nat /\ ip + 4 <= size
        BY <1>5, <1>6
      <3>2. SameFrom(candidate + 4, ip + 4, MatchedWords(candidate + 4, ip + 4, k))
        BY <1>1, <2>1, <3>1, WordsMatch, Zenon
      <3>. QED BY <1>7, <2>1, <3>2, Zenon DEF SameFrom
    <2>3. loaded' = LargerOf(loaded, IF ip + 4 + n + k <= size THEN ip + 4 + n + k
                                                               ELSE SmallerOf(ip + m + 1, size))
      BY <1>7, <1>9, <2>1, Zenon DEF WordFits
    <2>. QED BY <1>4, <1>5, <1>6, <2>1, <2>2, <2>3 DEF LargerOf, SmallerOf
  <1>14. PlaceInv'
    <2>1. AllBefore(ip)'
      <3>1. \A h \in 0 .. TableSizeNow - 1 : table[which][h] < ip + 1 /\ table[which][h] \in Nat
        BY <1>1, <1>3, <1>5, TableInUse DEF AllBefore
      <3>2. \A h \in 0 .. TableSizeNow - 1 : table[which][h] < ip + m
        BY <1>6, <1>9, <3>1
      <3>. QED BY <1>2, <1>4, <1>12, <3>2, Zenon DEF AllBefore
    <2>2. total' + offset' <= ip' /\ ip' <= size'
      <3>1. total' = m /\ offset' = off /\ ip' = ip + m /\ size' = size
        BY <1>4, <1>11, <1>12, Zenon
      <3>2. m + off <= ip + m /\ ip + m <= size
        <4>1. ip + m <= size
          BY <1>9, Zenon
        <4>. QED BY <1>10, <4>1
      <3>. QED BY <3>1, <3>2, Zenon
    <2>. QED BY <1>2, <1>13, <2>1, <2>2 DEF PlaceInv
  <1>15. CallInv'
    BY <1>2, <1>11 DEF CallInv
  <1>16. MatchIsLongest'
    <2>1. UNCHANGED <<text, hash, pos, frag, size, scratch>>
      BY <1>4
    <2>2. /\ Bytes(ip - total, total)' = Bytes(ip' - total', total')
          /\ Bytes(ip - total - offset, total)' = Bytes(ip' - total' - offset', total')
          /\ At(ip)' = At(ip') /\ At(ip - offset)' = At(ip' - offset')
      BY <2>1, SameBytes, Zenon
    <2>3. ip' - total' = ip /\ ip' - total' - offset' = candidate /\ ip' - offset' = candidate + m
      <3>1. total' = m /\ offset' = off /\ ip' = ip + m
        BY <1>11, <1>12, Zenon
      <3>2. (ip + m) - m = ip /\ (ip + m) - off = candidate + m /\ ip - off = candidate
        BY <1>6, <1>10
      <3>. QED BY <3>1, <3>2, Zenon
    <2>4. Bytes(ip, m) = Bytes(candidate, m)
      <3>1. \A k \in 1 .. m : At(ip + k - 1) = At(candidate + k - 1)
        <4> TAKE k \in 1 .. m
        <4>1. k - 1 \in 0 .. m - 1 /\ ip + (k - 1) = ip + k - 1 /\ candidate + (k - 1) = candidate + k - 1
          BY <1>6
        <4>. QED BY <1>9, <4>1
      <3>. QED BY <3>1, Zenon DEF Bytes
    <2>5. Bytes(ip - total, total)' = Bytes(ip - total - offset, total)'
      BY <1>11, <2>2, <2>3, <2>4, Zenon
    <2>6. (ip < size)' => At(ip)' # At(ip - offset)'
      BY <1>4, <1>9, <1>12, <2>2, <2>3, Zenon
    <2>. QED BY <2>5, <2>6, Zenon DEF MatchIsLongest
  <1>17. SizeInv'
    <2>1. 60 * Len(dest) <= 61 * ip + 60 /\ high <= Len(dest) + 15
      BY <1>1, <1>2, <1>3 DEF SizeInv
    <2>2. ip' - total' = ip
      BY <1>6, <1>9, <1>11, <1>12
    <2>3. /\ pc' = "copy" => 60 * Len(dest') <= 61 * (ip' - total') + 60
          /\ high' <= Len(dest') + 15
      BY <1>2, <2>1, <2>2
    <2>. QED BY <1>1, <1>2, <1>3, <2>3, SizeStep
  <1>18. OutputInv'
    <2>1. dest \o << >> = dest
      BY <1>1 DEF Numbers
    <2>2. Output = dest /\ Covered = ip /\ Output' = dest /\ Covered' = ip
      BY <1>2, <1>6, <1>9, <1>11, <1>12, <2>1, OutputAt, OutputAfter
    <2>. QED BY <1>1, <1>3, <2>2, OutputSame
  <1>19. ip' \in Places
    <2>1. ip' \in Nat /\ ip' <= 65536
      BY <1>6, <1>9, <1>12
    <2>. QED BY <2>1, InRange
  <1>20. /\ nextEmit' \in Places /\ candidate' \in Places
         /\ nextIp' \in 0 .. 2 * kBlockSize /\ skip' \in Nat
         /\ nextHash' \in 0 .. MaxTable - 1 /\ dest' \in Seq(Byte) /\ high' \in Nat /\ table' \in TableType
    BY <1>1, <1>2, Zenon DEF TypeOK, TableType
  <1>. QED BY <1>3, <1>11, <1>13, <1>14, <1>15, <1>16, <1>17, <1>18, <1>19, <1>20, FragmentStep

----------------------------------------------------------------------------
(* The hash table *)

\* Is t the tables with v as entry i of the one in use?
IsPut(t, i, v) ==
  /\ t \in TableType
  /\ \A h \in 0 .. TableSizeNow - 1 : t[which][h] = IF h = i THEN v ELSE table[which][h]

\* A place goes into the table in use.
LEMMA TablePut ==
  ASSUME TypeOK, Numbers, TableInv, pc \in Compressing,
         NEW i \in 0 .. TableSizeNow - 1, NEW v \in 0 .. kBlockSize - 1
  PROVE  IsPut([table EXCEPT ![which][i] = v], i, v)
  <1> DEFINE u == Put(table[which], i, v)
             t == [table EXCEPT ![which] = u]
  <1>1. /\ table[which] \in [Entries -> 0 .. kBlockSize - 1]
        /\ \A h \in 0 .. TableSizeNow - 1 : h \in Entries
    BY InUseTyped
  <1>2. /\ u \in [Entries -> 0 .. kBlockSize - 1]
        /\ \A h \in Entries : u[h] = IF h = i THEN v ELSE table[which][h]
    <2>1. i \in Entries
      BY <1>1, Zenon
    <2> DEFINE B == 0 .. kBlockSize - 1
    <2>2. table[which] \in [Entries -> B] /\ v \in B
      BY <1>1, Zenon
    <2> HIDE DEF B
    <2>3. Put(table[which], i, v) \in [Entries -> B]
          /\ \A k \in Entries : Put(table[which], i, v)[k] = IF k = i THEN v ELSE table[which][k]
      <3>1. PICK f : f \in [Entries -> B] /\ f = table[which]
        BY <2>2, Zenon
      <3>2. Put(f, i, v) \in [Entries -> B]
        BY <2>1, <2>2, <3>1, EntryPut, Zenon
      <3>3. \A k \in Entries : Put(f, i, v)[k] = IF k = i THEN v ELSE f[k]
        BY <2>1, <2>2, <3>1 DEF Put
      <3>. QED BY <3>1, <3>2, <3>3, Zenon
    <2>. QED BY <2>3 DEF B
  <1>3. [table EXCEPT ![which][i] = v] = t
    BY Zenon DEF Put
  <1> HIDE DEF u
  <1>4. t \in TableType /\ t[which] = u
    BY <1>2, TableWith, Zenon
  <1> HIDE DEF t
  <1>5. \A h \in 0 .. TableSizeNow - 1 : t[which][h] = IF h = i THEN v ELSE table[which][h]
    BY <1>1, <1>2, <1>4
  <1>. QED BY <1>3, <1>4, <1>5, Zenon DEF IsPut

\* Every entry is then before the place after it.
LEMMA BeforeNext ==
  ASSUME TypeOK, Numbers, TableInv, pc \in Compressing, NEW j \in Nat, AllBefore(j),
         NEW i, NEW v \in Nat, j <= v, NEW t, IsPut(t, i, v)
  PROVE  \A h \in 0 .. TableSizeNow - 1 : t[which][h] < v + 1 /\ t[which][h] \in Nat
  <1> TAKE h \in 0 .. TableSizeNow - 1
  <1>1. table[which][h] < j /\ table[which][h] \in Nat
    BY TableInUse DEF AllBefore
  <1>2. t[which][h] = IF h = i THEN v ELSE table[which][h]
    BY Zenon DEF IsPut
  <1>. QED BY <1>1, <1>2

----------------------------------------------------------------------------
(* Looking for a match *)

\* Is k 32 times the step after place y at most?
GoodStep(k, y) == k \in Nat /\ y \in Nat /\ 32 <= k /\ k <= 32 + y

\* The places that are looked at stay in the block; the step grows slowly.
LEMMA NextPlace ==
  ASSUME Numbers, nextIp = 1 \/ nextIp <= ipLimit, skip \in 32 .. 32 + nextIp,
         NEW y, y = nextIp + skip \div 32
  PROVE  /\ nextIp \in Nat /\ nextIp <= 65535 /\ y \in Nat /\ y <= 131072 /\ nextIp + 1 <= y
         /\ GoodStep(skip + 1, y)
  <1>1. /\ nextIp \in Nat /\ size \in Nat /\ size <= 65536 /\ skip \in Nat
        /\ 32 <= skip /\ skip <= 32 + nextIp
    BY CodeSizes DEF Numbers
  <1>2. nextIp <= 65521
    <2>1. CASE nextIp = 1
      BY <2>1
    <2>2. CASE nextIp <= ipLimit
      BY <1>1, <2>2, CodeSizes DEF ipLimit
    <2>. QED BY <2>1, <2>2
  <1>3. 1 <= skip \div 32 /\ skip \div 32 <= 1 + nextIp /\ skip \div 32 \in Nat
    BY <1>1
  <1>. QED BY <1>1, <1>2, <1>3 DEF GoodStep

\* The range of the step.
LEMMA StepRange == \A k, y \in Nat : 32 <= k /\ k <= 32 + y => k \in 32 .. 32 + y
  OBVIOUS

\* A place before one that is far enough from the end is too.
LEMMA FarFromEnd ==
  \A y, a, z \in Nat :
    a + 1 <= y /\ ~(y > z - 15) =>
      y <= z - 15 /\ a < z - 15 /\ y + 15 <= z /\ y + 4 <= z /\ a + 4 <= z
  OBVIOUS

\* The same in a block, for the place that is hashed.
LEMMA HashPlace ==
  ASSUME TypeOK, Numbers, BlockInv, TableInv, pc \in Compressing, NEW i \in Nat, i + 4 <= size
  PROVE  HashAt(i, shift) \in 0 .. TableSizeNow - 1 /\ HashAt(i, shift) \in 0 .. MaxTable - 1
  <1>1. HashAt(i, shift) \in 0 .. TableSizeNow - 1
    BY HashAtInside
  <1>2. TableSizeNow \in Nat /\ TableSizeNow <= MaxTable
    BY TableInUse
  <1>. QED BY <1>1, <1>2, Tables

\* The place after the next one is inside the block, far enough from its end.
NotLast ==
  /\ nextIp' <= ipLimit /\ nextIp < ipLimit /\ nextIp' + 15 <= size /\ nextIp' + 4 <= size
  /\ nextIp + 4 <= size

\* One more place is looked at.
LEMMA ScanInv ==
  ASSUME CompressInv, Scan, UNCHANGED call_
  PROVE  CompressInv'
  <1>1. /\ TypeOK /\ EmitInv /\ BlockInv /\ BuffersInv /\ TableInv /\ PlaceInv /\ CallInv
        /\ MatchIsLongest /\ SizeInv /\ OutputInv /\ Numbers
    BY Parts
  <1>2. /\ pc = "scan" /\ UNCHANGED <<blocks, hashing, room, sink>>
        /\ nextEmit' = nextEmit /\ dest' = dest /\ high' = high
        /\ ip' = nextIp /\ skip' = skip + 1 /\ nextIp' = nextIp + skip \div 32
    BY Zenon DEF Scan, written
  <1>3. /\ nextIp' > ipLimit => /\ pc' = "rest" /\ UNCHANGED emitVars /\ nextHash' = nextHash
                                /\ candidate' = candidate /\ table' = table /\ loaded' = loaded
        /\ ~(nextIp' > ipLimit) =>
             /\ nextHash' = HashAt(nextIp', shift)
             /\ candidate' = table[which][nextHash]
             /\ table' = [table EXCEPT ![which][nextHash] = nextIp]
             /\ loaded' = LargerOf(loaded, nextIp' + 4)
             /\ IF Load32(nextIp) = Load32(candidate')
                  THEN StartLiteral(nextIp - nextEmit) /\ pc' = "literal"
                  ELSE UNCHANGED emitVars /\ pc' = pc
    BY Zenon DEF Scan
  <1>4. pc' \in {"rest", "literal", "scan"}
    BY <1>2, <1>3, Zenon
  <1>5. InFragment /\ pc \in Compressing /\ pc \in InBlock
    BY <1>2, <1>4, Zenon DEF InFragment, Compressing, InBlock
  <1>6. /\ size' = size /\ ipLimit' = ipLimit /\ TableSizeNow' = TableSizeNow /\ which' = which /\ shift' = shift
        /\ text' = text /\ hash' = hash /\ pos' = pos /\ frag' = frag /\ scratch' = scratch
    BY <1>5, FragmentKeeps
  <1>7. /\ nextEmit < nextIp /\ (nextIp = 1 \/ nextIp <= ipLimit) /\ AllBefore(nextIp)
        /\ nextHash = HashAt(nextIp, shift) /\ skip \in 32 .. 32 + nextIp /\ loaded <= size
    BY <1>1, <1>2, Zenon DEF PlaceInv
  <1>8. /\ nextIp \in Nat /\ nextIp <= 65535 /\ nextIp' \in Nat /\ nextIp' <= 131072 /\ nextIp + 1 <= nextIp'
        /\ GoodStep(skip', nextIp')
    BY <1>1, <1>2, <1>7, NextPlace
  <1>9. ip' \in Places /\ nextIp' \in 0 .. 2 * kBlockSize
    <2>1. nextIp <= 65536
      BY <1>8
    <2>. QED BY <1>2, <1>8, <2>1, InRange
  <1>10. /\ size \in Nat /\ 1 <= size /\ loaded \in Nat /\ nextEmit \in Nat /\ size <= 65536
    BY <1>1, <1>5, BlockPlace, CodeSizes DEF Numbers
  <1>11. /\ nextEmit' \in Places /\ dest' \in Seq(Byte) /\ high' \in Nat /\ candidate \in Places
         /\ nextHash \in 0 .. MaxTable - 1 /\ table \in TableType
    BY <1>1, <1>2, Zenon DEF TypeOK, TableType
  <1>12. MatchIsLongest'
    BY <1>4 DEF MatchIsLongest
  <1>13. SizeInv'
    <2>1. 60 * Len(dest) <= 61 * nextEmit /\ high <= Len(dest) + 15
      BY <1>1, <1>2, <1>5 DEF SizeInv
    <2>2. /\ pc' \in {"scan", "literal", "rest", "last"} => 60 * Len(dest') <= 61 * nextEmit'
          /\ high' <= Len(dest') + 15
      BY <1>2, <2>1
    <2>. QED BY <1>1, <1>4, <1>5, <2>2, SizeStep
  <1>14. OutputInv'
    <2>1. Output' = Output /\ Covered' = Covered
      BY <1>2, <1>4, OutputAt, OutputAfter
    <2>. QED BY <1>1, <1>5, <2>1, OutputSame
  <1>15. emit = "returned"
    BY <1>1, <1>2 DEF CallInv
  <1>16. skip' \in Nat /\ skip' \in 32 .. 32 + nextIp'
    <2>1. GoodStep(skip', nextIp')
      BY <1>8
    <2>. QED BY <2>1, StepRange, Zenon DEF GoodStep
  <1>17. CASE nextIp' > ipLimit
    <2>1. /\ pc' = "rest" /\ UNCHANGED emitVars /\ nextHash' = nextHash
          /\ candidate' = candidate /\ table' = table /\ loaded' = loaded
      BY <1>3, <1>17, Zenon
    <2>2. EmitInv' /\ CallInv'
      <3>1. EmitInv' /\ emit' = emit
        BY <1>1, <2>1, EmitKept
      <3>. QED BY <1>15, <2>1, <3>1 DEF CallInv
    <2>3. PlaceInv'
      <3>1. nextEmit <= size
        BY <1>7, <1>8, <1>10, CodeSizes DEF ipLimit
      <3>2. nextEmit' <= size' /\ loaded' <= size'
        BY <1>2, <1>6, <1>7, <2>1, <3>1, Zenon
      <3>. QED BY <2>1, <3>2 DEF PlaceInv
    <2>4. loaded' \in Nat
      BY <1>10, <2>1
    <2>5. candidate' \in Places /\ nextHash' \in 0 .. MaxTable - 1 /\ table' \in TableType
      BY <1>11, <2>1, Zenon
    <2>6. skip' \in Nat
      BY <1>16, Zenon
    <2>. QED BY <1>5, <1>9, <1>11, <1>12, <1>13, <1>14, <2>2, <2>3, <2>4, <2>5, <2>6, FragmentStep
  <1>18. ~(nextIp' > ipLimit) => NotLast
    <2>1. ipLimit = size - 15
      BY <1>10, CodeSizes DEF ipLimit
    <2>2. size \in Nat /\ nextIp' \in Nat /\ nextIp \in Nat /\ nextIp + 1 <= nextIp'
      BY <1>8, <1>10
    <2>3. ~(nextIp' > size - 15) =>
             /\ nextIp' <= size - 15 /\ nextIp < size - 15 /\ nextIp' + 15 <= size /\ nextIp' + 4 <= size
             /\ nextIp + 4 <= size
      BY <2>2, FarFromEnd, Zenon
    <2>4. ~(nextIp' > ipLimit) =>
             /\ nextIp' <= ipLimit /\ nextIp < ipLimit /\ nextIp' + 15 <= size /\ nextIp' + 4 <= size
             /\ nextIp + 4 <= size
      BY <2>1, <2>3, Zenon
    <2>. QED BY <2>4, Zenon DEF NotLast
  <1>19. CASE ~(nextIp' > ipLimit)
    <2>1. /\ nextHash' = HashAt(nextIp', shift)
          /\ candidate' = table[which][nextHash]
          /\ table' = [table EXCEPT ![which][nextHash] = nextIp]
          /\ loaded' = LargerOf(loaded, nextIp' + 4)
          /\ IF Load32(nextIp) = Load32(candidate')
               THEN StartLiteral(nextIp - nextEmit) /\ pc' = "literal"
               ELSE UNCHANGED emitVars /\ pc' = pc
      BY <1>3, <1>19, Zenon
    <2>2. /\ nextIp' <= ipLimit /\ nextIp < ipLimit /\ nextIp' + 15 <= size /\ nextIp' + 4 <= size
          /\ nextIp + 4 <= size
      <3>1. NotLast
        BY <1>19, <1>18, Zenon
      <3>. QED BY <3>1 DEF NotLast
    <2>3. nextHash' \in 0 .. MaxTable - 1
      <3>1. HashAt(nextIp', shift) \in 0 .. MaxTable - 1
        BY <1>1, <1>5, <1>8, <2>2, HashPlace
      <3>. QED BY <2>1, <3>1, Zenon
    <2>4. nextHash \in 0 .. TableSizeNow - 1
      <3>1. HashAt(nextIp, shift) \in 0 .. TableSizeNow - 1
        BY <1>1, <1>5, <1>8, <2>2, HashPlace
      <3>. QED BY <1>7, <3>1, Zenon
    <2>5. candidate' \in Nat /\ candidate' < nextIp
      <3>1. table[which][nextHash] \in Nat
        BY <1>1, <1>5, <2>4, TableInUse
      <3>. QED BY <1>7, <2>1, <2>4, <3>1, Zenon DEF AllBefore
    <2>6. IsPut(table', nextHash, nextIp)
      <3>1. nextIp \in 0 .. kBlockSize - 1
        BY <1>8, <2>2, InRange
      <3>2. IsPut([table EXCEPT ![which][nextHash] = nextIp], nextHash, nextIp)
        BY <1>1, <1>5, <2>4, <3>1, TablePut, Zenon
      <3>. QED BY <2>1, <3>2, Zenon
    <2>7. \A h \in 0 .. TableSizeNow - 1 : table'[which][h] < nextIp + 1 /\ table'[which][h] \in Nat
      <3>1. nextIp \in Nat /\ nextIp <= nextIp
        BY <1>8
      <3>. QED BY <1>1, <1>5, <1>7, <2>6, <3>1, BeforeNext, Zenon
    <2>8. loaded' \in Nat /\ loaded' <= size'
      BY <1>6, <1>7, <1>8, <1>10, <2>1, <2>2 DEF LargerOf
    <2>9. candidate' \in Places
      <3>1. candidate' <= 65536
        BY <1>8, <2>5
      <3>. QED BY <2>5, <3>1, InRange
    <2>10. EmitInv' /\ CallInv'
      <3>1. CASE Load32(nextIp) = Load32(candidate')
        <4>1. PICK n \in Nat : n = nextIp - nextEmit /\ 1 <= n /\ n <= 65536
          BY <1>7, <1>8, <1>10
        <4>2. StartLiteral(n) /\ pc' = "literal"
          BY <2>1, <3>1, <4>1
        <4>3. EmitInv' /\ call' = "literal" /\ total' = n
          BY <4>1, <4>2, StartLiteralInv
        <4>4. total' = ip' - nextEmit'
          BY <1>2, <4>1, <4>3
        <4>. QED BY <4>2, <4>3, <4>4 DEF CallInv
      <3>2. CASE ~(Load32(nextIp) = Load32(candidate'))
        <4>1. UNCHANGED emitVars /\ pc' = "scan"
          BY <1>2, <2>1, <3>2, Zenon
        <4>2. EmitInv' /\ emit' = emit
          BY <1>1, <4>1, EmitKept
        <4>. QED BY <1>15, <4>1, <4>2 DEF CallInv
      <3>. QED BY <3>1, <3>2
    <2>11. PlaceInv'
      <3>1. UNCHANGED <<text, hash, pos, frag, size, scratch>>
        BY <1>6
      <3>2. CASE Load32(nextIp) = Load32(candidate')
        <4>1. pc' = "literal"
          BY <2>1, <3>2, Zenon
        <4>2. AllBefore(ip + 1)'
          BY <1>2, <1>6, <2>7, Zenon DEF AllBefore
        <4>3. Load32(candidate)' = Load32(ip)'
          BY <1>2, <3>1, <3>2, SameBytes, Zenon
        <4>4. candidate' < ip' /\ ip' < ipLimit' /\ nextEmit' < ip'
          BY <1>2, <1>6, <1>7, <2>2, <2>5
        <4>. QED BY <2>8, <4>1, <4>2, <4>3, <4>4 DEF PlaceInv
      <3>3. CASE ~(Load32(nextIp) = Load32(candidate'))
        <4>1. pc' = "scan"
          BY <1>2, <2>1, <3>3, Zenon
        <4>2. AllBefore(nextIp)'
          <5>1. \A h \in 0 .. TableSizeNow - 1 : table'[which][h] < nextIp'
            BY <1>8, <2>7
          <5>. QED BY <1>6, <5>1, Zenon DEF AllBefore
        <4>3. nextHash' = HashAt(nextIp, shift)'
          <5>1. HashAt(nextIp, shift)' = HashAt(nextIp', shift')
            BY <3>1, SameBytes, Zenon
          <5>. QED BY <1>6, <2>1, <5>1, Zenon
        <4>4. nextEmit' < nextIp' /\ nextIp' <= ipLimit'
          BY <1>2, <1>6, <1>7, <1>8, <1>10, <2>2
        <4>5. skip' \in 32 .. 32 + nextIp' /\ loaded' <= size'
          <5>1. skip' \in 32 .. 32 + nextIp'
            BY <1>16, Zenon
          <5>2. loaded' <= size'
            BY <2>8
          <5>. QED BY <5>1, <5>2, Zenon
        <4>6. pc' \notin {"literal", "match", "copy", "rest", "last"}
          BY <4>1
        <4>. QED BY <4>2, <4>3, <4>4, <4>5, <4>6, Zenon DEF PlaceInv
      <3>. QED BY <3>2, <3>3
    <2>12. table' \in TableType
      BY <2>6, Zenon DEF IsPut
    <2>13. skip' \in Nat
      BY <1>16, Zenon
    <2>. QED BY <1>5, <1>9, <1>11, <1>12, <1>13, <1>14, <2>3, <2>8, <2>9, <2>10, <2>11, <2>12, <2>13, FragmentStep
  <1>. QED BY <1>17, <1>19

----------------------------------------------------------------------------
(* After a copy *)

\* Is t the tables with two new entries, and c the one in use with the first of them?
IsPutTwo(t, c, i, v, j, u) ==
  /\ t \in TableType
  /\ \A h \in 0 .. TableSizeNow - 1 : c[h] = IF h = i THEN v ELSE table[which][h]
  /\ \A h \in 0 .. TableSizeNow - 1 : t[which][h] = IF h = j THEN u ELSE c[h]

\* Two places go into the table in use.
LEMMA TablePutTwo ==
  ASSUME TypeOK, Numbers, TableInv, pc \in Compressing,
         NEW i \in 0 .. TableSizeNow - 1, NEW v \in 0 .. kBlockSize - 1,
         NEW j \in 0 .. TableSizeNow - 1, NEW u \in 0 .. kBlockSize - 1,
         NEW c, c = [table[which] EXCEPT ![i] = v]
  PROVE  IsPutTwo([table EXCEPT ![which] = [c EXCEPT ![j] = u]], c, i, v, j, u)
  <1> DEFINE B == 0 .. kBlockSize - 1
             d == [c EXCEPT ![j] = u]
             t == [table EXCEPT ![which] = d]
  <1>1. /\ table[which] \in [Entries -> B]
        /\ \A h \in 0 .. TableSizeNow - 1 : h \in Entries
    BY InUseTyped
  <1>2. i \in Entries /\ j \in Entries /\ v \in B /\ u \in B
    BY <1>1, Zenon
  <1>3. PICK f : f \in [Entries -> B] /\ f = table[which]
    BY <1>1, Zenon
  <1>4. c = [f EXCEPT ![i] = v]
    BY <1>3
  <1> HIDE DEF B
  <1>5. c \in [Entries -> B] /\ \A h \in Entries : c[h] = IF h = i THEN v ELSE f[h]
    BY <1>2, <1>3, <1>4
  <1>6. d \in [Entries -> B] /\ \A h \in Entries : d[h] = IF h = j THEN u ELSE c[h]
    BY <1>2, <1>5
  <1> HIDE DEF d
  <1>7. t \in TableType /\ t[which] = d
    BY <1>6, TableWith, Zenon DEF B
  <1> HIDE DEF t
  <1>8. \A h \in 0 .. TableSizeNow - 1 : c[h] = IF h = i THEN v ELSE table[which][h]
    BY <1>1, <1>3, <1>5, Zenon
  <1>9. \A h \in 0 .. TableSizeNow - 1 : t[which][h] = IF h = j THEN u ELSE c[h]
    BY <1>1, <1>6, <1>7, Zenon
  <1>. QED BY <1>7, <1>8, <1>9, Zenon DEF IsPutTwo, t, d

\* The entries are then before the place after the second.
LEMMA BeforeNextTwo ==
  ASSUME TypeOK, Numbers, TableInv, pc \in Compressing, NEW v \in Nat, NEW u \in Nat, u = v + 1,
         AllBefore(u), NEW i, NEW j \in 0 .. TableSizeNow - 1, NEW t, NEW c, IsPutTwo(t, c, i, v, j, u)
  PROVE  /\ c[j] \in Nat /\ c[j] < u
         /\ \A h \in 0 .. TableSizeNow - 1 : t[which][h] < u + 1
  <1>1. ASSUME NEW h \in 0 .. TableSizeNow - 1
        PROVE  c[h] \in Nat /\ c[h] < u /\ t[which][h] < u + 1
    <2>1. table[which][h] < u /\ table[which][h] \in Nat
      BY TableInUse DEF AllBefore
    <2>2. c[h] = IF h = i THEN v ELSE table[which][h]
      BY Zenon DEF IsPutTwo
    <2>3. t[which][h] = IF h = j THEN u ELSE c[h]
      BY Zenon DEF IsPutTwo
    <2>4. c[h] \in Nat /\ c[h] < u
      BY <2>1, <2>2
    <2>. QED BY <2>3, <2>4
  <1>. QED BY <1>1

\* A copy leaves room behind it.
LEMMA CopySize ==
  \A a, d, o, i, t \in Nat :
    60 * d <= 61 * (i - t) + 60 /\ t <= i /\ 4 * o <= 3 * t /\ 4 <= t /\ a = d + o => 60 * a <= 61 * i
  OBVIOUS

\* What is true when a copy is complete, whatever follows.
CopyIsDone ==
  /\ ip \in Nat /\ 1 <= ip /\ ip <= size /\ AllBefore(ip) /\ loaded <= size /\ left = 0
  /\ dest \o op \in Seq(Byte) /\ Len(dest \o op) = Len(dest) + Len(op)
  /\ 60 * Len(dest \o op) <= 61 * ip

\* When a copy has been emitted, that is so.
LEMMA CopyDoneIs ==
  ASSUME CompressInv, pc = "copy", emit = "returned"
  PROVE  CopyIsDone
  <1>1. /\ TypeOK /\ EmitInv /\ PlaceInv /\ CallInv /\ SizeInv /\ Numbers
    BY Parts
  <1>2. call = "copy" /\ total + offset <= ip /\ ip <= size /\ AllBefore(ip) /\ loaded <= size
    BY <1>1 DEF CallInv, PlaceInv
  <1>3. left = 0 /\ total \in Nat /\ 4 <= total /\ offset \in Nat
    <2>1. total \in 4 .. kBlockSize /\ offset \in 1 .. kBlockSize - 1 /\ left = 0
      BY <1>1, <1>2 DEF EmitInv, EmitTypeOK
    <2>2. kBlockSize \in Nat
      BY SMT DEF kBlockSize
    <2>. QED BY <2>1, <2>2
  <1>4. 4 * Len(op) <= 3 * total
    <2>1. 4 * Len(op) <= 3 * (total - left)
      BY <1>1, <1>2, Zenon DEF EmitInv, RoomInv
    <2>. QED BY <1>3, <2>1
  <1>5. 60 * Len(dest) <= 61 * (ip - total) + 60
    BY <1>1 DEF SizeInv
  <1>6. dest \in Seq(Byte) /\ op \in Seq(Byte) /\ ip \in Nat /\ Len(dest) \in Nat /\ Len(op) \in Nat
    BY <1>1 DEF Numbers
  <1>7. dest \o op \in Seq(Byte) /\ Len(dest \o op) = Len(dest) + Len(op)
    BY <1>6, Joined, Zenon
  <1>8. total <= ip /\ 1 <= ip
    BY <1>2, <1>3, <1>6
  <1>9. 60 * Len(dest \o op) <= 61 * ip
    <2>1. Len(dest \o op) \in Nat
      BY <1>6, <1>7
    <2>. QED BY <1>3, <1>4, <1>5, <1>6, <1>7, <1>8, <2>1, CopySize
  <1>. QED BY <1>2, <1>3, <1>6, <1>7, <1>8, <1>9, Zenon DEF CopyIsDone

\* A copy is complete.
LEMMA CopyDoneInv ==
  ASSUME CompressInv, CopyDone, UNCHANGED call_
  PROVE  CompressInv'
  <1>1. /\ TypeOK /\ EmitInv /\ BlockInv /\ BuffersInv /\ TableInv /\ PlaceInv /\ CallInv
        /\ MatchIsLongest /\ SizeInv /\ OutputInv /\ Numbers
    BY Parts
  <1> DEFINE i1 == HashAt(ip - 1, shift)
             i2 == HashAt(ip, shift)
             c  == [table[which] EXCEPT ![i1] = ip - 1]
  <1>2. /\ pc = "copy" /\ emit = "returned" /\ UNCHANGED <<blocks, hashing, room, sink>>
        /\ UNCHANGED emitVars /\ ip' = ip /\ nextEmit' = ip /\ dest' = dest \o op
        /\ high' = LargerOf(high, Len(dest) + Len(op))
    BY Zenon DEF CopyDone
  <1>3. /\ ip >= ipLimit => /\ pc' = "rest" /\ nextHash' = nextHash /\ nextIp' = nextIp /\ skip' = skip
                            /\ candidate' = candidate /\ table' = table /\ loaded' = loaded
        /\ ~(ip >= ipLimit) =>
             /\ loaded' = LargerOf(loaded, ip + 7)
             /\ candidate' = c[i2]
             /\ table' = [table EXCEPT ![which] = [c EXCEPT ![i2] = ip]]
             /\ IF Load32(ip) = Load32(candidate')
                  THEN pc' = "match" /\ nextHash' = nextHash /\ nextIp' = nextIp /\ skip' = skip
                  ELSE /\ nextHash' = HashAt(ip + 1, shift) /\ nextIp' = ip + 1 /\ skip' = 32
                       /\ pc' = "scan"
    BY Zenon DEF CopyDone, looking
  <1> HIDE DEF i1, i2, c
  <1>4. pc' \in {"rest", "match", "scan"}
    BY <1>3, Zenon
  <1>5. InFragment /\ pc \in Compressing /\ pc \in InBlock
    BY <1>2, <1>4, Zenon DEF InFragment, Compressing, InBlock
  <1>6. /\ size' = size /\ ipLimit' = ipLimit /\ TableSizeNow' = TableSizeNow /\ which' = which /\ shift' = shift
        /\ text' = text /\ hash' = hash /\ pos' = pos /\ frag' = frag /\ scratch' = scratch
    BY <1>5, FragmentKeeps
  <1>7. CopyIsDone
    BY <1>2, CopyDoneIs
  <1>8. /\ ip \in Nat /\ 1 <= ip /\ ip <= size /\ AllBefore(ip) /\ loaded <= size /\ left = 0
        /\ dest' \in Seq(Byte) /\ Len(dest') = Len(dest) + Len(op) /\ 60 * Len(dest') <= 61 * ip
    BY <1>2, <1>7, Zenon DEF CopyIsDone
  <1>9. /\ high <= Len(dest) + 15 /\ high \in Nat /\ loaded \in Nat /\ size \in Nat
        /\ Len(dest) \in Nat /\ Len(op) \in Nat
    BY <1>1, <1>2, <1>5 DEF SizeInv, Numbers
  <1>10. high' \in Nat /\ high' <= Len(dest') + 15
    BY <1>2, <1>8, <1>9 DEF LargerOf
  <1>11. /\ ip' \in Places /\ nextEmit' \in Places /\ candidate \in Places /\ nextIp \in 0 .. 2 * kBlockSize
         /\ skip \in Nat /\ nextHash \in 0 .. MaxTable - 1 /\ table \in TableType
    BY <1>1, <1>2, Zenon DEF TypeOK, TableType
  <1>12. MatchIsLongest'
    BY <1>4 DEF MatchIsLongest
  <1>13. EmitInv' /\ CallInv'
    <2>1. EmitInv' /\ emit' = emit
      BY <1>1, <1>2, EmitKept
    <2>. QED BY <1>2, <1>4, <2>1 DEF CallInv
  <1>14. SizeInv'
    <2>1. /\ pc' \in {"scan", "literal", "rest", "last"} => 60 * Len(dest') <= 61 * nextEmit'
          /\ pc' = "match" => 60 * Len(dest') <= 61 * ip' + 60
          /\ high' <= Len(dest') + 15
      BY <1>2, <1>8, <1>9, <1>10
    <2>. QED BY <1>1, <1>4, <1>5, <2>1, SizeStep
  <1>15. OutputInv'
    <2>1. Output' = dest' /\ Covered' = ip
      BY <1>2, <1>4, OutputAfter
    <2>2. Output = dest \o op /\ Covered = ip
      BY <1>2, <1>8, OutputAt
    <2>3. Output' = Output /\ Covered' = Covered
      BY <1>2, <2>1, <2>2, Zenon
    <2>. QED BY <1>1, <1>5, <2>3, OutputSame
  <1>16. CASE ip >= ipLimit
    <2>1. /\ pc' = "rest" /\ nextHash' = nextHash /\ nextIp' = nextIp /\ skip' = skip
          /\ candidate' = candidate /\ table' = table /\ loaded' = loaded
      BY <1>3, <1>16, Zenon
    <2>2. PlaceInv'
      <3>1. nextEmit' <= size' /\ loaded' <= size'
        BY <1>2, <1>6, <1>8, <2>1, Zenon
      <3>. QED BY <2>1, <3>1 DEF PlaceInv
    <2>3. /\ candidate' \in Places /\ nextIp' \in 0 .. 2 * kBlockSize
          /\ skip' \in Nat /\ nextHash' \in 0 .. MaxTable - 1 /\ table' \in TableType /\ loaded' \in Nat
      BY <1>9, <1>11, <2>1, Zenon
    <2>. QED BY <1>5, <1>8, <1>10, <1>11, <1>12, <1>13, <1>14, <1>15, <2>2, <2>3, FragmentStep, Zenon
  <1>17. ~(ip >= ipLimit) => /\ ip + 15 < size /\ ip < ipLimit /\ ip + 1 <= ipLimit
                             /\ ip + 1 + 4 <= size /\ ip + 4 <= size /\ ip + 7 <= size
                             /\ ip - 1 \in Nat /\ ip - 1 + 4 <= size /\ ip = ip - 1 + 1
    <2>1. ipLimit = size - 15
      BY <1>9, CodeSizes DEF ipLimit
    <2>. QED BY <1>8, <1>9, <2>1
  <1>18. CASE ~(ip >= ipLimit)
    <2>1. /\ loaded' = LargerOf(loaded, ip + 7)
          /\ candidate' = c[i2]
          /\ table' = [table EXCEPT ![which] = [c EXCEPT ![i2] = ip]]
          /\ IF Load32(ip) = Load32(candidate')
               THEN pc' = "match" /\ nextHash' = nextHash /\ nextIp' = nextIp /\ skip' = skip
               ELSE /\ nextHash' = HashAt(ip + 1, shift) /\ nextIp' = ip + 1 /\ skip' = 32
                    /\ pc' = "scan"
      BY <1>3, <1>18, Zenon
    <2>2. /\ ip + 15 < size /\ ip < ipLimit /\ ip + 1 <= ipLimit
          /\ ip + 1 + 4 <= size /\ ip + 4 <= size /\ ip + 7 <= size
          /\ ip - 1 \in Nat /\ ip - 1 + 4 <= size /\ ip = ip - 1 + 1
      BY <1>17, <1>18, Zenon
    <2>3. i1 \in 0 .. TableSizeNow - 1 /\ i2 \in 0 .. TableSizeNow - 1
      BY <1>1, <1>5, <1>8, <2>2, HashAtInside, Zenon DEF i1, i2
    <2>4. PICK v \in Nat : v = ip - 1 /\ ip = v + 1 /\ v \in 0 .. kBlockSize - 1 /\ ip \in 0 .. kBlockSize - 1
      <3>1. size <= 65536
        BY <1>1, CodeSizes DEF Numbers
      <3>2. ip <= 65535 /\ ip - 1 <= 65535
        BY <1>8, <1>9, <2>2, <3>1
      <3>. QED BY <1>8, <2>2, <3>2, InRange
    <2>5. IsPutTwo(table', c, i1, v, i2, ip)
      <3>1. c = [table[which] EXCEPT ![i1] = v]
        BY <2>4, Zenon DEF c
      <3>2. IsPutTwo([table EXCEPT ![which] = [c EXCEPT ![i2] = ip]], c, i1, v, i2, ip)
        BY <1>1, <1>5, <2>3, <2>4, <3>1, TablePutTwo, Zenon
      <3>. QED BY <2>1, <3>2, Zenon
    <2>6. /\ c[i2] \in Nat /\ c[i2] < ip
          /\ \A h \in 0 .. TableSizeNow - 1 : table'[which][h] < ip + 1
      BY <1>1, <1>5, <1>8, <2>3, <2>4, <2>5, BeforeNextTwo, Zenon
    <2>7. candidate' \in Nat /\ candidate' < ip
      BY <2>1, <2>6, Zenon
    <2>8. candidate' \in Places
      <3>1. candidate' <= 65536
        <4>1. size <= 65536
          BY <1>1, CodeSizes DEF Numbers
        <4>. QED BY <1>8, <1>9, <2>7, <4>1
      <3>. QED BY <2>7, <3>1, InRange
    <2>9. loaded' \in Nat /\ loaded' <= size'
      BY <1>6, <1>8, <1>9, <2>1, <2>2 DEF LargerOf
    <2>10. table' \in TableType
      BY <2>5, Zenon DEF IsPutTwo
    <2>11. nextIp' \in 0 .. 2 * kBlockSize /\ skip' \in Nat /\ nextHash' \in 0 .. MaxTable - 1
      <3>1. ip + 1 \in Nat /\ ip + 1 <= 131072 /\ 32 \in Nat
        <4>1. size <= 65536
          BY <1>1, CodeSizes DEF Numbers
        <4>. QED BY <1>8, <1>9, <2>2, <4>1
      <3>2. ip + 1 \in 0 .. 2 * kBlockSize
        BY <3>1, InRange
      <3>3. HashAt(ip + 1, shift) \in 0 .. MaxTable - 1
        <4>1. ip + 1 \in Nat /\ ip + 1 + 4 <= size
          BY <1>8, <2>2
        <4>. QED BY <1>1, <1>5, <4>1, HashPlace, Zenon
      <3>4. 32 \in Nat
        OBVIOUS
      <3>. QED BY <1>11, <2>1, <3>2, <3>3, <3>4, Zenon
    <2>12. PlaceInv'
      <3>1. UNCHANGED <<text, hash, pos, frag, size, scratch>>
        BY <1>6
      <3>2. CASE Load32(ip) = Load32(candidate')
        <4>1. pc' = "match"
          BY <2>1, <3>2, Zenon
        <4>2. AllBefore(ip + 1)'
          BY <1>2, <1>6, <2>6, Zenon DEF AllBefore
        <4>3. Load32(candidate)' = Load32(ip)'
          BY <1>2, <3>1, <3>2, SameBytes, Zenon
        <4>4. candidate' < ip' /\ ip' < ipLimit'
          BY <1>2, <1>6, <2>2, <2>7, Zenon
        <4>. QED BY <2>9, <4>1, <4>2, <4>3, <4>4 DEF PlaceInv
      <3>3. CASE ~(Load32(ip) = Load32(candidate'))
        <4>1. /\ nextHash' = HashAt(ip + 1, shift) /\ nextIp' = ip + 1 /\ skip' = 32
              /\ pc' = "scan"
          BY <2>1, <3>3, Zenon
        <4>2. AllBefore(nextIp)'
          BY <1>6, <2>6, <4>1, Zenon DEF AllBefore
        <4>3. nextHash' = HashAt(nextIp, shift)'
          <5>1. HashAt(nextIp, shift)' = HashAt(nextIp', shift')
            BY <3>1, SameBytes, Zenon
          <5>. QED BY <1>6, <4>1, <5>1, Zenon
        <4>4. nextEmit' < nextIp' /\ nextIp' <= ipLimit' /\ skip' \in 32 .. 32 + nextIp'
          <5>1. ip < ip + 1 /\ 32 \in 32 .. 32 + (ip + 1)
            BY <1>8
          <5>. QED BY <1>2, <1>6, <2>2, <4>1, <5>1, Zenon
        <4>5. pc' \notin {"literal", "match", "copy", "rest", "last"}
          BY <4>1
        <4>. QED BY <2>9, <4>2, <4>3, <4>4, <4>5, Zenon DEF PlaceInv
      <3>. QED BY <3>2, <3>3
    <2>. QED BY <1>5, <1>8, <1>10, <1>11, <1>12, <1>13, <1>14, <1>15, <2>8, <2>9, <2>10, <2>11, <2>12, FragmentStep, Zenon
  <1>. QED BY <1>16, <1>18

----------------------------------------------------------------------------
(* The start of a block *)

\* The same output in a step outside CompressFragment.
LEMMA OutputOutside ==
  ASSUME OutputInv, text' = text, N' = N, sink' = sink, pc \notin {"called", "refused"},
         Output' = Output, Covered' = Covered
  PROVE  OutputInv'
  <1>1. Earlier' = Earlier /\ Header' = Header
    BY Zenon DEF Earlier, Header
  <1>. QED BY <1>1, Zenon DEF OutputInv

\* The block, where it does not change.
LEMMA BlockKept ==
  ASSUME BlockInv, call_' = call_, blocks' = blocks, sink' = sink, pc \in InBlock, pc' \in InBlock
  PROVE  BlockInv'
  <1>1. /\ text' = text /\ pos' = pos /\ N' = N /\ frag' = frag /\ size' = size /\ scratch' = scratch
        /\ filled' = filled /\ sink' = sink
    BY DEF call_, blocks
  <1>2. Earlier' = Earlier /\ NextSize' = NextSize
    BY <1>1, Zenon DEF Earlier, NextSize
  <1>3. Collected' = Collected
    BY <1>1, <1>2, Zenon DEF Collected
  <1>4. pc' \notin {"called", "refused", "block", "done", "fill"}
    BY DEF InBlock, Compressing
  <1>5. /\ N > 0 /\ size = NextSize
        /\ IF frag = "source" THEN pos = Earlier
                              ELSE Collected /\ filled = size /\ pos = Earlier + size
    BY Zenon DEF BlockInv
  <1>6. /\ N' > 0 /\ size' = NextSize'
        /\ IF frag' = "source" THEN pos' = Earlier'
                               ELSE Collected' /\ filled' = size' /\ pos' = Earlier' + size'
    BY <1>1, <1>2, <1>3, <1>5, Zenon
  <1>. QED BY <1>4, <1>6 DEF BlockInv

\* Table t, of which the one named w is empty below n.
IsCleared(t, w, n) == t \in TableType /\ \A h \in 0 .. n - 1 : t[w][h] = 0

\* A table that is cleared holds place zero only where the block uses it.
LEMMA ClearedIs ==
  ASSUME TypeOK, NEW n \in Nat, 1 <= n, n <= MaxTable,
         NEW w, w = IF n <= SmallTable THEN "small" ELSE "large",
         NEW t, t = [table EXCEPT ![w] = Cleared(@, n)]
  PROVE  IsCleared(t, w, n)
  <1> DEFINE B == 0 .. kBlockSize - 1
             c == Cleared(table[w], n)
  <1>1. table \in [small : [0 .. SmallTable - 1 -> B], large : [0 .. MaxTable - 1 -> B]]
    BY Zenon DEF TypeOK
  <1>2. 0 \in B
    <2>1. 0 \in Nat /\ 0 <= 65535
      OBVIOUS
    <2>. QED BY <2>1, InRange
  <1> HIDE DEF B
  <1>3. CASE n <= SmallTable
    <2>1. w = "small"
      BY <1>3
    <2>2. PICK f : f \in [0 .. SmallTable - 1 -> B] /\ f = table[w]
      BY <1>1, <2>1
    <2>3. c = [h \in 0 .. SmallTable - 1 |-> IF h < n THEN 0 ELSE f[h]]
      BY <2>2 DEF Cleared
    <2>4. c \in [0 .. SmallTable - 1 -> B]
      <3> DEFINE D == 0 .. SmallTable - 1
      <3>1. f \in [D -> B] /\ c = [h \in D |-> IF h < n THEN 0 ELSE f[h]]
        BY <2>2, <2>3, Zenon
      <3> HIDE DEF D, c
      <3>2. \A h \in D : (IF h < n THEN 0 ELSE f[h]) \in B
        BY <1>2, <3>1
      <3>3. c \in [D -> B]
        BY <3>1, <3>2
      <3>. QED BY <3>3 DEF D
    <2>5. \A h \in 0 .. n - 1 : c[h] = 0
      BY <1>3, <2>3, Tables
    <2> HIDE DEF c
    <2>6. [table EXCEPT ![w] = c] \in TableType /\ [table EXCEPT ![w] = c][w] = c
      BY <1>1, <2>1, <2>4 DEF TableType, B
    <2>7. t = [table EXCEPT ![w] = c]
      BY DEF c
    <2>. QED BY <2>5, <2>6, <2>7, Zenon DEF IsCleared
  <1>4. CASE ~(n <= SmallTable)
    <2>1. w = "large"
      BY <1>4
    <2>2. PICK f : f \in [0 .. MaxTable - 1 -> B] /\ f = table[w]
      BY <1>1, <2>1
    <2>3. c = [h \in 0 .. MaxTable - 1 |-> IF h < n THEN 0 ELSE f[h]]
      BY <2>2 DEF Cleared
    <2>4. c \in [0 .. MaxTable - 1 -> B]
      <3> DEFINE D == 0 .. MaxTable - 1
      <3>1. f \in [D -> B] /\ c = [h \in D |-> IF h < n THEN 0 ELSE f[h]]
        BY <2>2, <2>3, Zenon
      <3> HIDE DEF D, c
      <3>2. \A h \in D : (IF h < n THEN 0 ELSE f[h]) \in B
        BY <1>2, <3>1
      <3>3. c \in [D -> B]
        BY <3>1, <3>2
      <3>. QED BY <3>3 DEF D
    <2>5. \A h \in 0 .. n - 1 : c[h] = 0
      BY <1>4, <2>3, Tables
    <2> HIDE DEF c
    <2>6. [table EXCEPT ![w] = c] \in TableType /\ [table EXCEPT ![w] = c][w] = c
      BY <1>1, <2>1, <2>4 DEF TableType, B
    <2>7. t = [table EXCEPT ![w] = c]
      BY DEF c
    <2>. QED BY <2>5, <2>6, <2>7, Zenon DEF IsCleared
  <1>. QED BY <1>3, <1>4

\* A buffer for a block has room for its output.
LEMMA RoomIs ==
  ASSUME NEW n \in Nat
  PROVE  MaxCompressedLength(n) \in Nat /\ 32 + n <= MaxCompressedLength(n)
  BY DEF MaxCompressedLength

\* A block is begun.
LEMMA StartFragmentInv ==
  ASSUME CompressInv, StartFragment, UNCHANGED call_
  PROVE  CompressInv'
  <1>1. /\ TypeOK /\ EmitInv /\ BlockInv /\ BuffersInv /\ TableInv /\ PlaceInv /\ CallInv
        /\ MatchIsLongest /\ SizeInv /\ OutputInv /\ Numbers
    BY Parts
  <1>2. /\ pc = "table" /\ UNCHANGED emitVars /\ UNCHANGED blocks /\ candidate' = candidate /\ sink' = sink
        /\ shift' = 32 - Log2Floor(BitsOf(TableSizeNow))
        /\ which' = IF TableSizeNow <= SmallTable THEN "small" ELSE "large"
        /\ table' = [table EXCEPT ![which'] = Cleared(@, TableSizeNow)]
        /\ room' = IF room = 0 THEN MaxCompressedLength(size) ELSE room
        /\ nextEmit' = 0 /\ dest' = << >> /\ high' = 0 /\ skip' = 32
    BY Zenon DEF StartFragment
  <1>3. /\ size >= kInputMarginBytes =>
             ip' = 1 /\ nextIp' = 1 /\ nextHash' = HashAt(1, shift') /\ loaded' = 5 /\ pc' = "scan"
        /\ ~(size >= kInputMarginBytes) =>
             ip' = 0 /\ loaded' = 0 /\ pc' = "rest" /\ nextIp' = nextIp /\ nextHash' = nextHash
    BY Zenon DEF StartFragment
  <1>4. pc' \in {"scan", "rest"} /\ pc \in InBlock /\ pc' \in InBlock /\ pc' \in Steps
    BY <1>2, <1>3 DEF InBlock, Compressing, Steps
  <1>5. /\ text' = text /\ hash' = hash /\ arch' = arch /\ capacity' = capacity
        /\ pos' = pos /\ N' = N /\ frag' = frag /\ size' = size /\ scratch' = scratch
        /\ filled' = filled
    BY <1>2 DEF call_, blocks
  <1>6. /\ NextSize' = NextSize /\ TableSizeNow' = TableSizeNow /\ ipLimit' = ipLimit /\ Earlier' = Earlier
    BY <1>5, Zenon DEF NextSize, TableSizeNow, ipLimit, Earlier
  <1>7. size \in Nat /\ 1 <= size /\ size = NextSize /\ size <= N /\ N <= Len(text) /\ Len(text) \in Nat
    BY <1>1, <1>4, BlockPlace DEF Numbers
  <1>8. TableSizeNow \in Powers /\ TableSizeNow \in Nat /\ 1 <= TableSizeNow /\ TableSizeNow <= MaxTable
    BY <1>7, TableSizeIs DEF TableSizeNow
  <1>9. shift' \in 0 .. 32 /\ 2 ^ (32 - shift') = TableSizeNow
    BY <1>2, <1>8, ShiftIs, Zenon
  <1>10. table' \in TableType /\ \A h \in 0 .. TableSizeNow - 1 : table'[which'][h] = 0
    <2>1. which' = IF TableSizeNow <= SmallTable THEN "small" ELSE "large"
      BY <1>2, Zenon
    <2>2. table' = [table EXCEPT ![which'] = Cleared(@, TableSizeNow)]
      BY <1>2, Zenon
    <2>3. TypeOK /\ TableSizeNow \in Nat /\ 1 <= TableSizeNow /\ TableSizeNow <= MaxTable
      BY <1>1, <1>8, Zenon
    <2>4. IsCleared(table', which', TableSizeNow)
      BY <2>1, <2>2, <2>3, ClearedIs, Zenon
    <2>. QED BY <2>4, Zenon DEF IsCleared
  <1>11. which' \in {"small", "large"}
    BY <1>2
  <1>12. EmitInv' /\ CallInv'
    <2>1. emit = "returned"
      BY <1>1, <1>2 DEF CallInv
    <2>2. EmitInv' /\ emit' = emit
      BY <1>1, <1>2, EmitKept
    <2>. QED BY <1>4, <2>1, <2>2 DEF CallInv
  <1>13. BlockInv'
    BY <1>1, <1>2, <1>4, BlockKept
  <1>14. room' \in Nat /\ BuffersInv'
    <2>1. /\ capacity >= MaxCompressedLength(Len(text))
          /\ room # 0 => MaxCompressedLength(NextSize) <= room
          /\ scratch # << >> => NextSize <= Len(scratch)
      BY <1>1, <1>2 DEF BuffersInv
    <2>2. /\ MaxCompressedLength(NextSize)' = MaxCompressedLength(NextSize)
          /\ MaxCompressedLength(Len(text))' = MaxCompressedLength(Len(text))
      BY <1>5, <1>6, Zenon DEF MaxCompressedLength
    <2>3. MaxCompressedLength(size) \in Nat /\ MaxCompressedLength(size) # 0
      BY <1>7, RoomIs
    <2>4. room' \in Nat /\ room' # 0 /\ MaxCompressedLength(NextSize) <= room'
      BY <1>1, <1>2, <1>7, <2>1, <2>3 DEF Numbers
    <2>. QED BY <1>4, <1>5, <1>6, <2>1, <2>2, <2>4 DEF BuffersInv
  <1>15. TableInv'
    BY <1>2, <1>6, <1>9, Zenon DEF TableInv
  <1>16. SizeInv'
    <2>1. 60 * Len(sink) <= 300 + 70 * Earlier + (IF N = 0 THEN 60 ELSE 0)
      BY <1>1, Zenon DEF SizeInv
    <2>2. 60 * Len(sink') <= 300 + 70 * Earlier' + (IF N' = 0 THEN 60 ELSE 0)
      BY <1>2, <1>5, <1>6, <2>1, Zenon
    <2>3. 60 * Len(dest') <= 61 * nextEmit' /\ high' <= Len(dest') + 15
      BY <1>2
    <2>. QED BY <1>4, <2>2, <2>3 DEF SizeInv
  <1>17. OutputInv'
    <2>1. Output' = Output /\ Covered' = Covered
      BY <1>2, <1>4, OutputAt, OutputAfter
    <2>. QED BY <1>1, <1>2, <1>4, <1>5, <2>1, OutputOutside
  <1>18. MatchIsLongest'
    BY <1>4 DEF MatchIsLongest
  <1>19. /\ ip' \in Places /\ nextEmit' \in Places /\ candidate' \in Places
         /\ nextIp' \in 0 .. 2 * kBlockSize /\ skip' \in Nat /\ loaded' \in Nat
         /\ nextHash' \in 0 .. MaxTable - 1 /\ loaded' <= size
    <2>1. /\ 0 \in Places /\ 1 \in Places /\ 1 \in 0 .. 2 * kBlockSize /\ 32 \in Nat /\ 5 \in Nat /\ 0 \in Nat
      <3>1. 0 \in Nat /\ 0 <= 65536 /\ 1 \in Nat /\ 1 <= 65536 /\ 1 <= 131072 /\ 32 \in Nat /\ 5 \in Nat
        OBVIOUS
      <3>. QED BY <3>1, InRange
    <2>2. candidate \in Places /\ nextIp \in 0 .. 2 * kBlockSize /\ nextHash \in 0 .. MaxTable - 1
      BY <1>1, Zenon DEF TypeOK
    <2>3. CASE size >= kInputMarginBytes
      <3>1. 1 \in Nat /\ 1 + 4 <= size /\ 5 <= size
        BY <1>7, <2>3, CodeSizes
      <3>2. Hash(hash, Load32(1), TableSizeNow) \in 0 .. TableSizeNow - 1
        BY <1>1, <1>4, <1>8, <3>1, HashInside, Zenon
      <3>3. HashAt(1, shift') \in 0 .. TableSizeNow - 1
        BY <1>9, <3>2, Zenon DEF HashAt
      <3>4. HashAt(1, shift') \in 0 .. MaxTable - 1
        BY <1>8, <3>3, Tables
      <3>. QED BY <1>2, <1>3, <2>1, <2>2, <2>3, <3>1, <3>4, Zenon
    <2>4. CASE ~(size >= kInputMarginBytes)
      <3>1. 0 <= size
        BY <1>7
      <3>. QED BY <1>2, <1>3, <2>1, <2>2, <2>4, <3>1, Zenon
    <2>. QED BY <2>3, <2>4
  <1>20. PlaceInv'
    <2>1. UNCHANGED <<text, hash, pos, frag, size, scratch>>
      BY <1>5
    <2>2. loaded' <= size' /\ nextEmit' <= size'
      BY <1>2, <1>5, <1>7, <1>19
    <2>3. CASE size >= kInputMarginBytes
      <3>1. ip' = 1 /\ nextIp' = 1 /\ nextHash' = HashAt(1, shift') /\ pc' = "scan"
        BY <1>3, <2>3, Zenon
      <3>2. HashAt(nextIp, shift)' = HashAt(1, shift')
        BY <2>1, <3>1, SameBytes, Zenon
      <3>3. AllBefore(nextIp)'
        <4>1. \A h \in 0 .. TableSizeNow - 1 : table'[which'][h] < 1
          BY <1>10
        <4>. QED BY <1>6, <3>1, <4>1, Zenon DEF AllBefore
      <3>4. skip' \in 32 .. 32 + nextIp' /\ nextEmit' < nextIp'
        BY <1>2, <3>1
      <3>5. pc' \notin {"literal", "match", "copy", "rest", "last"}
        BY <3>1
      <3>. QED BY <2>2, <3>1, <3>2, <3>3, <3>4, <3>5, Zenon DEF PlaceInv
    <2>4. CASE ~(size >= kInputMarginBytes)
      <3>1. pc' = "rest"
        BY <1>3, <2>4, Zenon
      <3>. QED BY <2>2, <3>1 DEF PlaceInv
    <2>. QED BY <2>3, <2>4
  <1>21. TypeOK'
    <2>1. EmitTypeOK' /\ dest' \in Seq(Byte) /\ high' \in Nat
      BY <1>2, <1>12 DEF EmitInv
    <2>. QED BY <1>1, <1>2, <1>4, <1>5, <1>9, <1>10, <1>11, <1>14, <1>19, <2>1, Zenon DEF TypeOK, TableType, Steps
  <1>. QED BY <1>12, <1>13, <1>14, <1>15, <1>16, <1>17, <1>18, <1>20, <1>21, Zenon DEF CompressInv

----------------------------------------------------------------------------
(* The steps between blocks *)

\* A step of Compress that leaves CompressFragment's state alone.
Outside ==
  /\ pc \in {"called", "block", "fill", "append"} /\ pc' \in {"block", "fill", "table", "done", "refused"}
  /\ pc = "fill" => pc' \in {"fill", "table"}
  /\ UNCHANGED <<emitVars, call_, table, hashing, ip, looking, candidate, nextEmit, loaded, written, room>>

\* How much was written in the sink.
SinkFits == 60 * Len(sink) <= 300 + 70 * Earlier + (IF N = 0 THEN 60 ELSE 0)

\* What a step between blocks leaves alone, and what it asks for.
LEMMA OutsideStep ==
  ASSUME CompressInv, Outside,
         pos' \in 0 .. Len(text), N' \in 0 .. Len(text), frag' \in {"source", "scratch"},
         size' \in 0 .. BlockSize, scratch' \in Seq(Byte \cup {Garbage}), filled' \in 0 .. BlockSize,
         sink' \in Seq(Byte), pc' \notin {"fill", "table"} => size' = size,
         BlockInv', BuffersInv', SinkFits', OutputInv'
  PROVE  CompressInv'
  <1>1. /\ TypeOK /\ EmitInv /\ BlockInv /\ BuffersInv /\ TableInv /\ PlaceInv /\ CallInv
        /\ MatchIsLongest /\ SizeInv /\ OutputInv /\ Numbers
    BY Parts
  <1>2. /\ UNCHANGED emitVars
        /\ text' = text /\ hash' = hash /\ arch' = arch /\ capacity' = capacity
        /\ table' = table /\ shift' = shift /\ which' = which /\ ip' = ip /\ nextIp' = nextIp
        /\ nextHash' = nextHash /\ skip' = skip /\ candidate' = candidate /\ nextEmit' = nextEmit
        /\ loaded' = loaded /\ dest' = dest /\ high' = high /\ room' = room
    BY Zenon DEF Outside, call_, hashing, looking, written
  <1>3. /\ pc \in {"called", "block", "fill", "append"}
        /\ pc' \in {"block", "fill", "table", "done", "refused"}
    BY Zenon DEF Outside
  <1>4. emit = "returned"
    BY <1>1, <1>3 DEF CallInv
  <1>5. EmitInv' /\ emit' = "returned"
    BY <1>1, <1>2, <1>4, EmitKept
  <1>6. CallInv' /\ MatchIsLongest' /\ TableInv'
    BY <1>3, <1>5 DEF CallInv, MatchIsLongest, TableInv, Compressing
  <1>7. PlaceInv'
    <2>1. pc' \notin {"fill", "table"} => loaded <= size /\ size' = size
      <3>1. pc = "fill" => pc' \in {"fill", "table"}
        BY Zenon DEF Outside
      <3>. QED BY <1>1, <1>3, <3>1 DEF PlaceInv
    <2>. QED BY <1>2, <1>3, <2>1 DEF PlaceInv
  <1>8. SizeInv'
    BY <1>3 DEF SizeInv, SinkFits, Compressing
  <1>9. pc' \in Steps
    BY <1>3 DEF Steps
  <1>10. TypeOK'
    BY <1>1, <1>2, <1>5, <1>9, Zenon DEF TypeOK, EmitInv, Steps
  <1>. QED BY <1>5, <1>6, <1>7, <1>8, <1>10, Zenon DEF CompressInv

\* The step leaves the block alone as well.
LEMMA SameBlock ==
  ASSUME TypeOK, UNCHANGED blocks, text' = text
  PROVE  /\ pos' = pos /\ N' = N /\ frag' = frag /\ size' = size /\ scratch' = scratch /\ filled' = filled
         /\ pos' \in 0 .. Len(text) /\ N' \in 0 .. Len(text) /\ frag' \in {"source", "scratch"}
         /\ size' \in 0 .. BlockSize /\ scratch' \in Seq(Byte \cup {Garbage}) /\ filled' \in 0 .. BlockSize
         /\ Earlier' = Earlier /\ NextSize' = NextSize
         /\ MaxCompressedLength(NextSize)' = MaxCompressedLength(NextSize)
         /\ Collected' = Collected
  <1>1. pos' = pos /\ N' = N /\ frag' = frag /\ size' = size /\ scratch' = scratch /\ filled' = filled
    BY DEF blocks
  <1>2. Earlier' = Earlier /\ NextSize' = NextSize
    BY <1>1, Zenon DEF Earlier, NextSize
  <1>3. Collected' = Collected
    BY <1>1, <1>2, Zenon DEF Collected
  <1>4. MaxCompressedLength(NextSize)' = MaxCompressedLength(NextSize)
    BY <1>2, Zenon
  <1>. QED BY <1>1, <1>2, <1>3, <1>4, Zenon DEF TypeOK

\* A longer text has a longer bound.
LEMMA BoundGrows ==
  ASSUME NEW m \in Nat, NEW n \in Nat, m <= n
  PROVE  /\ MaxCompressedLength(m) \in Nat /\ MaxCompressedLength(n) \in Nat
         /\ MaxCompressedLength(m) <= MaxCompressedLength(n)
  <1>1. m \div 6 \in Nat /\ n \div 6 \in Nat /\ m \div 6 <= n \div 6
    OBVIOUS
  <1>. QED BY <1>1 DEF MaxCompressedLength

\* Buffers that do not change are as large as before for a block that is no larger.
LEMMA SameBuffers ==
  ASSUME BuffersInv, NextSize \in Nat, NextSize' \in Nat, NextSize' <= NextSize, room \in Nat, Len(scratch) \in Nat,
         text' = text, capacity' = capacity, scratch' = scratch, room' = room,
         pc' \notin Compressing, pc \notin {"called", "refused"}
  PROVE  BuffersInv'
  <1>1. /\ scratch # << >> => NextSize <= Len(scratch)
        /\ room # 0 => MaxCompressedLength(NextSize) <= room
        /\ capacity >= MaxCompressedLength(Len(text))
    BY Zenon DEF BuffersInv
  <1>2. /\ MaxCompressedLength(NextSize') \in Nat /\ MaxCompressedLength(NextSize) \in Nat
        /\ MaxCompressedLength(NextSize') <= MaxCompressedLength(NextSize)
    BY BoundGrows, Zenon
  <1>3. /\ scratch' # << >> => NextSize' <= Len(scratch')
        /\ room' # 0 => MaxCompressedLength(NextSize') <= room'
    <2> DEFINE a == MaxCompressedLength(NextSize)  b == MaxCompressedLength(NextSize')
    <2>1. (room # 0 => a <= room) /\ a \in Nat /\ b \in Nat /\ b <= a
      BY <1>1, <1>2, Zenon
    <2> HIDE DEF a, b
    <2>2. room # 0 => b <= room
      BY <2>1
    <2>3. scratch # << >> => NextSize' <= Len(scratch)
      BY <1>1
    <2>. QED BY <2>2, <2>3, Zenon DEF b
  <1>4. capacity' >= MaxCompressedLength(Len(text'))
    BY <1>1, Zenon
  <1>. QED BY <1>3, <1>4, Zenon DEF BuffersInv

\* snappy_compress refuses.
LEMMA RefuseInv ==
  ASSUME CompressInv, Refuse, UNCHANGED call_
  PROVE  CompressInv'
  <1>1. /\ TypeOK /\ BlockInv /\ BuffersInv /\ SizeInv /\ Numbers
    BY Parts
  <1>2. /\ pc = "called" /\ pc' = "refused" /\ UNCHANGED blocks /\ sink' = sink /\ room' = room
        /\ UNCHANGED <<emitVars, table, hashing, ip, looking, candidate, nextEmit, loaded, written, room>>
    BY Zenon DEF Refuse
  <1>3. Outside
    BY <1>2, Zenon DEF Outside
  <1>4. text' = text /\ capacity' = capacity
    BY DEF call_
  <1>5. /\ pos' = pos /\ N' = N /\ frag' = frag /\ size' = size /\ scratch' = scratch /\ filled' = filled
        /\ pos' \in 0 .. Len(text) /\ N' \in 0 .. Len(text) /\ frag' \in {"source", "scratch"}
        /\ size' \in 0 .. BlockSize /\ scratch' \in Seq(Byte \cup {Garbage}) /\ filled' \in 0 .. BlockSize
        /\ Earlier' = Earlier /\ NextSize' = NextSize
        /\ MaxCompressedLength(NextSize)' = MaxCompressedLength(NextSize)
    BY <1>1, <1>2, <1>4, SameBlock
  <1>6. BlockInv'
    BY <1>1, <1>2, <1>4, <1>5 DEF BlockInv, InBlock, Compressing
  <1>7. BuffersInv'
    BY <1>1, <1>2, <1>4, <1>5 DEF BuffersInv, Compressing
  <1>8. SinkFits' /\ sink' \in Seq(Byte)
    BY <1>1, <1>2, <1>5 DEF SizeInv, SinkFits, Numbers
  <1>9. OutputInv'
    BY <1>2 DEF OutputInv
  <1>. QED BY <1>3, <1>5, <1>6, <1>7, <1>8, <1>9, OutsideStep

\* What follows the length in the sink.
LEMMA BodyOf ==
  ASSUME NEW h \in Seq(Byte), NEW b \in Seq(Byte)
  PROVE  SubSeq(h \o b, Len(h) + 1, Len(h \o b)) = b
  OBVIOUS

\* A sink that holds the length and what stands for the text so far.
LEMMA NewSink ==
  ASSUME Header \in Seq(Byte), NEW b \in Seq(Byte), text' = text, sink' = Header \o b, pc' = "block",
         StandsFor(b, SubSeq(text, 1, Earlier')), Earlier' \in Nat
  PROVE  OutputInv'
  <1>1. Header' = Header
    BY Zenon DEF Header
  <1>2. Output' = << >> /\ Covered' = 0
    BY OutputAfter
  <1>3. Earlier' + Covered' = Earlier' /\ b \o Output' = b
    <2>1. b \o << >> = b
      OBVIOUS
    <2>2. \A n \in Nat : n + 0 = n
      OBVIOUS
    <2>. QED BY <1>2, <2>1, <2>2, Zenon
  <1>4. SubSeq(sink', Len(Header') + 1, Len(sink')) = b
    BY <1>1, BodyOf, Zenon
  <1>. QED BY <1>1, <1>3, <1>4, Zenon DEF OutputInv

\* The length is written.
LEMMA WriteLengthInv ==
  ASSUME CompressInv, WriteLength, UNCHANGED call_
  PROVE  CompressInv'
  <1>1. /\ TypeOK /\ BlockInv /\ BuffersInv /\ SizeInv /\ Numbers
    BY Parts
  <1>2. /\ pc = "called" /\ pc' = "block" /\ UNCHANGED blocks /\ sink' = Encode32(N)
        /\ capacity >= MaxCompressedLength(Len(text))
        /\ UNCHANGED <<emitVars, table, hashing, ip, looking, candidate, nextEmit, loaded, written, room>>
    BY Zenon DEF WriteLength
  <1>3. Outside
    BY <1>2, Zenon DEF Outside
  <1>4. text' = text /\ capacity' = capacity /\ room' = room
    BY <1>2 DEF call_
  <1>5. /\ pos' = pos /\ N' = N /\ frag' = frag /\ size' = size /\ scratch' = scratch /\ filled' = filled
        /\ pos' \in 0 .. Len(text) /\ N' \in 0 .. Len(text) /\ frag' \in {"source", "scratch"}
        /\ size' \in 0 .. BlockSize /\ scratch' \in Seq(Byte \cup {Garbage}) /\ filled' \in 0 .. BlockSize
        /\ Earlier' = Earlier /\ NextSize' = NextSize
        /\ MaxCompressedLength(NextSize)' = MaxCompressedLength(NextSize)
    BY <1>1, <1>2, <1>4, SameBlock
  <1>6. N = Len(text) /\ pos = Earlier
    BY <1>1, <1>2 DEF BlockInv
  <1>7. Earlier = 0
    BY <1>1, <1>6 DEF Earlier, Numbers
  <1>8. Header \in Seq(Byte) /\ Len(Header) \in Nat /\ Len(Header) <= 5 /\ sink' = Header
    BY <1>1, <1>2, <1>6, HeaderIs, Zenon DEF Header
  <1>9. BlockInv'
    BY <1>2, <1>5, <1>6 DEF BlockInv, InBlock, Compressing
  <1>10. BuffersInv'
    BY <1>1, <1>2, <1>4, <1>5 DEF BuffersInv, Compressing
  <1>11. SinkFits' /\ sink' \in Seq(Byte)
    BY <1>5, <1>7, <1>8 DEF SinkFits
  <1>12. OutputInv'
    <2>1. Header \o << >> = Header /\ << >> \in Seq(Byte) /\ SubSeq(text, 1, 0) = << >>
      BY <1>1, <1>8 DEF Numbers
    <2>2. StandsFor(<< >>, SubSeq(text, 1, Earlier')) /\ Earlier' \in Nat
      <3>1. Earlier' = 0 /\ 0 \in Nat
        BY <1>5, <1>7
      <3>. QED BY <2>1, <3>1, NoElements, Zenon
    <2>. QED BY <1>2, <1>4, <1>8, <2>1, <2>2, NewSink, Zenon
  <1>. QED BY <1>3, <1>5, <1>9, <1>10, <1>11, <1>12, OutsideStep

\* How far the next block is from the end of the text.
LEMMA NextBlockPlace ==
  ASSUME Numbers, BlockInv, N > 0, pc \in {"block", "fill"}
  PROVE  /\ NextSize \in Nat /\ 1 <= NextSize /\ NextSize <= N /\ NextSize <= BlockSize
         /\ Earlier \in Nat /\ Earlier + N = Len(text) /\ Len(text) \in Nat
  <1>1. /\ Earlier \in Nat /\ Earlier + N = Len(text) /\ NextSize \in Nat /\ NextSize <= N
        /\ NextSize <= BlockSize /\ (NextSize = N \/ NextSize = BlockSize)
    BY BlockPlace
  <1>. QED BY <1>1, CodeSizes DEF Numbers

\* The source shows no more than is left of the text.
LEMMA SizesAre ==
  ASSUME Numbers, NEW n \in Sizes
  PROVE  n \in Nat /\ pos + n <= Len(text)
  <1>1. pos \in Nat /\ Len(text) \in Nat /\ pos <= Len(text)
    BY DEF Numbers
  <1>2. PICK m \in Pieces : n = SmallerOf(m, Len(text) - pos)
    BY DEF Sizes
  <1>3. m \in Nat /\ Len(text) - pos \in Nat
    BY <1>1, CompressAssumption
  <1>. QED BY <1>1, <1>2, <1>3 DEF SmallerOf

\* What the source shows is part of what is left of the text.
LEMMA ShownIs ==
  ASSUME Numbers, NEW n \in Sizes, NEW j \in Nat, j <= n
  PROVE  /\ n \in Nat /\ pos + n <= Len(text)
         /\ Shown(j) \in Seq(Byte) /\ Len(Shown(j)) = j
         /\ \A i \in 1 .. j : Shown(j)[i] = text[pos + i]
  <1>1. text \in Seq(Byte) /\ pos \in Nat /\ Len(text) \in Nat /\ pos <= Len(text)
    BY DEF Numbers
  <1>2. n \in Nat /\ pos + n <= Len(text)
    BY SizesAre
  <1>3. pos + j <= Len(text)
    BY <1>1, <1>2
  <1>4. /\ Shown(j) \in Seq(Byte) /\ Len(Shown(j)) = j
        /\ \A i \in 1 .. j : Shown(j)[i] = text[pos + i]
    BY <1>1, <1>3, SMTT(30) DEF Shown
  <1>. QED BY <1>2, <1>4

\* A buffer like b, of which the first m bytes are bytes of the block.
IsCollected(c, b, m) ==
  /\ c \in Seq(Byte \cup {Garbage}) /\ Len(c) = Len(b) /\ c # << >>
  /\ \A i \in 1 .. m : c[i] = text[Earlier + i]

\* Bytes added to the scratch buffer are the next ones of the block.
LEMMA MoreCollected ==
  ASSUME Numbers, NEW n \in Sizes, NEW j \in Nat, j <= n, NEW f \in Nat, NEW b \in Seq(Byte \cup {Garbage}),
         b # << >>, f + j <= Len(b), pos = Earlier + f, Earlier \in Nat,
         \A i \in 1 .. f : b[i] = text[Earlier + i],
         NEW c, c = Stored(b, f, Shown(j))
  PROVE  IsCollected(c, b, f + j)
  <1> DEFINE S == Byte \cup {Garbage}
  <1>1. Shown(j) \in Seq(Byte) /\ Len(Shown(j)) = j /\ \A i \in 1 .. j : Shown(j)[i] = text[pos + i]
    BY ShownIs, Zenon
  <1>2. Shown(j) \in Seq(S)
    BY <1>1
  <1> HIDE DEF S
  <1>3. b \in Seq(S)
    BY DEF S
  <1>4. /\ c \in Seq(S) /\ Len(c) = Len(b)
        /\ \A k \in 1 .. Len(b) : c[k] = IF f < k /\ k <= f + j THEN Shown(j)[k - f] ELSE b[k]
    <2>1. /\ c \in Seq(S) /\ Len(c) = Len(b)
          /\ \A k \in 1 .. Len(b) : c[k] = IF f < k /\ k <= f + Len(Shown(j)) THEN Shown(j)[k - f] ELSE b[k]
      BY <1>2, <1>3, StoredIs, ZenonT(30)
    <2>. QED BY <1>1, <2>1, Zenon
  <1>5. c # << >>
    BY <1>3, <1>4
  <1>6. ASSUME NEW i \in 1 .. f + j PROVE c[i] = text[Earlier + i]
    <2>1. i \in 1 .. Len(b) /\ i \in Nat
      BY <1>3
    <2>2. CASE i <= f
      <3>1. i \in 1 .. f /\ ~(f < i)
        BY <2>2
      <3>. QED BY <1>4, <2>1, <3>1, Zenon
    <2>3. CASE ~(i <= f)
      <3>1. f < i /\ i <= f + j /\ i - f \in 1 .. j /\ pos + (i - f) = Earlier + i
        BY <2>3
      <3>2. c[i] = Shown(j)[i - f]
        BY <1>4, <2>1, <3>1, Zenon
      <3>3. Shown(j)[i - f] = text[pos + (i - f)]
        BY <1>1, <3>1, Zenon
      <3>. QED BY <3>1, <3>2, <3>3, Zenon
    <2>. QED BY <2>2, <2>3
  <1>. QED BY <1>4, <1>5, <1>6, Zenon DEF S, IsCollected

\* The parts of a step that stores bytes in the scratch buffer.
LEMMA StoringInv ==
  ASSUME CompressInv, Outside, pc \in {"block", "fill"}, pc' = "fill", frag' = "scratch", N > 0,
         N' = N, size' = NextSize, sink' = sink, text' = text, room' = room, capacity' = capacity,
         NEW n \in Sizes, NEW j \in Nat, j <= n, NEW f \in Nat, pos = Earlier + f, f + j <= NextSize,
         NEW b \in Seq(Byte \cup {Garbage}), NextSize <= Len(b), \A i \in 1 .. f : b[i] = text[Earlier + i],
         scratch' = Stored(b, f, Shown(j)), filled' = f + j, pos' = pos + j
  PROVE  CompressInv'
  <1>1. /\ TypeOK /\ BlockInv /\ BuffersInv /\ SizeInv /\ OutputInv /\ Numbers
    BY Parts
  <1>2. /\ NextSize \in Nat /\ 1 <= NextSize /\ NextSize <= N /\ NextSize <= BlockSize
        /\ Earlier \in Nat /\ Earlier + N = Len(text) /\ Len(text) \in Nat
    BY <1>1, NextBlockPlace
  <1>3. Earlier' = Earlier /\ NextSize' = NextSize
    BY Zenon DEF Earlier, NextSize
  <1>4. f + j <= Len(b) /\ b # << >>
    BY <1>2
  <1>5. /\ scratch' \in Seq(Byte \cup {Garbage}) /\ Len(scratch') = Len(b) /\ scratch' # << >>
        /\ \A i \in 1 .. f + j : scratch'[i] = text[Earlier + i]
    <2>1. Numbers /\ Earlier \in Nat
      BY <1>1, <1>2
    <2>2. IsCollected(scratch', b, f + j)
      BY <1>4, <2>1, MoreCollected, Zenon
    <2>. QED BY <2>2, Zenon DEF IsCollected
  <1>6. Collected'
    BY <1>3, <1>5, Zenon DEF Collected
  <1>7. n \in Nat /\ pos + n <= Len(text) /\ pos \in Nat
    <2>1. n \in Nat /\ pos + n <= Len(text)
      BY <1>1, SizesAre
    <2>. QED BY <1>1, <2>1 DEF Numbers
  <1>8. pos' \in 0 .. Len(text) /\ filled' \in 0 .. BlockSize /\ size' \in 0 .. BlockSize /\ N' \in 0 .. Len(text)
    <2>1. pos' \in Nat /\ pos' <= Len(text) /\ filled' \in Nat /\ filled' <= BlockSize /\ N <= Len(text) /\ N \in Nat
      BY <1>2, <1>7, CodeSizes, <1>1 DEF Numbers
    <2>2. BlockSize \in Nat
      BY CodeSizes
    <2>. QED BY <1>2, <2>1, <2>2
  <1>9. pos' = Earlier' + filled' /\ filled' <= size'
    BY <1>2, <1>3, <1>7
  <1>10. BlockInv'
    BY <1>3, <1>6, <1>9 DEF BlockInv, InBlock, Compressing
  <1>11. BuffersInv'
    <2>1. /\ room # 0 => MaxCompressedLength(NextSize) <= room
          /\ capacity >= MaxCompressedLength(Len(text))
      BY <1>1 DEF BuffersInv
    <2>2. MaxCompressedLength(NextSize)' = MaxCompressedLength(NextSize)
      BY <1>3, Zenon
    <2>3. NextSize' <= Len(scratch')
      BY <1>3, <1>5, Zenon
    <2>4. pc' \notin Compressing
      BY DEF Compressing
    <2>5. /\ room' # 0 => MaxCompressedLength(NextSize)' <= room'
          /\ capacity' >= MaxCompressedLength(Len(text'))
      BY <2>1, <2>2, Zenon
    <2>. QED BY <2>3, <2>4, <2>5, Zenon DEF BuffersInv
  <1>12. SinkFits' /\ sink' \in Seq(Byte)
    <2>1. 60 * Len(sink) <= 300 + 70 * Earlier + (IF N = 0 THEN 60 ELSE 0)
      BY <1>1, Zenon DEF SizeInv
    <2>. QED BY <1>1, <1>3, <2>1 DEF SinkFits, Numbers
  <1>13. OutputInv'
    <2>1. Output' = Output /\ Covered' = Covered
      BY OutputAt, OutputAfter
    <2>. QED BY <1>1, <2>1, OutputOutside
  <1>. QED BY <1>5, <1>8, <1>10, <1>11, <1>12, <1>13, OutsideStep

\* The source shows more of a block that is in the scratch buffer.
LEMMA FillInv ==
  ASSUME CompressInv, Fill, UNCHANGED call_
  PROVE  CompressInv'
  <1>1. BlockInv /\ BuffersInv /\ Numbers /\ TypeOK
    BY Parts
  <1>2. /\ pc = "fill" /\ filled < size /\ N' = N /\ frag' = frag /\ size' = size /\ sink' = sink /\ pc' = pc
        /\ UNCHANGED <<emitVars, table, hashing, ip, looking, candidate, nextEmit, loaded, written, room>>
    BY Zenon DEF Fill
  <1>3. PICK n \in Sizes : /\ scratch' = Stored(scratch, filled, Shown(SmallerOf(n, size - filled)))
                           /\ filled' = filled + SmallerOf(n, size - filled)
                           /\ pos' = pos + SmallerOf(n, size - filled)
    BY Zenon DEF Fill
  <1> DEFINE j == SmallerOf(n, size - filled)
  <1>4. Outside
    BY <1>2, Zenon DEF Outside
  <1>5. text' = text /\ capacity' = capacity /\ room' = room
    BY <1>2 DEF call_
  <1>6. /\ frag = "scratch" /\ Collected /\ filled <= size /\ pos = Earlier + filled /\ N > 0 /\ size = NextSize
    BY <1>1, <1>2 DEF BlockInv
  <1>7. scratch # << >> /\ \A i \in 1 .. filled : scratch[i] = text[Earlier + i]
    BY <1>6, Zenon DEF Collected
  <1>8. NextSize <= Len(scratch) /\ scratch \in Seq(Byte \cup {Garbage})
    BY <1>1, <1>7, Zenon DEF BuffersInv, TypeOK
  <1>9. n \in Nat /\ size \in Nat /\ filled \in Nat
    <2>1. n \in Nat
      BY <1>1, SizesAre
    <2>. QED BY <1>1, <2>1 DEF Numbers
  <1>10. j \in Nat /\ j <= n /\ filled + j <= NextSize
    BY <1>6, <1>9 DEF SmallerOf
  <1>11. scratch' = Stored(scratch, filled, Shown(j)) /\ filled' = filled + j /\ pos' = pos + j
    BY <1>3
  <1> HIDE DEF j
  <1>12. pc' = "fill" /\ frag' = "scratch" /\ size' = NextSize /\ pc \in {"block", "fill"}
    BY <1>2, <1>6
  <1>. QED BY <1>2, <1>4, <1>5, <1>6, <1>7, <1>8, <1>9, <1>10, <1>11, <1>12, StoringInv, Zenon

\* The block is collected.
LEMMA FillDoneInv ==
  ASSUME CompressInv, FillDone, UNCHANGED call_
  PROVE  CompressInv'
  <1>1. TypeOK /\ BlockInv /\ BuffersInv /\ SizeInv /\ OutputInv /\ Numbers
    BY Parts
  <1>2. /\ pc = "fill" /\ filled = size /\ pc' = "table" /\ UNCHANGED blocks /\ sink' = sink /\ room' = room
        /\ UNCHANGED <<emitVars, table, hashing, ip, looking, candidate, nextEmit, loaded, written, room>>
    BY Zenon DEF FillDone
  <1>3. Outside
    BY <1>2, Zenon DEF Outside
  <1>4. text' = text /\ capacity' = capacity
    BY DEF call_
  <1>5. /\ pos' = pos /\ N' = N /\ frag' = frag /\ size' = size /\ scratch' = scratch /\ filled' = filled
        /\ pos' \in 0 .. Len(text) /\ N' \in 0 .. Len(text) /\ frag' \in {"source", "scratch"}
        /\ size' \in 0 .. BlockSize /\ scratch' \in Seq(Byte \cup {Garbage}) /\ filled' \in 0 .. BlockSize
        /\ Earlier' = Earlier /\ NextSize' = NextSize
        /\ MaxCompressedLength(NextSize)' = MaxCompressedLength(NextSize)
        /\ Collected' = Collected
    BY <1>1, <1>2, <1>4, SameBlock
  <1>6. BlockInv'
    BY <1>1, <1>2, <1>4, <1>5 DEF BlockInv, InBlock, Compressing
  <1>7. BuffersInv'
    BY <1>1, <1>2, <1>4, <1>5 DEF BuffersInv, Compressing
  <1>8. SinkFits' /\ sink' \in Seq(Byte)
    BY <1>1, <1>2, <1>5 DEF SizeInv, SinkFits, Numbers
  <1>9. OutputInv'
    <2>1. Output' = Output /\ Covered' = Covered
      BY <1>2, OutputAt, OutputAfter
    <2>. QED BY <1>1, <1>2, <1>4, <1>5, <2>1, OutputOutside
  <1>. QED BY <1>2, <1>3, <1>5, <1>6, <1>7, <1>8, <1>9, OutsideStep

\* All blocks are compressed.
LEMMA FinishInv ==
  ASSUME CompressInv, Finish, UNCHANGED call_
  PROVE  CompressInv'
  <1>1. TypeOK /\ BlockInv /\ BuffersInv /\ SizeInv /\ OutputInv /\ Numbers
    BY Parts
  <1>2. /\ pc = "block" /\ pc' = "done" /\ UNCHANGED blocks /\ sink' = sink /\ room' = room
        /\ UNCHANGED <<emitVars, table, hashing, ip, looking, candidate, nextEmit, loaded, written, room>>
    BY Zenon DEF Finish
  <1>3. Outside
    BY <1>2, Zenon DEF Outside
  <1>4. text' = text /\ capacity' = capacity
    BY DEF call_
  <1>5. /\ pos' = pos /\ N' = N /\ frag' = frag /\ size' = size /\ scratch' = scratch /\ filled' = filled
        /\ pos' \in 0 .. Len(text) /\ N' \in 0 .. Len(text) /\ frag' \in {"source", "scratch"}
        /\ size' \in 0 .. BlockSize /\ scratch' \in Seq(Byte \cup {Garbage}) /\ filled' \in 0 .. BlockSize
        /\ Earlier' = Earlier /\ NextSize' = NextSize
        /\ MaxCompressedLength(NextSize)' = MaxCompressedLength(NextSize)
    BY <1>1, <1>2, <1>4, SameBlock
  <1>6. BlockInv'
    BY <1>1, <1>2, <1>4, <1>5 DEF BlockInv, InBlock, Compressing
  <1>7. BuffersInv'
    BY <1>1, <1>2, <1>4, <1>5 DEF BuffersInv, Compressing
  <1>8. SinkFits' /\ sink' \in Seq(Byte)
    BY <1>1, <1>2, <1>5 DEF SizeInv, SinkFits, Numbers
  <1>9. OutputInv'
    <2>1. Output' = Output /\ Covered' = Covered
      BY <1>2, OutputAt, OutputAfter
    <2>. QED BY <1>1, <1>2, <1>4, <1>5, <2>1, OutputOutside
  <1>. QED BY <1>2, <1>3, <1>5, <1>6, <1>7, <1>8, <1>9, OutsideStep

\* The source shows the whole block, or the first bytes of it, which are stored.
LEMMA NextBlockInv ==
  ASSUME CompressInv, NextBlock, UNCHANGED call_
  PROVE  CompressInv'
  <1>1. TypeOK /\ BlockInv /\ BuffersInv /\ SizeInv /\ OutputInv /\ Numbers
    BY Parts
  <1>2. /\ pc = "block" /\ N > 0 /\ size' = NextSize /\ N' = N /\ sink' = sink /\ room' = room
        /\ UNCHANGED <<emitVars, table, hashing, ip, looking, candidate, nextEmit, loaded, written, room>>
    BY Zenon DEF NextBlock, NextSize
  <1>3. PICK n \in Sizes :
          IF n >= size'
            THEN frag' = "source" /\ pc' = "table" /\ scratch' = scratch /\ pos' = pos /\ filled' = filled
            ELSE /\ frag' = "scratch" /\ pc' = "fill"
                 /\ scratch' = Stored(IF scratch = << >> THEN [k \in 1 .. size' |-> Garbage] ELSE scratch,
                                      0, Shown(n))
                 /\ filled' = n /\ pos' = pos + n
    BY Zenon DEF NextBlock
  <1>4. Outside
    BY <1>2, <1>3, Zenon DEF Outside
  <1>5. text' = text /\ capacity' = capacity
    BY DEF call_
  <1>6. /\ NextSize \in Nat /\ 1 <= NextSize /\ NextSize <= N /\ NextSize <= BlockSize
        /\ Earlier \in Nat /\ Earlier + N = Len(text) /\ Len(text) \in Nat
    BY <1>1, <1>2, NextBlockPlace
  <1>7. pos = Earlier
    BY <1>1, <1>2 DEF BlockInv
  <1>8. CASE n >= size'
    <2>1. frag' = "source" /\ pc' = "table" /\ scratch' = scratch /\ pos' = pos /\ filled' = filled
      BY <1>3, <1>8, Zenon
    <2>2. Earlier' = Earlier /\ NextSize' = NextSize
      BY <1>2, <1>5, Zenon DEF Earlier, NextSize
    <2>3. BlockInv'
      BY <1>2, <1>7, <2>1, <2>2 DEF BlockInv, InBlock, Compressing
    <2>4. BuffersInv'
      <3>1. room \in Nat /\ Len(scratch) \in Nat
        BY <1>1 DEF Numbers, TypeOK
      <3>2. pc' \notin Compressing /\ pc \notin {"called", "refused"}
        BY <1>2, <2>1 DEF Compressing
      <3>3. NextSize' \in Nat /\ NextSize' <= NextSize
        BY <1>6, <2>2
      <3>. QED BY <1>1, <1>2, <1>5, <1>6, <2>1, <3>1, <3>2, <3>3, SameBuffers
    <2>5. SinkFits' /\ sink' \in Seq(Byte)
      <3>1. 60 * Len(sink) <= 300 + 70 * Earlier + (IF N = 0 THEN 60 ELSE 0)
        BY <1>1, Zenon DEF SizeInv
      <3>. QED BY <1>1, <1>2, <2>2, <3>1 DEF SinkFits, Numbers
    <2>6. OutputInv'
      <3>1. Output' = Output /\ Covered' = Covered
        BY <1>2, <2>1, OutputAt, OutputAfter
      <3>. QED BY <1>1, <1>2, <1>5, <3>1, OutputOutside
    <2>7. /\ pos' \in 0 .. Len(text) /\ N' \in 0 .. Len(text) /\ frag' \in {"source", "scratch"}
          /\ scratch' \in Seq(Byte \cup {Garbage}) /\ filled' \in 0 .. BlockSize
      BY <1>1, <1>2, <2>1, Zenon DEF TypeOK
    <2>8. size' \in 0 .. BlockSize
      BY <1>2, <1>6, CodeSizes
    <2>. QED BY <1>4, <2>1, <2>3, <2>4, <2>5, <2>6, <2>7, <2>8, OutsideStep
  <1>9. CASE ~(n >= size')
    <2> DEFINE b == IF scratch = << >> THEN [k \in 1 .. size' |-> Garbage] ELSE scratch
    <2>1. /\ frag' = "scratch" /\ pc' = "fill"
          /\ scratch' = Stored(b, 0, Shown(n)) /\ filled' = n /\ pos' = pos + n
      BY <1>3, <1>9, Zenon
    <2>2. n \in Nat /\ pos + n <= Len(text)
      BY <1>1, SizesAre
    <2>3. n <= n /\ 0 \in Nat /\ pos = Earlier + 0 /\ 0 + n <= NextSize /\ filled' = 0 + n
      BY <1>2, <1>6, <1>7, <1>9, <2>1, <2>2
    <2>4. b \in Seq(Byte \cup {Garbage}) /\ NextSize <= Len(b)
      <3>1. CASE scratch = << >>
        <4>1. [k \in 1 .. NextSize |-> Garbage] \in Seq(Byte \cup {Garbage})
          BY <1>6
        <4>2. Len([k \in 1 .. NextSize |-> Garbage]) = NextSize
          BY <1>6
        <4>. QED BY <1>2, <1>6, <3>1, <4>1, <4>2
      <3>2. CASE scratch # << >>
        <4>1. scratch \in Seq(Byte \cup {Garbage}) /\ NextSize <= Len(scratch)
          BY <1>1, <3>2, Zenon DEF TypeOK, BuffersInv
        <4>. QED BY <3>2, <4>1, Zenon
      <3>. QED BY <3>1, <3>2, Zenon
    <2> HIDE DEF b
    <2>5. \A i \in 1 .. 0 : b[i] = text[Earlier + i]
      OBVIOUS
    <2>. QED BY <1>2, <1>4, <1>5, <2>1, <2>2, <2>3, <2>4, <2>5, StoringInv, Zenon
  <1>. QED BY <1>8, <1>9

\* What a block adds to the bound of the output.
LEMMA SinkGrows ==
  \A s, d, e, z, n, m \in Nat :
    /\ 60 * s <= 300 + 70 * e /\ 60 * d <= 61 * z + 60 /\ 1 <= z /\ m + z = n
    /\ m # 0 => 15 <= z
    => 60 * (s + d) <= 300 + 70 * (e + z) + (IF m = 0 THEN 60 ELSE 0)
  OBVIOUS

\* The output of a block is given to the sink.
LEMMA AppendBlockInv ==
  ASSUME CompressInv, AppendBlock, UNCHANGED call_
  PROVE  CompressInv'
  <1>1. TypeOK /\ BlockInv /\ BuffersInv /\ PlaceInv /\ SizeInv /\ OutputInv /\ Numbers
    BY Parts
  <1>2. /\ pc = "append" /\ pc' = "block" /\ sink' = sink \o dest /\ N' = N - size
        /\ frag' = frag /\ size' = size /\ scratch' = scratch /\ filled' = filled /\ room' = room
        /\ UNCHANGED <<emitVars, table, hashing, ip, looking, candidate, nextEmit, loaded, written, room>>
    BY Zenon DEF AppendBlock
  <1>3. pos' = IF frag = "source" THEN pos + size ELSE pos
    BY Zenon DEF AppendBlock
  <1>4. Outside
    BY <1>2, Zenon DEF Outside
  <1>5. text' = text /\ capacity' = capacity
    BY DEF call_
  <1>6. pc \in InBlock /\ pc' \notin Compressing
    BY <1>2 DEF InBlock, Compressing
  <1>7. /\ Earlier \in Nat /\ Earlier + N = Len(text) /\ NextSize \in Nat /\ NextSize <= N
        /\ (NextSize = N \/ NextSize = BlockSize) /\ size = NextSize /\ 1 <= size
    BY <1>1, <1>6, BlockPlace
  <1>8. N \in Nat /\ Len(text) \in Nat /\ N' \in Nat /\ N' <= N /\ size \in Nat /\ N' + size = N
    BY <1>1, <1>2, <1>7 DEF Numbers
  <1>9. Earlier' = Earlier + size /\ Earlier' \in Nat
    BY <1>2, <1>5, <1>7, <1>8 DEF Earlier
  <1>10. pos' = Earlier'
    <2>1. IF frag = "source" THEN pos = Earlier ELSE pos = Earlier + size
      BY <1>1, <1>6, Zenon DEF BlockInv
    <2>. QED BY <1>3, <1>9, <2>1
  <1>11. BlockInv'
    BY <1>2, <1>10 DEF BlockInv, InBlock, Compressing
  <1>12. BuffersInv'
    <2>1. NextSize' = SmallerOf(N', BlockSize)
      BY Zenon DEF NextSize
    <2>2. NextSize = SmallerOf(N, BlockSize)
      BY Zenon DEF NextSize
    <2>3. NextSize' \in Nat /\ NextSize' <= NextSize
      BY <1>8, <2>1, <2>2, CodeSizes DEF SmallerOf
    <2>4. room \in Nat /\ Len(scratch) \in Nat
      BY <1>1 DEF Numbers, TypeOK
    <2>5. pc \notin {"called", "refused"}
      BY <1>2
    <2>. QED BY <1>1, <1>2, <1>5, <1>6, <1>7, <2>3, <2>4, <2>5, SameBuffers
  <1>13. dest \in Seq(Byte) /\ sink \in Seq(Byte)
    BY <1>1, Zenon DEF TypeOK
  <1>14. sink' \in Seq(Byte) /\ Len(sink') = Len(sink) + Len(dest)
    BY <1>2, <1>13
  <1>15. SinkFits'
    <2>1. 60 * Len(sink) <= 300 + 70 * Earlier
      BY <1>1, <1>7, <1>8, <1>2 DEF SizeInv
    <2>2. 60 * Len(dest) <= 61 * size + 60
      BY <1>1, <1>2 DEF SizeInv
    <2>3. Len(sink) \in Nat /\ Len(dest) \in Nat
      BY <1>13
    <2>4. N' # 0 => 15 <= size
      <3>1. BlockSize \in Nat /\ 15 <= BlockSize
        BY CodeSizes
      <3>2. \A z, n, m \in Nat : m + z = n /\ m # 0 => z # n
        OBVIOUS
      <3>3. N' # 0 => size = BlockSize
        BY <1>7, <1>8, <3>2, Zenon
      <3>. QED BY <3>1, <3>3
    <2>5. 60 * (Len(sink) + Len(dest)) <= 300 + 70 * (Earlier + size) + (IF N' = 0 THEN 60 ELSE 0)
      BY <1>7, <1>8, <2>1, <2>2, <2>3, <2>4, SinkGrows
    <2>. QED BY <1>9, <1>14, <2>5 DEF SinkFits
  <1>16. OutputInv'
    <2>1. /\ Body \in Seq(Byte) /\ sink = Header \o Body
          /\ StandsFor(Body \o Output, SubSeq(text, 1, Earlier + Covered))
      BY <1>1, <1>2, BodyIs
    <2>2. Output = dest /\ Covered = size
      BY <1>2, OutputAt
    <2>3. StandsFor(Body \o dest, SubSeq(text, 1, Earlier'))
      BY <1>9, <2>1, <2>2, Zenon
    <2>4. Header \in Seq(Byte)
      BY <1>1, HeaderIs
    <2>5. Body \o dest \in Seq(Byte) /\ (Header \o Body) \o dest = Header \o (Body \o dest)
      BY <1>13, <2>1, <2>4
    <2>6. sink' = Header \o (Body \o dest)
      BY <1>2, <2>1, <2>5, Zenon
    <2>. QED BY <1>2, <1>5, <1>9, <2>3, <2>4, <2>5, <2>6, NewSink, Zenon
  <1>17. /\ frag' \in {"source", "scratch"} /\ size' \in 0 .. BlockSize
         /\ scratch' \in Seq(Byte \cup {Garbage}) /\ filled' \in 0 .. BlockSize
    BY <1>1, <1>2, Zenon DEF TypeOK
  <1>18. pos' \in 0 .. Len(text) /\ N' \in 0 .. Len(text)
    BY <1>7, <1>8, <1>9, <1>10
  <1>. QED BY <1>2, <1>4, <1>11, <1>12, <1>14, <1>15, <1>16, <1>17, <1>18, OutsideStep

----------------------------------------------------------------------------
(* The invariant *)

\* A call starts in it.
LEMMA InitInv == Init => CompressInv
  <1> SUFFICES ASSUME Init PROVE CompressInv
    OBVIOUS
  <1>1. /\ text \in Texts /\ hash \in Hashes /\ arch \in {"k8", "le", "be"}
        /\ capacity \in {MaxCompressedLength(Len(text)) - 1, MaxCompressedLength(Len(text))}
        /\ pos = 0 /\ N = Len(text) /\ frag = "source" /\ size = 0 /\ scratch = << >> /\ filled = 0
        /\ table = [small |-> [h \in 0 .. SmallTable - 1 |-> Stale],
                    large |-> [h \in 0 .. MaxTable - 1 |-> Stale]]
        /\ which = "small" /\ shift = 0
        /\ ip = 0 /\ nextIp = 0 /\ nextHash = 0 /\ skip = 0 /\ candidate = 0 /\ nextEmit = 0
        /\ loaded = 0 /\ dest = << >> /\ high = 0 /\ room = 0 /\ sink = << >>
        /\ pc = "called"
        /\ call = "none" /\ op = << >> /\ emit = "returned"
    BY Zenon DEF Init, Called
  <1>2. text \in Seq(Byte) /\ Len(text) \in Nat
    <2>1. text \in Seq(Byte)
      BY <1>1, CompressAssumption, Zenon
    <2>. QED BY <2>1
  <1>3. Earlier = 0
    BY <1>1, <1>2 DEF Earlier
  <1>4. << >> \in Seq(Byte) /\ << >> \in Seq(Byte \cup {Garbage})
    OBVIOUS
  <1>5. EmitInv
    <2>1. EmitTypeOK
      BY <1>1, <1>4 DEF EmitTypeOK
    <2>2. CopiesShrink /\ LiteralIsReadBack /\ LiteralInv /\ RoomInv
      BY <1>1 DEF CopiesShrink, LiteralIsReadBack, LiteralInv, RoomInv
    <2>. QED BY <2>1, <2>2 DEF EmitInv
  <1>6. table \in TableType
    <2>1. Stale \in 0 .. kBlockSize - 1
      BY DEF Stale, kBlockSize
    <2>2. /\ [h \in 0 .. SmallTable - 1 |-> Stale] \in [0 .. SmallTable - 1 -> 0 .. kBlockSize - 1]
          /\ [h \in 0 .. MaxTable - 1 |-> Stale] \in [0 .. MaxTable - 1 -> 0 .. kBlockSize - 1]
      BY <2>1, Zenon
    <2>. QED BY <1>1, <2>2 DEF TableType
  <1>7. capacity \in Nat
    <2>1. MaxCompressedLength(Len(text)) \in Nat /\ 32 + Len(text) <= MaxCompressedLength(Len(text))
      BY <1>2, RoomIs
    <2>. QED BY <1>1, <1>2, <2>1
  <1>8. /\ 0 \in 0 .. Len(text) /\ Len(text) \in 0 .. Len(text) /\ 0 \in 0 .. BlockSize /\ 0 \in 0 .. 32
        /\ 0 \in Places /\ 0 \in 0 .. 2 * kBlockSize /\ 0 \in 0 .. MaxTable - 1 /\ 0 \in Nat
    BY <1>2, CodeSizes, Tables DEF Places
  <1>9. pc \in Steps
    BY <1>1 DEF Steps
  <1>10. TypeOK
    BY <1>1, <1>4, <1>5, <1>6, <1>7, <1>8, <1>9, Zenon DEF TypeOK, EmitInv, TableType, Steps
  <1>11. BlockInv
    BY <1>1, <1>3 DEF BlockInv, InBlock, Compressing
  <1>12. BuffersInv /\ TableInv
    BY <1>1 DEF BuffersInv, TableInv, Compressing
  <1>13. PlaceInv /\ CallInv /\ MatchIsLongest /\ OutputInv
    BY <1>1 DEF PlaceInv, CallInv, MatchIsLongest, OutputInv
  <1>14. SizeInv
    <2>1. Len(sink) = 0
      BY <1>1
    <2>. QED BY <1>1, <1>3, <2>1 DEF SizeInv, Compressing
  <1>. QED BY <1>5, <1>10, <1>11, <1>12, <1>13, <1>14, Zenon DEF CompressInv

\* Where nothing changes, the invariant stays.
LEMMA StutterInv ==
  ASSUME CompressInv, UNCHANGED vars
  PROVE  CompressInv'
  <1>1. /\ UNCHANGED <<text, hash, arch, capacity, pos, N, frag, size, scratch, filled, table, shift, which,
                       ip, nextIp, nextHash, skip, candidate, nextEmit, loaded, dest, high, room, sink, pc>>
        /\ UNCHANGED <<call, offset, total, left, op, emit>>
    BY Zenon DEF vars, emitVars, call_, blocks, hashing, looking, written
  <1>2. Earlier' = Earlier /\ NextSize' = NextSize /\ TableSizeNow' = TableSizeNow /\ Header' = Header
    BY <1>1, Zenon DEF Earlier, NextSize, TableSizeNow, Header
  <1>3. Output' = Output /\ Covered' = Covered /\ Collected' = Collected /\ ipLimit' = ipLimit
    BY <1>1, <1>2, Zenon DEF Output, Covered, Collected, ipLimit
  <1>4. /\ TypeOK /\ EmitInv /\ BlockInv /\ BuffersInv /\ TableInv /\ PlaceInv /\ CallInv
        /\ MatchIsLongest /\ SizeInv /\ OutputInv /\ Numbers
    BY Parts
  <1>5. EmitInv'
    BY <1>1, <1>4, EmitKept DEF emitVars
  <1>6. TypeOK'
    BY <1>1, <1>4, <1>5, Zenon DEF TypeOK, EmitInv
  <1>7. BlockInv' /\ BuffersInv'
    BY <1>1, <1>2, <1>3, <1>4 DEF BlockInv, BuffersInv
  <1>8. TableInv' /\ CallInv' /\ SizeInv'
    <2>1. TableInv' /\ CallInv'
      BY <1>1, <1>2, <1>4, Zenon DEF TableInv, CallInv
    <2>2. SizeInv'
      BY <1>1, <1>2, <1>4 DEF SizeInv, Compressing
    <2>. QED BY <2>1, <2>2
  <1>9. PlaceInv'
    <2>1. UNCHANGED <<text, hash, pos, frag, size, scratch>>
      BY <1>1
    <2>2. /\ AllBefore(nextIp)' = AllBefore(nextIp) /\ AllBefore(ip + 1)' = AllBefore(ip + 1)
          /\ AllBefore(ip)' = AllBefore(ip)
      BY <1>1, <1>2, Zenon DEF AllBefore
    <2>3. /\ Load32(candidate)' = Load32(candidate) /\ Load32(ip)' = Load32(ip)
          /\ HashAt(nextIp, shift)' = HashAt(nextIp, shift)
      BY <1>1, <2>1, SameBytes, Zenon
    <2>. QED BY <1>1, <1>3, <1>4, <2>2, <2>3, Zenon DEF PlaceInv
  <1>10. MatchIsLongest'
    <2>1. UNCHANGED <<text, hash, pos, frag, size, scratch>>
      BY <1>1
    <2>2. /\ Bytes(ip - total, total)' = Bytes(ip - total, total)
          /\ Bytes(ip - total - offset, total)' = Bytes(ip - total - offset, total)
          /\ At(ip)' = At(ip) /\ At(ip - offset)' = At(ip - offset)
      BY <1>1, <2>1, SameBytes, Zenon
    <2>. QED BY <1>1, <1>4, <2>2, Zenon DEF MatchIsLongest
  <1>11. OutputInv'
    BY <1>1, <1>2, <1>3, <1>4, Zenon DEF OutputInv
  <1>. QED BY <1>4, <1>5, <1>6, <1>7, <1>8, <1>9, <1>10, <1>11, Zenon DEF CompressInv

\* The invariant holds in every state: one lemma for each action.
THEOREM InvCorrect == Spec => []CompressInv
  <1>1. CompressInv /\ [Next]_vars => CompressInv'
    <2> SUFFICES ASSUME CompressInv, [Next]_vars PROVE CompressInv'
      OBVIOUS
    <2>1. CASE UNCHANGED vars
      BY <2>1, StutterInv
    <2>2. CASE Next
      <3>1. UNCHANGED call_
        BY <2>2, Zenon DEF Next
      <3>2. CASE Refuse
        BY <3>1, <3>2, RefuseInv
      <3>3. CASE WriteLength
        BY <3>1, <3>3, WriteLengthInv
      <3>4. CASE NextBlock
        BY <3>1, <3>4, NextBlockInv
      <3>5. CASE Fill
        BY <3>1, <3>5, FillInv
      <3>6. CASE FillDone
        BY <3>1, <3>6, FillDoneInv
      <3>7. CASE StartFragment
        BY <3>1, <3>7, StartFragmentInv
      <3>8. CASE Scan
        BY <3>1, <3>8, ScanInv
      <3>9. CASE LiteralDone
        BY <3>1, <3>9, LiteralDoneInv
      <3>10. CASE ExtendMatch
        BY <3>1, <3>10, ExtendMatchInv
      <3>11. CASE CopyDone
        BY <3>1, <3>11, CopyDoneInv
      <3>12. CASE EmitRest
        BY <3>1, <3>12, EmitRestInv
      <3>13. CASE RestDone
        BY <3>1, <3>13, RestDoneInv
      <3>14. CASE Emitting
        BY <3>1, <3>14, EmittingInv
      <3>15. CASE AppendBlock
        BY <3>1, <3>15, AppendBlockInv
      <3>16. CASE Finish
        BY <3>1, <3>16, FinishInv
      <3>. QED BY <2>2, <3>2, <3>3, <3>4, <3>5, <3>6, <3>7, <3>8, <3>9, <3>10, <3>11, <3>12, <3>13,
                  <3>14, <3>15, <3>16, Zenon DEF Next
    <2>. QED BY <2>1, <2>2
  <1>. QED BY <1>1, InitInv, PTL DEF Spec

\* Every variable keeps its type: the places in the hash tables fit uint16.
THEOREM TypeCorrect == Spec => []TypeOK
  <1>1. CompressInv => TypeOK
    BY Parts
  <1>. QED BY <1>1, InvCorrect, PTL

\* The table in use holds earlier places of this block only, and the hash taken
\* ahead is that of the place it is used for.
THEOREM TableIsPastCorrect == Spec => []TableIsPast
  <1>1. CompressInv => TableIsPast
    <2> SUFFICES ASSUME CompressInv PROVE TableIsPast
      OBVIOUS
    <2>1. TableInv /\ PlaceInv
      BY Parts
    <2>2. pc = "scan" => 2 ^ (32 - shift) = TableSizeNow
      <3>1. "scan" \in Compressing
        BY DEF Compressing
      <3>. QED BY <2>1, <3>1, Zenon DEF TableInv
    <2>3. pc = "scan" =>
            /\ nextEmit < nextIp /\ nextHash = HashAt(nextIp, shift)
            /\ \A h \in 0 .. TableSizeNow - 1 : table[which][h] < nextIp
      BY <2>1, Zenon DEF PlaceInv, AllBefore
    <2>4. pc \in {"literal", "match"} => candidate < ip /\ Load32(candidate) = Load32(ip)
      BY <2>1, Zenon DEF PlaceInv
    <2>. QED BY <2>2, <2>3, <2>4, Zenon DEF TableIsPast
  <1>. QED BY <1>1, InvCorrect, PTL

\* No load of 4, 8 or 16 bytes leaves the block.
THEOREM LoadsInsideCorrect == Spec => []LoadsInside
  <1>1. CompressInv => LoadsInside
    <2> SUFFICES ASSUME CompressInv PROVE LoadsInside
      OBVIOUS
    <2>1. pc \notin {"fill", "table"} => loaded <= size
      BY Parts, Zenon DEF PlaceInv
    <2>. QED BY <2>1 DEF LoadsInside
  <1>. QED BY <1>1, InvCorrect, PTL

\* A copy stands for bytes that are the same, and a longer one would not, on
\* every architecture.
THEOREM MatchIsLongestCorrect == Spec => []MatchIsLongest
  <1>1. CompressInv => MatchIsLongest
    BY Parts
  <1>. QED BY <1>1, InvCorrect, PTL

\* How much of the block has been written, at each step of CompressFragment.
LEMMA FragmentFits ==
  ASSUME CompressInv, pc \in Compressing
  PROVE  60 * Len(dest) <= 61 * size + 60 /\ high <= Len(dest) + 15
  <1>1. BlockInv /\ PlaceInv /\ SizeInv /\ CallInv /\ EmitInv /\ Numbers
    BY Parts
  <1>2. size \in Nat /\ 1 <= size /\ nextEmit \in Nat /\ ip \in Nat /\ nextIp \in Nat /\ Len(dest) \in Nat
    <2>1. pc \in InBlock
      BY DEF InBlock
    <2>. QED BY <1>1, <2>1, BlockPlace DEF Numbers
  <1>3. high <= Len(dest) + 15
    BY <1>1 DEF SizeInv
  <1>4. CASE pc = "scan"
    <2>1. nextEmit < nextIp /\ (nextIp = 1 \/ nextIp <= size - 15) /\ 60 * Len(dest) <= 61 * nextEmit
      BY <1>1, <1>4, CodeSizes DEF PlaceInv, SizeInv, ipLimit
    <2>. QED BY <1>2, <1>3, <2>1
  <1>5. CASE pc = "literal"
    <2>1. nextEmit < ip /\ ip < size - 15 /\ 60 * Len(dest) <= 61 * nextEmit
      BY <1>1, <1>5, CodeSizes DEF PlaceInv, SizeInv, ipLimit
    <2>. QED BY <1>2, <1>3, <2>1
  <1>6. CASE pc = "match"
    <2>1. ip < size - 15 /\ 60 * Len(dest) <= 61 * ip + 60
      BY <1>1, <1>6, CodeSizes DEF PlaceInv, SizeInv, ipLimit
    <2>. QED BY <1>2, <1>3, <2>1
  <1>7. CASE pc = "copy"
    <2>1. ip <= size /\ 60 * Len(dest) <= 61 * (ip - total) + 60
      BY <1>1, <1>7 DEF PlaceInv, SizeInv
    <2>2. total \in 4 .. kBlockSize
      BY <1>1, <1>7, Zenon DEF CallInv, EmitInv, EmitTypeOK
    <2>3. total \in Nat
      BY <2>2, BlockSizeIs
    <2>. QED BY <1>2, <1>3, <2>1, <2>3
  <1>8. CASE pc \in {"rest", "last"}
    <2>1. nextEmit <= size /\ 60 * Len(dest) <= 61 * nextEmit
      BY <1>1, <1>8 DEF PlaceInv, SizeInv
    <2>. QED BY <1>2, <1>3, <2>1
  <1>9. CASE pc = "append"
    BY <1>1, <1>3, <1>9 DEF SizeInv
  <1>. QED BY <1>4, <1>5, <1>6, <1>7, <1>8, <1>9 DEF Compressing

\* The bound of the code has room for that.
LEMMA BoundIsEnough ==
  ASSUME NEW n \in Nat, NEW m, m = MaxCompressedLength(n)
  PROVE  m \in Nat /\ 60 * m >= 1870 + 70 * n
  BY DEF MaxCompressedLength

\* Nothing is written outside the buffer for a block or the caller's, the bytes
\* written too much included.
THEOREM OutputFitsCorrect == Spec => []OutputFits
  <1>1. CompressInv => OutputFits
    <2> SUFFICES ASSUME CompressInv PROVE OutputFits
      OBVIOUS
    <2>1. BlockInv /\ BuffersInv /\ SizeInv /\ Numbers
      BY Parts
    <2>2. ASSUME pc \in Compressing PROVE high <= room /\ Len(sink) + high <= capacity
      <3>1. 60 * Len(dest) <= 61 * size + 60 /\ high <= Len(dest) + 15
        BY <2>2, FragmentFits
      <3>2. pc \in InBlock /\ pc \notin {"called", "refused"}
        BY <2>2 DEF InBlock, Compressing
      <3>3. size = NextSize /\ N > 0
        BY <2>1, <3>2, Zenon DEF BlockInv
      <3>4. Earlier \in Nat /\ Earlier + size <= Len(text)
        BY <2>1, <3>2, BlockPlace
      <3>5. MaxCompressedLength(size) <= room /\ MaxCompressedLength(Len(text)) <= capacity
        BY <2>1, <2>2, <3>2, <3>3 DEF BuffersInv
      <3>6. 60 * Len(sink) <= 300 + 70 * Earlier
        <4>1. 60 * Len(sink) <= 300 + 70 * Earlier + (IF N = 0 THEN 60 ELSE 0)
          BY <2>1, Zenon DEF SizeInv
        <4>2. ~(N = 0)
          BY <2>1, <3>3 DEF Numbers
        <4>. QED BY <3>4, <4>1, <4>2
      <3>7. /\ size \in Nat /\ Len(text) \in Nat /\ Len(dest) \in Nat /\ Len(sink) \in Nat
            /\ high \in Nat /\ room \in Nat /\ capacity \in Nat
        BY <2>1 DEF Numbers
      <3>8. /\ MaxCompressedLength(size) \in Nat /\ 60 * MaxCompressedLength(size) >= 1870 + 70 * size
            /\ MaxCompressedLength(Len(text)) \in Nat
            /\ 60 * MaxCompressedLength(Len(text)) >= 1870 + 70 * Len(text)
        <4>1. /\ MaxCompressedLength(size) \in Nat
              /\ 60 * MaxCompressedLength(size) >= 1870 + 70 * size
          <5>1. PICK n \in Nat : n = size
            BY <3>7
          <5>2. PICK m : m = MaxCompressedLength(n)
            OBVIOUS
          <5>3. m \in Nat /\ 60 * m >= 1870 + 70 * n
            BY <5>2, BoundIsEnough
          <5>. QED BY <5>1, <5>2, <5>3
        <4>2. /\ MaxCompressedLength(Len(text)) \in Nat
              /\ 60 * MaxCompressedLength(Len(text)) >= 1870 + 70 * Len(text)
          <5>1. PICK n \in Nat : n = Len(text)
            BY <3>7
          <5>2. PICK m : m = MaxCompressedLength(n)
            OBVIOUS
          <5>3. m \in Nat /\ 60 * m >= 1870 + 70 * n
            BY <5>2, BoundIsEnough
          <5>. QED BY <5>1, <5>2, <5>3
        <4>. QED BY <4>1, <4>2
      <3>9. 60 * high <= 61 * size + 960
        BY <3>1, <3>7
      <3>10. 60 * high <= 60 * room
        BY <3>5, <3>7, <3>8, <3>9
      <3>11. 60 * (Len(sink) + high) <= 60 * capacity
        BY <3>4, <3>5, <3>6, <3>7, <3>8, <3>9
      <3>. QED BY <3>7, <3>10, <3>11
    <2>3. pc = "fill" => size <= Len(scratch)
      BY <2>1 DEF BlockInv, BuffersInv, Collected
    <2>. QED BY <2>2, <2>3, Zenon DEF OutputFits, Compressing
  <1>. QED BY <1>1, InvCorrect, PTL

\* After each block, and in the end, what was written is the length of the text
\* and elements that stand for the text so far, whatever the hash function, the
\* architecture and the pieces shown by the source.
THEOREM RoundTripCorrect == Spec => []RoundTrip
  <1>1. CompressInv => RoundTrip
    <2> SUFFICES ASSUME CompressInv, pc \in {"block", "done"}
                 PROVE  /\ Parsed(sink) # 0 /\ Value(sink, Parsed(sink)) = Len(text)
                        /\ Decodings(SubSeq(sink, Parsed(sink) + 1, Len(sink)))
                             = {SubSeq(text, 1, Len(text) - N)}
                        /\ pos = Len(text) - N
      BY Zenon DEF RoundTrip
    <2>1. TypeOK /\ BlockInv /\ OutputInv /\ Numbers
      BY Parts
    <2>2. pc \notin {"called", "refused"} /\ Output = << >> /\ Covered = 0
      BY OutputAt
    <2>3. /\ Body \in Seq(Byte) /\ sink = Header \o Body
          /\ StandsFor(Body \o Output, SubSeq(text, 1, Earlier + Covered))
      BY <2>1, <2>2, BodyIs
    <2>4. pos = Earlier /\ Earlier \in Nat
      BY <2>1, BlockPlace DEF BlockInv
    <2>5. StandsFor(Body, SubSeq(text, 1, Earlier))
      <3>1. Body \o << >> = Body
        BY <2>3
      <3>2. Earlier + 0 = Earlier
        BY <2>4
      <3>. QED BY <2>2, <2>3, <3>1, <3>2, Zenon
    <2>6. Len(text) \in 0 .. Word - 1 /\ Code /\ Body \in Seq(LengthByte)
      <3>1. LengthByte = Byte
        BY CodeSizes, CodeByte DEF Byte
      <3>. QED BY <2>1, <2>3, <3>1, HeaderIs, CodeSizes
    <2>7. Parsed(sink) = Len(Header) /\ Value(sink, Len(Header)) = Len(text)
      BY <2>3, <2>6, EncodingIsParsed, Zenon DEF Header
    <2>8. Len(Header) # 0
      <3>1. IsEncoded(Header, EncodedLength(Len(text)), Len(text))
        BY <2>6, EncodedBytes, Zenon DEF Header
      <3>. QED BY <3>1 DEF IsEncoded
    <2>9. Decodings(Body) = {SubSeq(text, 1, Earlier)}
      BY <2>5, StandsForDecodings, Zenon
    <2>. QED BY <2>4, <2>7, <2>8, <2>9, Zenon DEF Body, Earlier
  <1>. QED BY <1>1, InvCorrect, PTL
=============================================================================

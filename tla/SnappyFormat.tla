---------------------------- MODULE SnappyFormat ----------------------------
(***************************************************************************)
(* The elements of a Snappy stream: a tag byte, up to four bytes more (the *)
(* trailer) and, after the tag of a literal, its bytes.  The low two bits  *)
(* of the tag are the kind of the element; the rest of the tag says how    *)
(* many trailer bytes follow and holds a length and the high bits of a     *)
(* short offset.                                                           *)
(***************************************************************************)
EXTENDS Naturals, Sequences

LITERAL            == 0
COPY_1_BYTE_OFFSET == 1
COPY_2_BYTE_OFFSET == 2
COPY_4_BYTE_OFFSET == 3

kMaximumTagLength == 5
kBlockSize        == 65536

Byte == 0 .. 255
Kind(c)  == c % 4
Upper(c) == c \div 4     \* the six bits above the kind

\* Bytes of trailer after tag c.
Extra(c) ==
  CASE Kind(c) = LITERAL -> IF Upper(c) < 60 THEN 0 ELSE Upper(c) - 59
    [] Kind(c) = COPY_1_BYTE_OFFSET -> 1
    [] Kind(c) = COPY_2_BYTE_OFFSET -> 2
    [] Kind(c) = COPY_4_BYTE_OFFSET -> 4

\* The length in tag c; for a long literal, what is added to the trailer.
LengthIn(c) ==
  CASE Kind(c) = LITERAL -> IF Upper(c) < 60 THEN Upper(c) + 1 ELSE 1
    [] Kind(c) = COPY_1_BYTE_OFFSET -> (Upper(c) % 8) + 4
    [] OTHER -> Upper(c) + 1

\* The part of the offset in tag c, divided by 256.
OffsetIn(c) == IF Kind(c) = COPY_1_BYTE_OFFSET THEN Upper(c) \div 8 ELSE 0

\* The offset in the bytes of a copy element of one of the two short kinds.
CopyOffset(e) ==
  IF Kind(e[1]) = COPY_1_BYTE_OFFSET THEN 256 * OffsetIn(e[1]) + e[2]
                                     ELSE e[2] + 256 * e[3]

Huge == 1073741824   \* bound: stands for every number from 2^30 on

\* The little-endian number in the bytes b, at most four.
Number(b) ==
  LET d(i) == IF i <= Len(b) THEN b[i] ELSE 0
  IN  IF d(4) >= 64 THEN Huge
      ELSE d(1) + 256 * d(2) + 65536 * d(3) + 16777216 * d(4)

\* The length of a long literal is the number in its trailer plus one, a uint32.
LongLength(b) == IF b = <<255, 255, 255, 255>> THEN 0
                 ELSE IF Number(b) = Huge THEN Huge ELSE Number(b) + 1

----------------------------------------------------------------------------
(* Writing *)

\* Mutant of EmitCopyLessThan64: lengths up to 12 in three bits.
EmitCopyLessThan64_Wide(offset, len) ==
  IF len <= 12 /\ offset < 2048
    THEN << (COPY_1_BYTE_OFFSET + 4 * (len - 4) + 32 * (offset \div 256)) % 256,
            offset % 256 >>
    ELSE << (COPY_2_BYTE_OFFSET + 4 * (len - 1)) % 256,
            offset % 256, (offset \div 256) % 256 >>

\* Mutant of EmitCopyLessThan64: every copy has a two-byte offset and a spare byte.
EmitCopyLessThan64_Long(offset, len) ==
  << (COPY_4_BYTE_OFFSET + 4 * (len - 1)) % 256, offset % 256, (offset \div 256) % 256, 0, 0 >>

\* The bytes of one copy element; each is stored into a char.
EmitCopyLessThan64(offset, len) ==
  IF len < 12 /\ offset < 2048
    THEN << (COPY_1_BYTE_OFFSET + 4 * (len - 4) + 32 * (offset \div 256)) % 256,
            offset % 256 >>
    ELSE << (COPY_2_BYTE_OFFSET + 4 * (len - 1)) % 256,
            offset % 256, (offset \div 256) % 256 >>
=============================================================================

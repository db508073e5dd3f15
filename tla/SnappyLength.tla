---------------------------- MODULE SnappyLength ----------------------------
(***************************************************************************)
(* The uncompressed length at the start of a Snappy stream: a varint of    *)
(* one to five bytes, written by Varint::Encode32 and read from a flat     *)
(* buffer by Varint::Parse32WithLimit (Uncompress, snappy_uncompress,      *)
(* snappy_uncompressed_length).                                            *)
(*                                                                         *)
(* A byte is a digit and a continuation bit.  In the code Base = 2^7 and   *)
(* Top = 2^4, what is left of a 32-bit word after four digits.             *)
(***************************************************************************)
EXTENDS Naturals, Sequences

CONSTANTS
  Base,  \* values of a digit
  Top    \* values of the fifth digit

ASSUME VarintAssumption ==
  Base \in Nat \ {0, 1} /\ Top \in 1 .. Base

Base2 == Base * Base
Base3 == Base2 * Base
Base4 == Base3 * Base
Word  == Base4 * Top     \* the number of values of a uint32
kMax32 == 5

LengthByte == 0 .. (2 * Base - 1)
Digit(b) == b % Base     \* b & 0x7f
More(b)  == b >= Base    \* b & 0x80

----------------------------------------------------------------------------
(* Writing *)

\* Mutant of EncodedLength: v <= 2^7.
EncodedLength_OffByOne(v) ==
  IF v <= Base THEN 1 ELSE IF v < Base2 THEN 2 ELSE IF v < Base3 THEN 3
  ELSE IF v < Base4 THEN 4 ELSE kMax32

EncodedLength(v) ==
  IF v < Base THEN 1 ELSE IF v < Base2 THEN 2 ELSE IF v < Base3 THEN 3
  ELSE IF v < Base4 THEN 4 ELSE kMax32

\* Varint::Encode32.
Encode32(v) ==
  LET last == EncodedLength(v)
      digits == << v, v \div Base, v \div Base2, v \div Base3, v \div Base4 >>
  IN  [i \in 1 .. last |-> IF i < last THEN Digit(digits[i]) + Base ELSE digits[i]]

----------------------------------------------------------------------------
(* Reading a flat buffer *)

\* The value of the first n bytes of s.
Value(s, n) ==
  LET digit(i) == IF i <= n THEN Digit(s[i]) ELSE 0
  IN  digit(1) + Base * digit(2) + Base2 * digit(3) + Base3 * digit(4) + Base4 * digit(5)

\* Does the varint end with byte i?  The fifth byte must fit into the word.
EndsAt(s, i) ==
  /\ i \in 1 .. kMax32 /\ i <= Len(s)
  /\ \A j \in 1 .. i - 1 : More(s[j])
  /\ s[i] < IF i = kMax32 THEN Top ELSE Base

\* Varint::Parse32WithLimit: the number of bytes read, 0 if there is no varint.
Parsed(s) ==
  IF \E i \in 1 .. kMax32 : EndsAt(s, i)
    THEN CHOOSE i \in 1 .. kMax32 : EndsAt(s, i)
    ELSE 0
=============================================================================

---------------------------- MODULE SnappyVarint ----------------------------
(***************************************************************************)
(* SnappyDecompressor::ReadUncompressedLength: the length is read from a   *)
(* Source, one byte after another (RawUncompress, IsValidCompressedBuffer, *)
(* GetUncompressedLength of a Source).                                     *)
(***************************************************************************)
EXTENDS SnappyLength

CONSTANT MaxLength  \* bound: length of the input

ASSUME MaxLengthAssumption == MaxLength \in Nat

VARIABLES
  input,   \* what the source holds
  taken,   \* bytes taken from it; shift = 7 * taken
  result,  \* the uint32 under construction
  status   \* "reading", "read" (returned true), "failed" (returned false)

lengthVars == <<input, taken, result, status>>

LengthInit ==
  /\ input \in UNION {[1 .. n -> LengthByte] : n \in 0 .. MaxLength}
  /\ taken = 0 /\ result = 0 /\ status = "reading"

PowerOf(n) == << 1, Base, Base2, Base3, Base4 >>[n + 1]

\* Mutant of ReadByte: the digits are added up in a wider word.
ReadByte_Wide ==
  /\ status = "reading" /\ taken < kMax32 /\ taken < Len(input)
  /\ LET c == input[taken + 1]
     IN  /\ result' = result + Digit(c) * PowerOf(taken)
         /\ status' = IF More(c) THEN "reading" ELSE "read"
  /\ taken' = taken + 1
  /\ UNCHANGED input

\* A byte is taken and its digit put into its place; what does not fit into
\* the word is lost.
ReadByte ==
  /\ status = "reading" /\ taken < kMax32 /\ taken < Len(input)
  /\ LET c == input[taken + 1]
     IN  /\ result' = (result + Digit(c) * PowerOf(taken)) % Word
         /\ status' = IF More(c) THEN "reading" ELSE "read"
  /\ taken' = taken + 1
  /\ UNCHANGED input

\* Mutant of FailLength: a source that ends early gives what was read so far.
FailLength_Accepts ==
  /\ status = "reading" /\ (taken >= kMax32 \/ taken = Len(input))
  /\ status' = IF taken >= kMax32 THEN "failed" ELSE "read"
  /\ UNCHANGED <<input, taken, result>>

\* shift >= 32, or the source has no more bytes.
FailLength ==
  /\ status = "reading" /\ (taken >= kMax32 \/ taken = Len(input))
  /\ status' = "failed"
  /\ UNCHANGED <<input, taken, result>>

LengthNext == ReadByte \/ FailLength

LengthSpec == LengthInit /\ [][LengthNext]_lengthVars

----------------------------------------------------------------------------
(* Properties *)

\* The type invariant; result is a uint32.
LengthTypeOK ==
  /\ input \in Seq(LengthByte)
  /\ taken \in 0 .. kMax32 /\ taken <= Len(input)
  /\ result \in 0 .. Word - 1
  /\ status \in {"reading", "read", "failed"}

\* The value of the bytes taken, as long as it fits the word.
Partial ==
  (taken < kMax32 \/ input[taken] < Top) => result = Value(input, taken)

\* Every byte taken before the last continues; the last one only unless the
\* varint has been read.
Continues ==
  /\ \A j \in 1 .. taken - 1 : More(input[j])
  /\ status # "read" => \A j \in 1 .. taken : More(input[j])
  /\ status = "read" => taken > 0 /\ ~More(input[taken])
  /\ status = "failed" => taken >= kMax32 \/ taken = Len(input)

\* The inductive invariant of the reader.
LengthInv == LengthTypeOK /\ Partial /\ Continues

\* Whatever Parse32WithLimit accepts, ReadUncompressedLength reads as the same
\* value from the same number of bytes, and it never accepts a varint that is
\* cut off.  (Both are used on one stream: Uncompress allocates what the first
\* says, RawUncompress fills what the second says.)
ReaderFollowsParser ==
  /\ status = "read" => taken > 0 /\ ~More(input[taken])
  /\ Parsed(input) # 0 =>
       /\ status # "failed"
       /\ status = "read" => taken = Parsed(input) /\ result = Value(input, taken)

\* What was read is encoded in no more bytes than were read, and both readers
\* read the encoding back: no value is written that is not read.
EncodingIsReadBack ==
  status = "read" =>
    LET s == Encode32(result)
    IN  /\ Len(s) <= taken
        /\ Parsed(s \o input) = Len(s)
        /\ Value(s, Len(s)) = result
=============================================================================

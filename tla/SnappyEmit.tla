----------------------------- MODULE SnappyEmit -----------------------------
(***************************************************************************)
(* EmitCopy and EmitLiteral: how the compressor writes a match or a run of *)
(* literal bytes as elements.  A behaviour is one call: EmitCopy cuts a    *)
(* match into pieces of 4 to 64 bytes, EmitLiteral writes the length of a  *)
(* literal, least significant byte first, and then its tag.  The bytes of  *)
(* the literal themselves are left out.                                    *)
(***************************************************************************)
EXTENDS SnappyFormat

CONSTANTS
  Matches,  \* lengths of the matches emitted
  Offsets,  \* their offsets
  Literals  \* lengths of the literals emitted

MaxInt == 2147483647

\* CompressFragment finds matches of at least four bytes inside one block;
\* lengths are ints.
ASSUME EmitAssumption ==
  /\ Matches \subseteq 4 .. kBlockSize
  /\ Offsets \subseteq 1 .. kBlockSize - 1
  /\ Literals \subseteq 1 .. MaxInt

VARIABLES
  call,    \* "copy", "literal" or, before the first call, "none"
  offset,  \* argument of EmitCopy
  total,   \* argument len
  left,    \* len of EmitCopy, n of EmitLiteral
  op,      \* the bytes written
  emit     \* "emitting", "returned"

emitVars == <<call, offset, total, left, op, emit>>

EmitInit ==
  /\ \/ call = "copy" /\ total \in Matches /\ offset \in Offsets
        /\ left = total /\ op = << >>
     \/ call = "literal" /\ total \in Literals /\ offset = 0
        /\ left = total - 1 /\ op = << >>
  /\ emit = "emitting"

Piece(len) ==
  /\ call = "copy" /\ emit = "emitting"
  /\ op' = op \o EmitCopyLessThan64(offset, len)
  /\ left' = left - len
  /\ UNCHANGED <<call, offset, total>>

\* Mutant of EmitSixtyFour: a copy of 65 to 67 bytes leaves less than four.
EmitSixtyFour_Greedy == left > 64 /\ Piece(64) /\ UNCHANGED emit

\* "Emit 64 byte copies but make sure to keep at least four bytes reserved".
EmitSixtyFour == left >= 68 /\ Piece(64) /\ UNCHANGED emit

\* Too much for one copy: an extra one of 60 bytes.
EmitSixty == left > 64 /\ left < 68 /\ Piece(60) /\ UNCHANGED emit

EmitRemainder == left <= 64 /\ Piece(left) /\ emit' = "returned"

\* A short literal has its length in the tag.
EmitShort ==
  /\ call = "literal" /\ emit = "emitting" /\ op = << >> /\ left < 60
  /\ op' = << LITERAL + 4 * left >>
  /\ emit' = "returned"
  /\ UNCHANGED <<call, offset, total, left>>

\* op[1] is kept free for the tag of a long literal.
ReserveTag ==
  /\ call = "literal" /\ emit = "emitting" /\ op = << >> /\ left >= 60
  /\ op' = << 0 >>
  /\ UNCHANGED <<call, offset, total, left, emit>>

\* One more byte of the length.
EmitLengthByte ==
  /\ call = "literal" /\ emit = "emitting" /\ op # << >> /\ left > 0
  /\ op' = Append(op, left % 256)
  /\ left' = left \div 256
  /\ UNCHANGED <<call, offset, total, emit>>

\* Mutant of EmitTag: the tag counts the bytes from zero.
EmitTag_OffByOne ==
  /\ call = "literal" /\ emit = "emitting" /\ op # << >> /\ left = 0
  /\ op' = [op EXCEPT ![1] = LITERAL + 4 * (58 + (Len(op) - 1))]
  /\ emit' = "returned"
  /\ UNCHANGED <<call, offset, total, left>>

\* The number of length bytes goes into the tag.
EmitTag ==
  /\ call = "literal" /\ emit = "emitting" /\ op # << >> /\ left = 0
  /\ op' = [op EXCEPT ![1] = LITERAL + 4 * (59 + (Len(op) - 1))]
  /\ emit' = "returned"
  /\ UNCHANGED <<call, offset, total, left>>

EmitNext ==
  \/ EmitSixtyFour \/ EmitSixty \/ EmitRemainder
  \/ EmitShort \/ ReserveTag \/ EmitLengthByte \/ EmitTag

EmitSpec == EmitInit /\ [][EmitNext]_emitVars

----------------------------------------------------------------------------
(* Properties *)

\* The type invariant.  What EmitCopy keeps for its last piece is at least four
\* bytes (the assertion of EmitCopyLessThan64), until nothing is left.
EmitTypeOK ==
  /\ call \in {"none", "copy", "literal"} /\ emit \in {"emitting", "returned"}
  /\ op \in Seq(Byte)
  /\ call = "copy" =>
       /\ total \in 4 .. kBlockSize /\ offset \in 1 .. kBlockSize - 1
       /\ left \in 0 .. kBlockSize /\ (emit = "returned" => left = 0) /\ (emit = "emitting" => left >= 4)
  /\ call = "literal" => total \in 1 .. MaxInt /\ left \in 0 .. total

\* Is e read as one copy of len bytes from offset off?
IsCopy(e, off, len) ==
  /\ Kind(e[1]) \in {COPY_1_BYTE_OFFSET, COPY_2_BYTE_OFFSET}
  /\ Len(e) = 1 + Extra(e[1])
  /\ LengthIn(e[1]) = len /\ CopyOffset(e) = off

\* Every element that EmitCopy appends is read back as a copy from the same
\* offset of exactly the bytes by which the match got shorter; no piece is
\* longer or shorter than an element can say.
PiecesAreReadBack ==
  [][call = "copy" /\ emit = "emitting" =>
       LET e == EmitCopyLessThan64(offset, left - left')
       IN  op' = op \o e /\ IsCopy(e, offset, left - left')]_emitVars

\* A copy never takes more room than the bytes it stands for, a premise of
\* MaxCompressedLength ("the copy op takes 3 bytes to encode").
CopiesShrink == call = "copy" => Len(op) <= total - left

\* The length of a literal is read back: the tag announces the bytes of length
\* that follow, one to four of them, and they hold the length minus one.
LiteralIsReadBack ==
  call = "literal" /\ emit = "returned" =>
    LET c == op[1]
        b(i) == IF i < Len(op) THEN op[i + 1] ELSE 0
    IN  /\ Kind(c) = LITERAL /\ Len(op) = 1 + Extra(c) /\ Len(op) <= kMaximumTagLength
        /\ LengthIn(c) + b(1) + 256 * b(2) + 65536 * b(3) + 16777216 * b(4) = total
=============================================================================

------------------------- MODULE SnappyCompressInv -------------------------
(***************************************************************************)
(* The inductive invariant of SnappyCompress, in named parts: what a call  *)
(* of EmitCopy or EmitLiteral has written so far, where the block is, what *)
(* is true of the table and of the places in the block at each step of     *)
(* CompressFragment, how much has been written, and what it stands for.    *)
(***************************************************************************)
EXTENDS SnappyCompress

----------------------------------------------------------------------------
(* One call of EmitCopy or EmitLiteral *)

\* The byte of length number i, zero where there is none.
LengthByteAt(i) == IF i < Len(op) THEN op[i + 1] ELSE 0

\* What one more in each byte of a length adds to it.
Place(k) == CASE k = 0 -> 1 [] k = 1 -> 256 [] k = 2 -> 65536
              [] k = 3 -> 16777216 [] k = 4 -> 16777216 * 256

\* What the bytes of length written so far say.
Written == LengthByteAt(1) + 256 * LengthByteAt(2) + 65536 * LengthByteAt(3)
             + 16777216 * LengthByteAt(4)

\* The bytes of length written so far and what is left of n make up n.
PartialLength ==
  /\ Len(op) \in 1 .. 5 /\ (Len(op) = 1 => left >= 60)
  /\ total - 1 = Written + (IF left = 0 THEN 0 ELSE left * Place(Len(op) - 1))

\* While a literal is emitted, nothing of its length is lost.
LiteralInv ==
  call = "literal" =>
    /\ op = << >> => left = total - 1 /\ emit = "emitting"
    /\ op # << >> /\ emit = "emitting" => PartialLength

\* The tag of a literal grows by one byte for sixty bytes at least; a copy takes
\* three bytes for four at most.
RoomInv ==
  /\ call = "literal" /\ op # << >> => 60 * (Len(op) - 1) <= total
  /\ call = "copy" => 4 * Len(op) <= 3 * (total - left)

EmitInv == EmitTypeOK /\ CopiesShrink /\ LiteralIsReadBack /\ LiteralInv /\ RoomInv

----------------------------------------------------------------------------
(* The block *)

\* The steps of CompressFragment, and those at which there is a block.
Compressing == {"scan", "literal", "match", "copy", "rest", "last", "append"}
InBlock     == {"table"} \cup Compressing

\* Bytes of the text in earlier blocks, and the size of the next one.
Earlier  == Len(text) - N
NextSize == SmallerOf(N, BlockSize)

\* The scratch buffer holds the first bytes of the block.
Collected ==
  /\ scratch # << >>
  /\ \A i \in 1 .. filled : scratch[i] = text[Earlier + i]

\* The block is the next part of the text, in the source or in the scratch buffer.
BlockInv ==
  /\ pc \in {"called", "refused", "block", "done"} => pos = Earlier
  /\ pc \in {"called", "refused"} => N = Len(text) /\ sink = << >>
  /\ pc = "fill" =>
       /\ frag = "scratch" /\ Collected /\ filled <= size /\ pos = Earlier + filled
  /\ pc \in {"fill"} \cup InBlock => N > 0 /\ size = NextSize
  /\ pc \in InBlock =>
       IF frag = "source" THEN pos = Earlier
                          ELSE Collected /\ filled = size /\ pos = Earlier + size

\* The buffers made for an earlier block are large enough for the next one.
BuffersInv ==
  /\ scratch # << >> => NextSize <= Len(scratch)
  /\ room # 0 => MaxCompressedLength(NextSize) <= room
  /\ pc \in Compressing => room # 0
  /\ pc \notin {"called", "refused"} => capacity >= MaxCompressedLength(Len(text))

----------------------------------------------------------------------------
(* CompressFragment *)

\* No entry of the table in use is at place i or after it.
AllBefore(i) == \A h \in 0 .. TableSizeNow - 1 : table[which][h] < i

\* The table in use has the size that the block asks for.
TableInv ==
  pc \in Compressing =>
    /\ 2 ^ (32 - shift) = TableSizeNow
    /\ which = IF TableSizeNow <= SmallTable THEN "small" ELSE "large"

\* Where the compressor is in the block: always far enough from its end.
PlaceInv ==
  /\ pc = "scan" =>
       /\ nextEmit < nextIp /\ (nextIp = 1 \/ nextIp <= ipLimit) /\ AllBefore(nextIp)
       /\ nextHash = HashAt(nextIp, shift) /\ skip \in 32 .. 32 + nextIp
  /\ pc \in {"literal", "match"} =>
       /\ candidate < ip /\ ip < ipLimit /\ AllBefore(ip + 1)
       /\ Load32(candidate) = Load32(ip)
  /\ pc = "literal" => nextEmit < ip
  /\ pc = "copy" => total + offset <= ip /\ ip <= size /\ AllBefore(ip)
  /\ pc \in {"rest", "last"} => nextEmit <= size
  /\ pc \notin {"fill", "table"} => loaded <= size

\* What is being emitted.
CallInv ==
  /\ pc = "literal" => call = "literal" /\ total = ip - nextEmit
  /\ pc = "copy" => call = "copy"
  /\ pc = "last" => call = "literal" /\ total = size - nextEmit
  /\ pc \notin {"literal", "copy", "last", "refused"} => emit = "returned"

----------------------------------------------------------------------------
(* The output *)

\* Literals and copies take one byte in sixty more than the bytes they stand for,
\* and one byte more before a copy and at the end of a block; blocks but the last
\* have the room for that one.
SizeInv ==
  /\ pc \in {"scan", "literal", "rest", "last"} => 60 * Len(dest) <= 61 * nextEmit
  /\ pc = "match" => 60 * Len(dest) <= 61 * ip + 60
  /\ pc = "copy" => 60 * Len(dest) <= 61 * (ip - total) + 60
  /\ pc = "append" => 60 * Len(dest) <= 61 * size + 60
  /\ pc \in Compressing => high <= Len(dest) + 15
  /\ 60 * Len(sink) <= 300 + 70 * Earlier + (IF N = 0 THEN 60 ELSE 0)

\* The output of the block that is complete, and how many of its bytes it stands for.
Output  == IF pc = "copy" THEN dest \o op ELSE IF pc \in Compressing THEN dest ELSE << >>
Covered ==
  CASE pc \in {"scan", "literal", "rest", "last"} -> nextEmit
    [] pc = "match"  -> ip
    [] pc = "copy"   -> ip - left
    [] pc = "append" -> size
    [] OTHER         -> 0

Header == Encode32(Len(text))

StandsFor(s, t) == ReadAll(s) = [at |-> Len(s), out |-> t]

\* What was written is the length and elements that stand for the text so far.
OutputInv ==
  pc \notin {"called", "refused"} =>
    \E body \in {SubSeq(sink, Len(Header) + 1, Len(sink))} :
      /\ sink = Header \o body
      /\ StandsFor(body \o Output, SubSeq(text, 1, Earlier + Covered))

\* The inductive invariant, of every step of every call: from the state of the
\* two emitters up to the contents of what was written.
CompressInv ==
  /\ TypeOK /\ EmitInv /\ BlockInv /\ BuffersInv /\ TableInv /\ PlaceInv /\ CallInv
  /\ MatchIsLongest /\ SizeInv /\ OutputInv
=============================================================================

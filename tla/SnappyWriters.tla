---------------------------- MODULE SnappyWriters ----------------------------
(***************************************************************************)
(* The writers a decompressor can be given: SnappyArrayWriter fills a flat *)
(* array, SnappyIOVecWriter the buffers of an iovec one after another, and *)
(* SnappyDecompressionValidator only counts.                               *)
(*                                                                         *)
(* A writer is a record: its kind, its buffers (bufs) and their lengths    *)
(* (lens), the buffer it is writing to (cur), the bytes written to it (at) *)
(* and in all (total), and the length announced (limit).  Each buffer is   *)
(* followed by cells that are not the writer's.                            *)
(***************************************************************************)
EXTENDS SnappyFormat, Integers, SequencesExt

CONSTANTS
  Garbage,  \* a byte that was never written, or of a region no longer valid
  Guard     \* a cell after the end of a buffer

Cells == Byte \cup {Garbage, Guard}

Slack == 16   \* bound: cells modelled after each buffer

kMaxIncrementCopyOverflow == 10

NewWriter(kind, lens) ==
  [kind |-> kind, lens |-> lens, cur |-> 1, at |-> 0, total |-> 0, limit |-> 0,
   bufs |-> [b \in DOMAIN lens |->
               [k \in 1 .. lens[b] + Slack |-> IF k <= lens[b] THEN Garbage ELSE Guard]]]

CheckLength(w) == w.total = w.limit
SpaceLeft(w)   == w.limit - w.total

Done(w)   == [ok |-> TRUE, w |-> w]
Failed(w) == [ok |-> FALSE, w |-> w]

----------------------------------------------------------------------------
(* Memory *)

Load(w, b, at, n) == SubSeq(w.bufs[b], at + 1, at + n)

Store(w, b, at, s) ==
  [w EXCEPT !.bufs[b] = SubSeq(@, 1, at) \o s \o SubSeq(@, at + Len(s) + 1, Len(@))]

Move(w, b, from, to, n) ==
  [w EXCEPT !.bufs[b] = SubSeq(@, 1, to) \o SubSeq(@, from + 1, from + n)
                          \o SubSeq(@, to + n + 1, Len(@))]

\* UnalignedCopy64: one load and store of eight bytes where a pointer has eight
\* bytes (wide), two of four elsewhere.
Copy64(w, b, from, to, wide) ==
  IF wide THEN Move(w, b, from, to, 8)
          ELSE Move(Move(w, b, from, to, 4), b, from + 4, to + 4, 4)

Advance(w, n) == [w EXCEPT !.at = @ + n, !.total = @ + n]

\* Byte by byte: copied[n] is the writer after n bytes.
IncrementalCopy(w, b, from, to, len) ==
  LET copied[n \in 0 .. len] ==
        IF n = 0 THEN w ELSE Move(copied[n - 1], b, from + n - 1, to + n - 1, 1)
  IN  copied[len]

\* The rounds of the second loop, which moves on by eight bytes while any are left.
Rounds(len) == IF len <= 0 THEN 0 ELSE (len + 7) \div 8

EightByEight(w, b, from, to, len, wide) ==
  LET copied[n \in 0 .. Rounds(len)] ==
        IF n = 0 THEN w
        ELSE Copy64(copied[n - 1], b, from + 8 * (n - 1), to + 8 * (n - 1), wide)
  IN  copied[Rounds(len)]

\* Mutant of IncrementalCopyFastPath: the pattern is not expanded first.
IncrementalCopyFastPath_NoExpand(w, b, from, to, len, wide) ==
  EightByEight(w, b, from, to, len, wide)

\* The length of a pattern of gap bytes that has been doubled n times, and how
\* often the first loop doubles it: until it is eight bytes long.
Doubled(gap, n) == gap * << 1, 2, 4, 8 >>[n + 1]
Doublings(gap) ==
  IF gap >= 8 THEN 0 ELSE IF gap >= 4 THEN 1 ELSE IF gap >= 2 THEN 2 ELSE 3

IncrementalCopyFastPath(w, b, from, to, len, wide) ==
  LET gap == to - from
      expanded[n \in 0 .. Doublings(gap)] ==
        IF n = 0 THEN w
        ELSE Copy64(expanded[n - 1], b, from, from + Doubled(gap, n - 1), wide)
      done == Doubled(gap, Doublings(gap)) - gap
  IN  EightByEight(expanded[Doublings(gap)], b, from, to + done, len - done, wide)

----------------------------------------------------------------------------
(* TryFastAppend *)

\* Mutant of FastAccepts: what may be read may be written.
FastAccepts_NoRoom(w, available, len) ==
  /\ w.kind # "validator"
  /\ len <= 16 /\ available >= 16 + kMaximumTagLength
  /\ w.kind = "iovec" => w.lens[w.cur] - w.at >= 16

\* Is the literal of len bytes taken, where available bytes can be read?
FastAccepts(w, available, len) ==
  /\ w.kind # "validator"
  /\ len <= 16 /\ available >= 16 + kMaximumTagLength /\ SpaceLeft(w) >= 16
  /\ w.kind = "iovec" => w.lens[w.cur] - w.at >= 16

\* Sixteen bytes are copied, len of them are the literal.
FastAppend(w, s, len) == Advance(Store(w, w.cur, w.at, s), len)

----------------------------------------------------------------------------
(* Append *)

SmallerOf(a, b) == IF a < b THEN a ELSE b

\* The buffers of an iovec in one row: where each starts, where the writer is,
\* and the buffer that has the cell at a.
Starts(lens) ==
  LET start[b \in 1 .. Len(lens)] == IF b = 1 THEN 0 ELSE start[b - 1] + lens[b - 1]
  IN  start

Address(w) == Starts(w.lens)[w.cur] + w.at

BufferAt(w, a) ==
  CHOOSE b \in 1 .. Len(w.lens) : Starts(w.lens)[b] <= a /\ a < Starts(w.lens)[b] + w.lens[b]

\* What has been written to the buffers.
Held(w) ==
  [i \in 1 .. w.total |-> LET b == BufferAt(w, i - 1) IN w.bufs[b][i - Starts(w.lens)[b]]]

\* The buffers are filled one after another; the writer moves on when one is full
\* and bytes are left.  What does not fit into the last one is not written.
Fill(w, s) ==
  LET start == Starts(w.lens)
      last  == Len(w.lens)
      a     == Address(w)
      n     == SmallerOf(Len(s), start[last] + w.lens[last] - a)
      cur   == IF n < Len(s) THEN last ELSE IF n = 0 THEN w.cur ELSE BufferAt(w, a + n - 1)
      cell(b, k) == LET i == start[b] + k - a
                    IN  IF k <= w.lens[b] /\ i \in 1 .. n THEN s[i] ELSE w.bufs[b][k]
  IN  [ok |-> n = Len(s),
       w  |-> [w EXCEPT !.cur = cur, !.at = a + n - start[cur], !.total = @ + n,
                        !.bufs = [b \in DOMAIN @ |-> [k \in DOMAIN @[b] |-> cell(b, k)]]]]

Count(w, n) ==
  [ok |-> w.total + n <= w.limit, w |-> [w EXCEPT !.total = @ + n]]

AppendBytes(w, s) ==
  CASE w.kind = "validator" -> Count(w, Len(s))
    [] w.kind = "array" ->
         IF SpaceLeft(w) < Len(s) THEN Failed(w)
         ELSE Done(Advance(Store(w, 1, w.at, s), Len(s)))
    [] w.kind = "iovec" ->
         IF w.total + Len(s) > w.limit THEN Failed(w) ELSE Fill(w, s)

----------------------------------------------------------------------------
(* AppendFromSelf; how an iovec copies is in the actions of SnappyDecompress *)

\* The array writer: three ways to copy, by the length, the offset and the room.
ArrayCopy(w, offset, len, wide) ==
  LET from == w.at - offset
  IN  IF len <= 16 /\ offset >= 8 /\ SpaceLeft(w) >= 16
        THEN Done(Advance(Copy64(Copy64(w, 1, from, w.at, wide), 1, from + 8, w.at + 8, wide), len))
      ELSE IF SpaceLeft(w) >= len + kMaxIncrementCopyOverflow
        THEN Done(Advance(IncrementalCopyFastPath(w, 1, from, w.at, len, wide), len))
      ELSE IF SpaceLeft(w) < len THEN Failed(w)
      ELSE Done(Advance(IncrementalCopy(w, 1, from, w.at, len), len))

\* The buffer, and the place in it, offset bytes back from where the writer is.
Locate(w, offset) ==
  LET a == Address(w) - offset
      b == BufferAt(w, a)
  IN  [b |-> b, at |-> a - Starts(w.lens)[b]]

\* An offset of zero wraps around in "produced <= offset - 1u".
CanReach(w, offset) == offset \in 1 .. w.total

AppendFromSelf(w, offset, len, wide) ==
  IF ~CanReach(w, offset) THEN Failed(w)
  ELSE IF w.kind = "validator" THEN Count(w, len)
  ELSE ArrayCopy(w, offset, len, wide)
=============================================================================

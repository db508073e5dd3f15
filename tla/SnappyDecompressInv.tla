------------------------ MODULE SnappyDecompressInv ------------------------
(***************************************************************************)
(* The inductive invariant of SnappyDecompress: why a tag can be read, why *)
(* what is skipped is there, and why no store leaves its buffer.           *)
(***************************************************************************)
EXTENDS SnappyDecodes

\* No region shows more than what is left.
ExactSources == \A r \in Calls : r.beyond = << >>

\* What the call is given stays as it was.
GivenOK ==
  /\ given.bytes \in Seq(Byte) /\ given.beyond = << >>
  /\ /\ given.lens \in Seq(Nat) /\ given.wide \in BOOLEAN
  /\ given.entry \in {"Uncompress", "snappy_uncompress", "IsValidCompressedBuffer",
                      "RawUncompressToIOVec"}
  /\ given.entry = "snappy_uncompress" => Len(given.lens) = 1
  /\ given.entry = "RawUncompressToIOVec" => given.lens # << >>

----------------------------------------------------------------------------
(* Reading *)

\* The bytes from ip to limit can be read: they are in the region last peeked,
\* or in the scratch buffer.
Buffered ==
  \/ region = "source" /\ valid /\ limit = pos + peeked
  \/ /\ region = "scratch" /\ limit <= kMaximumTagLength
     /\ \A k \in ip + 1 .. limit : scratch[k] \in Byte

BufferOK ==
  /\ pc \in {"called", "length", "refill", "needed", "tag", "literal", "copying"} =>
       (ip < limit => Buffered)
  /\ pc \in {"needed", "tag", "copying"} => ip < limit
  /\ pc \in {"tag", "copying"} =>
       /\ ip + 1 + EntryExtra(Tag) <= limit
       /\ region = "scratch" => ip = 0
       /\ region = "source" => ip + kMaximumTagLength <= limit

\* An element whose metadata are put together: what is in scratch was skipped,
\* and its tag says that more is wanted.
StitchOK ==
  pc = "stitch" =>
    /\ nbuf \in 1 .. Wanted /\ peeked = 0
    /\ \A k \in 1 .. nbuf : scratch[k] \in Byte

\* The source has what was skipped, and what was peeked beyond.
SourceOK ==
  /\ pos <= Len(given.bytes)
  /\ pc # "gone" => pos + peeked <= Len(given.bytes)

----------------------------------------------------------------------------
(* Writing *)

Writer ==
  [kind : {"array", "iovec", "validator"}, lens : Seq(Nat), cur : Nat, at : Nat,
   total : Nat, limit : Nat, bufs : Seq(Seq(Cells))]

\* The buffers have their lengths, and what is behind them is not touched.
BuffersOK(v) ==
  /\ Len(v.bufs) = Len(v.lens)
  /\ \A b \in 1 .. Len(v.lens) :
       /\ Len(v.bufs[b]) = v.lens[b] + Slack
       /\ \A k \in v.lens[b] + 1 .. v.lens[b] + Slack : v.bufs[b][k] = Guard

\* Where the writer is, and how much it has written.
PlaceOK(v) ==
  /\ v.kind = "validator" => v.lens = << >>
  /\ v.kind = "array" => Len(v.lens) = 1 /\ v.cur = 1 /\ v.at = v.total
  /\ v.kind = "iovec" =>
       /\ v.cur \in 1 .. Len(v.lens) /\ v.at <= v.lens[v.cur]
       /\ Address(v) = v.total
  /\ v.kind # "validator" => v.total <= v.limit

\* The array is as long as was announced, at least.
RoomOK ==
  w.kind = "array" =>
    /\ w.limit <= w.lens[1]
    /\ pc = "length" => Parsed(input) # 0 /\ Announced <= w.lens[1]

WriterOK ==
  /\ w \in Writer /\ BuffersOK(w) /\ PlaceOK(w) /\ RoomOK
  /\ pc = "called" => w.kind = "validator"
  /\ pc \in {"called", "length"} => w.total = 0 /\ w.limit = 0

\* The copy of an iovec writer reads what has been written and stays below the
\* length announced.
CopyOK ==
  /\ copy \in [from : [b : Nat, at : Nat], len : 0 .. 64]
  /\ pc = "copying" =>
    /\ w.kind = "iovec"
    /\ copy.from.b \in 1 .. w.cur /\ copy.from.at <= w.lens[copy.from.b]
    /\ copy.from.b = w.cur => copy.from.at <= w.at
    /\ copy.len <= SpaceLeft(w)

DecompressInv ==
  /\ TypeOK /\ LengthInv /\ GivenOK
  /\ BufferOK /\ StitchOK /\ SourceOK
  /\ WriterOK /\ CopyOK

----------------------------------------------------------------------------
(* What is written is what the stream stands for *)

\* The steps at which what is buffered is still to be read.
Buffering == {"called", "length", "refill", "needed", "tag", "literal", "copying"}

\* The place in the stream of the byte at ip.
Here == pos + peeked - (limit - ip)

\* What is buffered, or put together, are the next bytes of the stream.
ShownOK ==
  /\ pc \in Buffering =>
       /\ limit - ip <= pos + peeked
       /\ region = "scratch" => peeked = 0
       /\ \A i \in ip .. limit - 1 : At(i) = given.bytes[Here + (i - ip) + 1]
  /\ pc \in {"called", "length"} => Here = 0
  /\ pc = "stitch" =>
       nbuf <= pos /\ \A k \in 1 .. nbuf : scratch[k] = given.bytes[pos - nbuf + k]

\* How the call stands.
StateOK ==
  /\ eof => pc \in {"done", "gone"} /\ status = "read"
  /\ pc = "called" => status = "reading"
  /\ pc \notin {"called", "length", "done", "gone"} => status = "read"
  /\ status = "read" /\ pc \notin {"called", "length"} => w.limit = result

\* Where the element being read starts.
ElementAt == IF pc = "stitch" THEN pos - nbuf ELSE Here

\* The reader of the stream after n elements.
ReaderAfter(n) == Readers(given.bytes)[n]

\* Writer v has put out t; the validator only counts.
Wrote(v, t) == v.total = Len(t) /\ (v.kind # "validator" => Held(v) = t)

\* Its buffers have room for all that was announced.
Enough(v) == v.kind = "iovec" => Room(v) >= v.limit

\* Of the literal that reader r of stream s reads, the bytes before ip are written.
InLiteral(s, r) ==
  /\ r.at < Len(s) /\ IsLiteral(s, r) /\ After(s, r) <= Here
  /\ Here + literal = After(s, r) + LengthAt(s, r)
  /\ Wrote(w, r.out \o SubSeq(s, After(s, r) + 1, Here))

\* Of the copy that comes after out, all but copy.len bytes are written.
InCopy(out) ==
  /\ Kind(Tag) # LITERAL /\ Reaches(out, Offset) /\ copy.len <= EntryLength(Tag)
  /\ Wrote(w, CopyFromSelf(out, Offset, EntryLength(Tag) - copy.len))
  /\ copy.len > 0 => Starts(w.lens)[copy.from.b] + copy.from.at = w.total - Offset

\* The writer has put out what a reader of the stream has, and of the element that is
\* being read the part that was read.
WrittenOK ==
  Enough(w) =>
    /\ pc \in {"called", "length", "refill", "needed", "stitch", "tag"} =>
         \E n \in 0 .. Len(given.bytes) : ReaderAfter(n).at = ElementAt /\ Wrote(w, ReaderAfter(n).out)
    /\ pc = "literal" =>
         \E n \in 0 .. Len(given.bytes) : InLiteral(given.bytes, ReaderAfter(n))
    /\ pc = "copying" =>
         \E n \in 0 .. Len(given.bytes) : ReaderAfter(n).at = Here /\ InCopy(ReaderAfter(n).out)

\* A call that stops early stops for a reason.
EndOK ==
  pc = "done" /\ status = "read" /\ Enough(w) =>
    IF eof THEN /\ pos = Len(given.bytes) /\ peeked = 0
                /\ \E n \in 0 .. Len(given.bytes) :
                     ReaderAfter(n).at = Len(given.bytes) /\ Wrote(w, ReaderAfter(n).out)
           ELSE Contents = {}

DecodesInv == ShownOK /\ StateOK /\ WrittenOK /\ EndOK
=============================================================================

-------------------------- MODULE SnappyDecompress --------------------------
(***************************************************************************)
(* Decompression, from a call of the public interface to its answer.       *)
(* SnappyDecompressor reads the announced length and then the elements of  *)
(* a stream from a Source, which gives it piece by piece, and passes what  *)
(* they say to a writer.  An element may straddle pieces: its tag and      *)
(* trailer are then put together in a scratch buffer of five bytes.        *)
(*                                                                         *)
(* Peek of a Source shows one or more of the bytes that are left, until    *)
(* the next Skip.  The contract in snappy-sinksource.h lets it show bytes  *)
(* behind them, too, if the source is a view on a part of something larger *)
(* (the field beyond of a call); the decompressor never asks how many are  *)
(* left, and takes them for its input.  The invariants are about sources   *)
(* that show what is left and no more, as ByteArraySource, the only one of *)
(* the repository.                                                         *)
(***************************************************************************)
EXTENDS SnappyVarint, SnappyTable, SnappyWriters

CONSTANTS
  MaxSize, \* what a string can hold on a 32-bit build; elsewhere, any length announced
  Calls   \* the calls made: header, the varint the stream starts with; bytes, its
          \* elements; beyond, the bytes that a region may show after them; entry,
          \* the function called; lens, the lengths of the buffers it is given;
          \* wide, is a pointer eight bytes long?

ASSUME CallsAssumption ==
  /\ Garbage \notin Byte /\ Guard \notin Byte /\ MaxSize \in Nat
  /\ \A r \in Calls :
       /\ r.header \in Seq(LengthByte) /\ Len(r.header) <= MaxLength
       /\ r.bytes \in Seq(Byte) /\ r.beyond \in Seq(Byte)
       /\ r.lens \in Seq(Nat) /\ r.wide \in BOOLEAN
       /\ r.entry \in {"Uncompress", "snappy_uncompress", "IsValidCompressedBuffer",
                       "RawUncompressToIOVec"}
       /\ r.entry = "snappy_uncompress" => Len(r.lens) = 1
       /\ r.entry = "RawUncompressToIOVec" => r.lens # << >>

VARIABLES
  given,    \* the call: bytes, beyond, entry, lens, wide
  pos,      \* bytes skipped, after the varint
  valid,    \* is the region last peeked still valid?
  region,   \* what ip and limit point into: "none", "source", "scratch"
  ip,       \* next buffered byte, from the start of the elements or the scratch buffer
  limit,    \* just past the buffered bytes
  peeked,   \* bytes peeked and not skipped yet
  scratch,  \* the scratch buffer
  nbuf,     \* bytes put together in it
  literal,  \* what is left of the literal being copied
  w,        \* the writer
  copy,     \* the copy an iovec writer is making: where it is and what is left of it
  eof,      \* end of input at the end of an element
  answer,   \* what the call returned: "none", "ok", "invalid", "too small"
  pc        \* "called", "length", "refill", "needed", "stitch", "tag", "literal",
            \* "copying", "done", "gone"

source == <<pos, valid, region, ip, limit, peeked>>
tag    == <<scratch, nbuf, literal, eof>>
vars   == <<lengthVars, given, source, tag, w, copy, answer, pc>>

Init ==
  /\ \E r \in Calls :
       /\ input = r.header
       /\ given = [bytes |-> r.bytes, beyond |-> r.beyond, entry |-> r.entry,
                   lens |-> r.lens, wide |-> r.wide]
  /\ taken = 0 /\ result = 0 /\ status = "reading"
  /\ pos = 0 /\ valid = FALSE /\ region = "none" /\ ip = 0 /\ limit = 0 /\ peeked = 0
  /\ scratch = [i \in 1 .. kMaximumTagLength |-> Garbage]
  /\ nbuf = 0 /\ literal = 0 /\ eof = FALSE
  /\ w = NewWriter("validator", << >>) /\ copy = [from |-> [b |-> 1, at |-> 0], len |-> 0]
  /\ answer = "none" /\ pc = "called"

----------------------------------------------------------------------------
(* Memory and numbers *)

\* What regions may show.
Shown == given.bytes \o given.beyond

\* The byte at address i of the buffer ip points into.
At(i) == IF region = "scratch" THEN scratch[i + 1]
         ELSE IF valid /\ i < limit THEN Shown[i + 1] ELSE Garbage

Bytes(i, n) == [k \in 1 .. n |-> At(i + k - 1)]

\* Bytes the source may show at a call of Peek from position p: none if and only
\* if none is left.
Peeks(p) == IF p >= Len(given.bytes) THEN {0} ELSE 1 .. Len(Shown) - p

\* DecompressAllTags goes on at address i: MAYBE_REFILL.
Continue(i) ==
  /\ ip' = i
  /\ pc' = IF limit - i < kMaximumTagLength THEN "refill" ELSE "tag"

Fail == pc' = "done" /\ UNCHANGED <<source, tag>>

----------------------------------------------------------------------------
(* Entry points, and the length *)

\* Uncompress and snappy_uncompress parse the length in the buffer before they
\* read it from a Source: the array is made, or must be, as long.
Parses == given.entry \in {"Uncompress", "snappy_uncompress"}

Announced == Value(input, Parsed(input))

\* No string is as long as that.
BeyondMaxSize == given.entry = "Uncompress" /\ ~given.wide /\ Announced > MaxSize

Refuse ==
  /\ pc = "called" /\ Parses
  /\ \/ (Parsed(input) = 0 \/ BeyondMaxSize) /\ answer' = "invalid"
     \/ /\ Parsed(input) # 0 /\ given.entry = "snappy_uncompress"
        /\ given.lens[1] < Announced
        /\ answer' = "too small"
  /\ pc' = "gone"
  /\ UNCHANGED <<lengthVars, source, tag, w, copy>>

Start ==
  /\ pc = "called"
  /\ Parses => Parsed(input) # 0 /\ ~BeyondMaxSize
  /\ given.entry = "snappy_uncompress" => given.lens[1] >= Announced
  /\ w' = CASE given.entry = "Uncompress" -> NewWriter("array", <<Announced>>)
            [] given.entry = "snappy_uncompress" -> NewWriter("array", given.lens)
            [] given.entry = "RawUncompressToIOVec" -> NewWriter("iovec", given.lens)
            [] given.entry = "IsValidCompressedBuffer" -> NewWriter("validator", << >>)
  /\ pc' = "length"
  /\ UNCHANGED <<lengthVars, source, tag, answer, copy>>

ReadLength ==
  /\ pc = "length" /\ ReadByte
  /\ UNCHANGED <<source, tag, w, answer, pc, copy>>

NoLength ==
  /\ pc = "length" /\ FailLength
  /\ pc' = "done"
  /\ UNCHANGED <<source, tag, w, answer, copy>>

SetExpectedLength ==
  /\ pc = "length" /\ status = "read"
  /\ w' = [w EXCEPT !.limit = result]
  /\ pc' = "refill"
  /\ UNCHANGED <<lengthVars, source, tag, answer, copy>>

----------------------------------------------------------------------------
(* RefillTag *)

\* Everything buffered is used up: a new region is fetched, or the input ends.
Fetch ==
  /\ pc = "refill" /\ ip = limit
  /\ pos' = pos + peeked
  /\ \E n \in Peeks(pos') :
       /\ peeked' = n
       /\ IF n = 0
            THEN eof' = TRUE /\ pc' = "done" /\ valid' = FALSE /\ UNCHANGED <<region, ip, limit>>
            ELSE /\ region' = "source" /\ valid' = TRUE
                 /\ ip' = pos' /\ limit' = pos' + n
                 /\ pc' = "needed" /\ UNCHANGED eof
  /\ UNCHANGED <<scratch, nbuf, literal, w>>

NoFetch ==
  /\ pc = "refill" /\ ip < limit
  /\ pc' = "needed"
  /\ UNCHANGED <<source, tag, w>>

Needed == EntryExtra(At(ip)) + 1

\* Mutant of MoveToScratch: the bytes skipped still count as peeked.
MoveToScratch_KeepsPeeked ==
  /\ scratch' = [i \in 1 .. kMaximumTagLength |->
                   IF i <= limit - ip THEN At(ip + i - 1) ELSE scratch[i]]
  /\ pos' = pos + peeked /\ peeked' = peeked /\ valid' = FALSE

\* memmove(scratch_, ip, limit - ip), and everything peeked is skipped.
MoveToScratch ==
  /\ scratch' = [i \in 1 .. kMaximumTagLength |->
                   IF i <= limit - ip THEN At(ip + i - 1) ELSE scratch[i]]
  /\ pos' = pos + peeked /\ peeked' = 0 /\ valid' = FALSE

\* The tag's metadata is not all there.
Stitch ==
  /\ pc = "needed" /\ limit - ip < Needed
  /\ MoveToScratch
  /\ nbuf' = limit - ip
  /\ pc' = "stitch"
  /\ UNCHANGED <<region, ip, limit, literal, eof, w>>

\* It is, but a load of four bytes would read past the end of the buffer.
Keep ==
  /\ pc = "needed" /\ limit - ip >= Needed /\ limit - ip < kMaximumTagLength
  /\ MoveToScratch
  /\ region' = "scratch" /\ ip' = 0 /\ limit' = limit - ip
  /\ pc' = "tag"
  /\ UNCHANGED <<nbuf, literal, eof, w>>

\* Mutant of UseBuffer: the metadata is there, so the buffer is used.
UseBuffer_Short ==
  /\ pc = "needed" /\ limit - ip >= Needed
  /\ pc' = "tag"
  /\ UNCHANGED <<source, tag, w>>

UseBuffer ==
  /\ pc = "needed" /\ limit - ip >= kMaximumTagLength
  /\ pc' = "tag"
  /\ UNCHANGED <<source, tag, w>>

\* The metadata bytes of the element whose first nbuf bytes are in scratch.
Wanted == EntryExtra(scratch[1]) + 1

\* Mutant of StitchMore: all of the region is added.
StitchMore_AddsAll ==
  /\ pc = "stitch" /\ nbuf < Wanted
  /\ \E n \in Peeks(pos) \ {0} : nbuf' = nbuf + n /\ pos' = pos + n
  /\ UNCHANGED <<valid, region, ip, limit, peeked, scratch, literal, eof, w, pc>>

StitchMore ==
  /\ pc = "stitch" /\ nbuf < Wanted
  /\ \E n \in Peeks(pos) \ {0} :
       LET add == SmallerOf(Wanted - nbuf, n)
       IN  /\ scratch' = [i \in 1 .. kMaximumTagLength |->
                 IF i \in nbuf + 1 .. nbuf + add THEN Shown[pos + (i - nbuf)] ELSE scratch[i]]
           /\ nbuf' = nbuf + add
           /\ pos' = pos + add
  /\ UNCHANGED <<valid, region, ip, limit, peeked, literal, eof, w, pc>>

\* Mutant of StitchFails: an empty region is no reason to give up.
StitchFails_Retries ==
  /\ pc = "stitch" /\ nbuf < Wanted /\ 0 \in Peeks(pos)
  /\ UNCHANGED <<source, tag, w, pc>>

\* The input ends inside the metadata.
StitchFails == pc = "stitch" /\ nbuf < Wanted /\ 0 \in Peeks(pos) /\ Fail /\ UNCHANGED w

StitchDone ==
  /\ pc = "stitch" /\ nbuf = Wanted
  /\ region' = "scratch" /\ ip' = 0 /\ limit' = Wanted
  /\ pc' = "tag"
  /\ UNCHANGED <<pos, valid, peeked, scratch, nbuf, literal, eof, w>>

----------------------------------------------------------------------------
(* DecompressAllTags *)

Tag == At(ip)

\* The length of a literal in its tag, 61 to 64 if a trailer has it.
ShortLength == Upper(Tag) + 1

Trailing == IF ShortLength > 60 THEN ShortLength - 60 ELSE 0

\* TryFastAppend takes the literal and leaves room for the next tag.
FastLiteral ==
  /\ pc = "tag" /\ Kind(Tag) = LITERAL
  /\ FastAccepts(w, limit - (ip + 1), ShortLength)
  /\ w' = FastAppend(w, Bytes(ip + 1, 16), ShortLength)
  /\ ip' = ip + 1 + ShortLength
  /\ UNCHANGED <<pos, valid, region, limit, peeked, tag, pc>>

SlowLiteral ==
  /\ pc = "tag" /\ Kind(Tag) = LITERAL
  /\ ~FastAccepts(w, limit - (ip + 1), ShortLength)
  /\ literal' = IF Trailing = 0 THEN ShortLength ELSE LongLength(Bytes(ip + 1, Trailing))
  /\ ip' = ip + 1 + Trailing
  /\ pc' = "literal"
  /\ UNCHANGED <<pos, valid, region, limit, peeked, scratch, nbuf, eof, w>>

\* The literal goes on in the next region.
LiteralPart ==
  /\ pc = "literal" /\ limit - ip < literal
  /\ LET appended == AppendBytes(w, Bytes(ip, limit - ip))
     IN  appended.ok /\ w' = appended.w
  /\ literal' = literal - (limit - ip)
  /\ pos' = pos + peeked
  /\ \E n \in Peeks(pos') :
       /\ peeked' = n /\ valid' = (n > 0)
       /\ IF n = 0 THEN pc' = "done" /\ UNCHANGED <<ip, limit>>
                   ELSE ip' = pos' /\ limit' = pos' + n /\ UNCHANGED pc
  /\ region' = "source"
  /\ UNCHANGED <<scratch, nbuf, eof>>

LiteralEnd ==
  /\ pc = "literal" /\ limit - ip >= literal
  /\ LET appended == AppendBytes(w, Bytes(ip, literal))
     IN  appended.ok /\ w' = appended.w
  /\ Continue(ip + literal)
  /\ UNCHANGED <<pos, valid, region, limit, peeked, tag>>

\* Append returns false.
LiteralFails ==
  /\ pc = "literal"
  /\ LET appended == AppendBytes(w, Bytes(ip, SmallerOf(limit - ip, literal)))
     IN  ~appended.ok /\ w' = appended.w
  /\ Fail

\* The copy element at ip: the trailer is a load of four bytes and a mask.
Offset == EntryOffset(Tag) + Number(Bytes(ip + 1, EntryExtra(Tag)))

\* AppendFromSelf of the array writer and of the validator.
Copied == AppendFromSelf(w, Offset, EntryLength(Tag), given.wide)

IsCopyTag == pc = "tag" /\ Kind(Tag) # LITERAL

Copy ==
  /\ IsCopyTag /\ w.kind # "iovec"
  /\ Copied.ok /\ w' = Copied.w
  /\ Continue(ip + 1 + EntryExtra(Tag))
  /\ UNCHANGED <<pos, valid, region, limit, peeked, tag, copy>>

CopyFails ==
  /\ IsCopyTag /\ w.kind # "iovec"
  /\ ~Copied.ok /\ w' = Copied.w
  /\ Fail /\ UNCHANGED copy

----------------------------------------------------------------------------
(* AppendFromSelf of the iovec writer *)

CanCopy == CanReach(w, Offset) /\ EntryLength(Tag) <= SpaceLeft(w)

StartCopy ==
  /\ IsCopyTag /\ w.kind = "iovec" /\ CanCopy
  /\ copy' = [from |-> Locate(w, Offset), len |-> EntryLength(Tag)]
  /\ pc' = "copying"
  /\ UNCHANGED <<source, tag, w>>

StartCopyFails ==
  /\ IsCopyTag /\ w.kind = "iovec" /\ ~CanCopy
  /\ Fail /\ UNCHANGED <<w, copy>>

Copying == pc = "copying" /\ copy.len > 0

\* Bytes of an earlier buffer are appended to the current one and those after
\* it.  That there is no room for some of them goes unnoticed: the result of
\* Append is dropped.
CopyAcross ==
  /\ Copying /\ copy.from.b # w.cur
  /\ LET n == SmallerOf(w.lens[copy.from.b] - copy.from.at, copy.len)
     IN  /\ w' = AppendBytes(w, Load(w, copy.from.b, copy.from.at, n)).w
         /\ copy' = [from |-> [b |-> copy.from.b + 1, at |-> 0], len |-> copy.len - n]
  /\ UNCHANGED <<source, tag, pc>>

\* Bytes that can be copied inside the current buffer.
Within == SmallerOf(w.lens[w.cur] - w.at, copy.len)

CopyWithin ==
  /\ Copying /\ copy.from.b = w.cur /\ Within > 0
  /\ w' = Advance(IncrementalCopy(w, w.cur, copy.from.at, w.at, Within), Within)
  /\ copy' = [copy EXCEPT !.from.at = @ + Within, !.len = @ - Within]
  /\ UNCHANGED <<source, tag, pc>>

\* The current buffer is full.
CopyOnward ==
  /\ Copying /\ copy.from.b = w.cur /\ Within = 0 /\ w.cur < Len(w.lens)
  /\ w' = [w EXCEPT !.cur = @ + 1, !.at = 0]
  /\ UNCHANGED <<source, tag, copy, pc>>

CopyNoRoom ==
  /\ Copying /\ copy.from.b = w.cur /\ Within = 0 /\ w.cur = Len(w.lens)
  /\ Fail /\ UNCHANGED <<w, copy>>

CopyEnd ==
  /\ pc = "copying" /\ copy.len = 0
  /\ Continue(ip + 1 + EntryExtra(Tag))
  /\ UNCHANGED <<pos, valid, region, limit, peeked, tag, w, copy>>

Reading ==
  \/ Fetch \/ NoFetch \/ Stitch \/ Keep \/ UseBuffer
  \/ StitchMore \/ StitchFails \/ StitchDone
  \/ FastLiteral \/ SlowLiteral \/ LiteralPart \/ LiteralEnd \/ LiteralFails

\* The call answers and the decompressor is destroyed: what was peeked is skipped.
Answer ==
  /\ pc = "done"
  /\ answer' = IF eof /\ CheckLength(w) THEN "ok" ELSE "invalid"
  /\ pos' = pos + peeked /\ valid' = FALSE
  /\ pc' = "gone"
  /\ UNCHANGED <<lengthVars, region, ip, limit, peeked, tag, w, copy>>

Decompress ==
  /\ \/ Reading /\ UNCHANGED copy
     \/ Copy \/ CopyFails \/ StartCopy \/ StartCopyFails
     \/ CopyAcross \/ CopyWithin \/ CopyOnward \/ CopyNoRoom \/ CopyEnd
  /\ UNCHANGED <<lengthVars, answer>>

Next ==
  /\ \/ Refuse \/ Start \/ ReadLength \/ NoLength \/ SetExpectedLength
     \/ Decompress
     \/ Answer
  /\ UNCHANGED given

\* The call runs on.
Spec == Init /\ [][Next]_vars /\ WF_vars(Next)

----------------------------------------------------------------------------
(* Properties *)

\* The type invariant.
TypeOK ==
  /\ LengthTypeOK
  /\ given.bytes \in Seq(Byte)
  /\ pos \in Nat /\ valid \in BOOLEAN
  /\ region \in {"none", "source", "scratch"}
  /\ ip \in Nat /\ limit \in Nat /\ ip <= limit /\ peeked \in Nat
  /\ scratch \in [1 .. kMaximumTagLength -> Byte \cup {Garbage}]
  /\ nbuf \in 0 .. kMaximumTagLength
  /\ literal \in 0 .. Huge
  /\ w.kind \in {"array", "iovec", "validator"} /\ w.total \in Nat /\ w.at \in Nat
  /\ \A b \in DOMAIN w.bufs : \A k \in DOMAIN w.bufs[b] : w.bufs[b][k] \in Cells
  /\ copy.len \in 0 .. 64 /\ copy.from.at \in Nat /\ copy.from.b \in Nat
  /\ eof \in BOOLEAN
  /\ answer \in {"none", "ok", "invalid", "too small"}
  /\ pc \in {"called", "length", "refill", "needed", "stitch", "tag", "literal",
             "copying", "done", "gone"}

\* "Ensure that all of the tag metadata for the next tag is available in
\* [ip_..ip_limit_-1].  Also ensures that [ip,ip+4] is readable": a load never
\* leaves the scratch buffer or a region, and the region is still valid.
TagIsReadable ==
  pc = "tag" =>
    /\ ip < limit /\ ip + 1 + EntryExtra(Tag) <= limit
    /\ region = "scratch" => limit <= kMaximumTagLength /\ ip + 5 <= kMaximumTagLength
    /\ region = "source" => valid /\ ip + 5 <= limit

\* Skip "REQUIRES: Available() >= n".
SkipsOnlyAvailable == pos <= Len(given.bytes)

\* The copies of 8 and 16 bytes that write past what was asked for stay inside
\* the buffers, and no writer gets past the length announced.
NoOverrun ==
  /\ \A b \in DOMAIN w.bufs :
       \A k \in w.lens[b] + 1 .. w.lens[b] + Slack : w.bufs[b][k] = Guard
  /\ w.kind # "validator" => w.total <= w.limit

\* "Check that each entry was initialized exactly once", "Check that computed
\* table matched recorded table" (ComputeTable); and the entry of each tag says
\* what the compressor's side of the format has in it.
TableFollowsFormat ==
  pc = "tag" =>
    /\ {a \in Assigned : a[1] = Tag} = {<<Tag, Entry(Tag)>>}
    /\ EntryExtra(Tag) = Extra(Tag) /\ EntryLength(Tag) = LengthIn(Tag)
    /\ EntryOffset(Tag) = 256 * OffsetIn(Tag)

\* A call always returns.
Returns == <>(answer # "none")
=============================================================================

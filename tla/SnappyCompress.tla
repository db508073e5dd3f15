--------------------------- MODULE SnappyCompress ---------------------------
(***************************************************************************)
(* Compression, from a call of the public interface to its return: the     *)
(* length is written, the text is cut into blocks, and CompressFragment    *)
(* looks for matches in each block with a hash table of the places of      *)
(* earlier bytes and emits literals and copies (module SnappyEmit).        *)
(*                                                                         *)
(* The source gives the text piece by piece; a block that no piece holds   *)
(* is put together in a scratch buffer.  The output goes to the sink's own *)
(* buffer (UncheckedByteArraySink) or to one made for the purpose.         *)
(***************************************************************************)
EXTENDS SnappyEmit, SnappyContents, SnappyBits, SnappyLength, FiniteSetsExt

CONSTANTS
  Texts,       \* the texts compressed
  Pieces,      \* lengths of the pieces in which the source shows a text
  BlockSize,   \* kBlockSize in the code
  MinTable,    \* 2^8 entries of the hash table in the code
  SmallTable,  \* 2^10
  MaxTable,    \* kMaxHashTableSize, 2^14
  Hashes,      \* hash functions, of which the code has one
  Hash(_, _, _),  \* Hash(h, b, n): what h makes of the four bytes b, below n
  Garbage      \* a byte that is not in the fragment

kBlockBits == 16

\* The powers of two up to kBlockSize.
Powers == {2 ^ k : k \in 0 .. kBlockBits}

\* Mutant of kInputMarginBytes: room for the hash of one more place only.
kInputMarginBytes_Short == 4

kInputMarginBytes == 15

ASSUME CompressAssumption ==
  /\ Base = 128 /\ Top = 16
  /\ BlockSize \in kInputMarginBytes .. kBlockSize
  /\ {MinTable, SmallTable, MaxTable} \subseteq Powers
  /\ MinTable <= SmallTable /\ SmallTable < MaxTable
  /\ Garbage \notin Byte
  /\ Pieces \subseteq Nat \ {0}
  /\ \A x \in Texts : x \in Seq(Byte) /\ Len(x) \div Base4 < Top

\* HashBytes shifts a word right: what is left is below the size of the table.
ASSUME HashAssumption ==
  \A h \in Hashes, x \in Texts, n \in Powers :
    \A i \in 0 .. Len(x) - 4 : Hash(h, [k \in 1 .. 4 |-> x[i + k]], n) \in 0 .. n - 1

VARIABLES
  text,       \* what is compressed
  hash,       \* the hash function
  arch,       \* "k8" (64 bits), "le" or "be" (the other versions, by endianness)
  capacity,   \* length of the caller's buffer
  pos,        \* bytes of the text skipped in the source
  N,          \* bytes of it not compressed yet
  frag,       \* where the block is: "source" or "scratch"
  size,       \* its length
  scratch,    \* the scratch buffer, empty before it is made
  filled,     \* bytes of the block in it
  table,      \* the two hash tables of WorkingMemory
  shift,      \* bits of a hash that the table in use has no room for
  which,      \* the one in use: "small" or "large"
  ip,         \* place in the block
  nextIp,     \* the next place to look at
  nextHash,   \* its hash
  skip,       \* 32 times the step to the place after it
  candidate,  \* an earlier place with the same hash
  nextEmit,   \* bytes before this one have been emitted
  loaded,     \* bytes of the block from the first to the last that was loaded
  dest,       \* output of the block
  high,       \* bytes of the output buffer from the first to the last written
  room,       \* length of the buffer made for the output, 0 before
  sink,       \* what the sink was given
  pc          \* "called", "block", "fill", "table", "scan", "literal", "match", "copy",
              \* "rest", "last", "append", "done", "refused"

call_   == <<text, hash, arch, capacity>>
blocks  == <<pos, N, frag, size, scratch, filled>>
hashing == <<shift, which>>
looking == <<nextIp, nextHash, skip>>
written == <<dest, high>>
vars == <<emitVars, call_, blocks, table, hashing, ip, looking, candidate, nextEmit,
          loaded, written, room, sink, pc>>

\* Mutant of MaxCompressedLength: no room for what does not grow with the text.
MaxCompressedLength_NoSlack(n) == n + n \div 6

MaxCompressedLength(n) == 32 + n + n \div 6

LargerOf(a, b)  == IF a > b THEN a ELSE b
SmallerOf(a, b) == IF a < b THEN a ELSE b

Stale == kBlockSize - 1   \* what a table holds before it is cleared

\* The public interface is called; each call has tables of its own.
Called ==
  /\ text \in Texts /\ hash \in Hashes /\ arch \in {"k8", "le", "be"}
  /\ capacity \in {MaxCompressedLength(Len(text)) - 1, MaxCompressedLength(Len(text))}
  /\ pos = 0 /\ N = Len(text)
  /\ frag = "source" /\ size = 0 /\ scratch = << >> /\ filled = 0
  /\ table = [small |-> [h \in 0 .. SmallTable - 1 |-> Stale],
              large |-> [h \in 0 .. MaxTable - 1 |-> Stale]]
  /\ which = "small" /\ shift = 0
  /\ ip = 0 /\ nextIp = 0 /\ nextHash = 0 /\ skip = 0 /\ candidate = 0 /\ nextEmit = 0
  /\ loaded = 0 /\ dest = << >> /\ high = 0 /\ room = 0 /\ sink = << >>

Init ==
  /\ Called /\ pc = "called"
  /\ call = "none" /\ offset = 0 /\ total = 0 /\ left = 0 /\ op = << >> /\ emit = "returned"

----------------------------------------------------------------------------
(* Compress: the blocks *)

\* snappy_compress, given too small a buffer.
Refuse ==
  /\ pc = "called" /\ capacity < MaxCompressedLength(Len(text))
  /\ pc' = "refused"
  /\ UNCHANGED <<emitVars, blocks, table, hashing, ip, looking, candidate, nextEmit,
                 loaded, written, room, sink>>

WriteLength ==
  /\ pc = "called" /\ capacity >= MaxCompressedLength(Len(text))
  /\ sink' = Encode32(N)
  /\ pc' = "block"
  /\ UNCHANGED <<emitVars, blocks, table, hashing, ip, looking, candidate, nextEmit,
                 loaded, written, room>>

\* The bytes s stored in buffer b after its first n; what does not fit is lost.
Stored(b, n, s) ==
  [k \in DOMAIN b |-> IF k \in n + 1 .. n + Len(s) THEN s[k - n] ELSE b[k]]

\* How many bytes the source may show.
Sizes == {SmallerOf(n, Len(text) - pos) : n \in Pieces}

\* The next n bytes of the source.
Shown(n) == SubSeq(text, pos + 1, pos + n)

\* The source shows n bytes, or more: enough for a block, or not.
NextBlock ==
  /\ pc = "block" /\ N > 0
  /\ size' = SmallerOf(N, BlockSize)
  /\ \E n \in Sizes :
       IF n >= size'
         THEN /\ frag' = "source" /\ pc' = "table"
              /\ UNCHANGED <<scratch, pos, filled>>
         ELSE /\ frag' = "scratch" /\ pc' = "fill"
              /\ scratch' = Stored(IF scratch = << >> THEN [k \in 1 .. size' |-> Garbage]
                                                      ELSE scratch, 0, Shown(n))
              /\ filled' = n /\ pos' = pos + n
  /\ UNCHANGED <<emitVars, N, table, hashing, ip, looking, candidate, nextEmit,
                 loaded, written, room, sink>>

\* Mutant of Fill: the bytes stored are not counted.
Fill_NotCounted ==
  /\ pc = "fill" /\ filled < size
  /\ \E n \in Sizes :
       LET k == SmallerOf(n, size - filled)
       IN  /\ scratch' = Stored(scratch, filled, Shown(k))
           /\ filled' = filled /\ pos' = pos + k
  /\ UNCHANGED <<emitVars, N, frag, size, table, hashing, ip, looking, candidate, nextEmit,
                 loaded, written, room, sink, pc>>

Fill ==
  /\ pc = "fill" /\ filled < size
  /\ \E n \in Sizes :
       LET k == SmallerOf(n, size - filled)
       IN  /\ scratch' = Stored(scratch, filled, Shown(k))
           /\ filled' = filled + k /\ pos' = pos + k
  /\ UNCHANGED <<emitVars, N, frag, size, table, hashing, ip, looking, candidate, nextEmit,
                 loaded, written, room, sink, pc>>

FillDone ==
  /\ pc = "fill" /\ filled = size
  /\ pc' = "table"
  /\ UNCHANGED <<emitVars, blocks, table, hashing, ip, looking, candidate, nextEmit,
                 loaded, written, room, sink>>

\* Mutant of AppendBlock: a block that was not copied is not skipped in the source.
AppendBlock_NoSkip ==
  /\ pc = "append"
  /\ sink' = sink \o dest
  /\ N' = N - size
  /\ pc' = "block"
  /\ UNCHANGED <<emitVars, pos, frag, size, scratch, filled, table, hashing, ip, looking,
                 candidate, nextEmit, loaded, written, room>>

AppendBlock ==
  /\ pc = "append"
  /\ sink' = sink \o dest
  /\ N' = N - size
  /\ pos' = IF frag = "source" THEN pos + size ELSE pos
  /\ pc' = "block"
  /\ UNCHANGED <<emitVars, frag, size, scratch, filled, table, hashing, ip, looking,
                 candidate, nextEmit, loaded, written, room>>

Finish ==
  /\ pc = "block" /\ N = 0
  /\ pc' = "done"
  /\ UNCHANGED <<emitVars, blocks, table, hashing, ip, looking, candidate, nextEmit,
                 loaded, written, room, sink>>

----------------------------------------------------------------------------
(* The block *)

\* The byte at place i of the block.
At(i) ==
  IF i >= size THEN Garbage
  ELSE IF frag = "scratch" THEN scratch[i + 1] ELSE text[pos + i + 1]

Bytes(i, n) == [k \in 1 .. n |-> At(i + k - 1)]

Load32(i) == Bytes(i, 4)

\* The smallest of the table sizes that has an entry for each byte, or the largest.
TableSize(n) == Min({s \in Powers : s >= MinTable /\ (s >= n \/ s >= MaxTable)})

TableSizeNow == TableSize(size)

\* HashBytes keeps the bits from shift on of 32.
HashAt(i, shf) == Hash(hash, Load32(i), 2 ^ (32 - shf))

BitsOf(n) == {b \in 0 .. kBlockBits : (n \div 2 ^ b) % 2 = 1}

\* Mutant of Cleared: a table is cleared when it is made only.
Cleared_Never(t, n) == t

Cleared(t, n) == [h \in DOMAIN t |-> IF h < n THEN 0 ELSE t[h]]

\* GetHashTable, the buffer for the output, and the start of CompressFragment.
StartFragment ==
  /\ pc = "table"
  /\ shift' = 32 - Log2Floor(BitsOf(TableSizeNow))
  /\ which' = IF TableSizeNow <= SmallTable THEN "small" ELSE "large"
  /\ table' = [table EXCEPT ![which'] = Cleared(@, TableSizeNow)]
  /\ room' = IF room = 0 THEN MaxCompressedLength(size) ELSE room
  /\ nextEmit' = 0 /\ dest' = << >> /\ high' = 0 /\ skip' = 32
  /\ IF size >= kInputMarginBytes
       THEN ip' = 1 /\ nextIp' = 1 /\ nextHash' = HashAt(1, shift') /\ loaded' = 5 /\ pc' = "scan"
       ELSE ip' = 0 /\ loaded' = 0 /\ pc' = "rest" /\ UNCHANGED <<nextIp, nextHash>>
  /\ UNCHANGED <<emitVars, blocks, candidate, sink>>

ipLimit == size - kInputMarginBytes

StartLiteral(n) ==
  /\ call' = "literal" /\ total' = n /\ left' = n - 1 /\ offset' = 0
  /\ op' = << >> /\ emit' = "emitting"

StartCopy(off, n) ==
  /\ call' = "copy" /\ total' = n /\ left' = n /\ offset' = off
  /\ op' = << >> /\ emit' = "emitting"

\* One place is looked at; the step grows by one every 32 places.
Scan ==
  /\ pc = "scan"
  /\ ip' = nextIp /\ skip' = skip + 1 /\ nextIp' = nextIp + skip \div 32
  /\ IF nextIp' > ipLimit
       THEN pc' = "rest" /\ UNCHANGED <<nextHash, candidate, table, loaded, emitVars>>
       ELSE /\ nextHash' = HashAt(nextIp', shift)
            /\ candidate' = table[which][nextHash]
            /\ table' = [table EXCEPT ![which][nextHash] = nextIp]
            /\ loaded' = LargerOf(loaded, nextIp' + 4)
            /\ IF Load32(nextIp) = Load32(candidate')
                 THEN StartLiteral(nextIp - nextEmit) /\ pc' = "literal"
                 ELSE UNCHANGED <<emitVars, pc>>
  /\ UNCHANGED <<blocks, hashing, nextEmit, written, room, sink>>

\* EmitLiteral has written the tag: the n bytes from nextEmit follow, sixteen
\* of them at once on the fast path.
AppendLiteral(n, allowFastPath) ==
  LET moved == IF allowFastPath /\ n <= 16 THEN 16 ELSE n
  IN  /\ dest' = dest \o op \o Bytes(nextEmit, n)
      /\ high' = LargerOf(high, Len(dest) + Len(op) + moved)
      /\ loaded' = LargerOf(loaded, nextEmit + moved)

LiteralDone ==
  /\ pc = "literal" /\ emit = "returned"
  /\ AppendLiteral(ip - nextEmit, TRUE)
  /\ pc' = "match"
  /\ UNCHANGED <<emitVars, blocks, table, hashing, ip, looking, candidate, nextEmit, room, sink>>

----------------------------------------------------------------------------
(* Matches *)

\* Bytes of whole words of k bytes that are the same from s1 and from s2: the
\* loop ends before the first word that is not, or does not fit.
MatchedWords(s1, s2, k) ==
  k * Min({n \in 0 .. size : \/ s2 + k * n + k > size
                             \/ Bytes(s2 + k * n, k) # Bytes(s1 + k * n, k)})

\* The same byte by byte, after n bytes.
MatchedBytes(s1, s2, n) ==
  Min({m \in n .. n + size : s2 + m >= size \/ At(s2 + m) # At(s1 + m)})

\* The bits in which the words of k bytes at s1 and s2 differ.
Differing(s1, s2, k) ==
  {b \in 0 .. 8 * k - 1 :
     (At(s1 + b \div 8) \div 2 ^ (b % 8)) % 2 # (At(s2 + b \div 8) \div 2 ^ (b % 8)) % 2}

\* Is there another word of k bytes after n bytes from s2?
WordFits(s2, n, k) == s2 + n + k <= size

\* Mutant of FindMatchLength: the bytes after the last word are not compared.
FindMatchLength_WholeWords(s1, s2, k, n, x) == n

\* The length of a match, of which n bytes were found in whole words of k; x is
\* what the next two words differ in.
FindMatchLength(s1, s2, k, n, x) ==
  IF arch # "be" /\ WordFits(s2, n, k)
    THEN n + (IF k = 8 THEN FindLSBSetNonZero64(x) ELSE FindLSBSetNonZero(x)) \div 8
    ELSE MatchedBytes(s1, s2, n)

WordSize == IF arch = "k8" THEN 8 ELSE 4

\* The last word compared is loaded whole; without one a byte is, if there is one.
ExtendMatch ==
  /\ pc = "match"
  /\ \E n \in {MatchedWords(candidate + 4, ip + 4, WordSize)} :
       \E x \in {Differing(candidate + 4 + n, ip + 4 + n, WordSize)} :
         \E matched \in {4 + FindMatchLength(candidate + 4, ip + 4, WordSize, n, x)} :
           /\ StartCopy(ip - candidate, matched)
           /\ ip' = ip + matched
           /\ loaded' = LargerOf(loaded, IF WordFits(ip + 4, n, WordSize)
                                           THEN ip + 4 + n + WordSize
                                           ELSE SmallerOf(ip + matched + 1, size))
  /\ pc' = "copy"
  /\ UNCHANGED <<blocks, table, hashing, looking, candidate, nextEmit, written, room, sink>>

\* After a copy: the places before ip and of ip go into the table, and the next
\* copy follows at once if the bytes at ip match.
CopyDone ==
  /\ pc = "copy" /\ emit = "returned"
  /\ dest' = dest \o op /\ high' = LargerOf(high, Len(dest) + Len(op))
  /\ nextEmit' = ip
  /\ IF ip >= ipLimit
       THEN pc' = "rest" /\ UNCHANGED <<table, candidate, loaded, looking>>
       ELSE LET cleaned == [table[which] EXCEPT ![HashAt(ip - 1, shift)] = ip - 1]
            IN  /\ loaded' = LargerOf(loaded, ip + 7)
                /\ candidate' = cleaned[HashAt(ip, shift)]
                /\ table' = [table EXCEPT ![which] = [cleaned EXCEPT ![HashAt(ip, shift)] = ip]]
                /\ IF Load32(ip) = Load32(candidate')
                     THEN pc' = "match" /\ UNCHANGED looking
                     ELSE /\ nextHash' = HashAt(ip + 1, shift) /\ nextIp' = ip + 1 /\ skip' = 32
                          /\ pc' = "scan"
  /\ UNCHANGED <<emitVars, blocks, hashing, ip, room, sink>>

----------------------------------------------------------------------------
(* The rest of the block *)

EmitRest ==
  /\ pc = "rest"
  /\ IF nextEmit < size THEN StartLiteral(size - nextEmit) /\ pc' = "last"
                        ELSE pc' = "append" /\ UNCHANGED emitVars
  /\ UNCHANGED <<blocks, table, hashing, ip, looking, candidate, nextEmit, loaded, written,
                 room, sink>>

RestDone ==
  /\ pc = "last" /\ emit = "returned"
  /\ AppendLiteral(size - nextEmit, FALSE)
  /\ pc' = "append"
  /\ UNCHANGED <<emitVars, blocks, table, hashing, ip, looking, candidate, nextEmit, room, sink>>

Emitting ==
  /\ EmitNext
  /\ UNCHANGED <<blocks, table, hashing, ip, looking, candidate, nextEmit, loaded, written,
                 room, sink, pc>>

Next ==
  /\ \/ Refuse \/ WriteLength \/ NextBlock \/ Fill \/ FillDone
     \/ StartFragment \/ Scan \/ LiteralDone \/ ExtendMatch \/ CopyDone
     \/ EmitRest \/ RestDone \/ Emitting \/ AppendBlock \/ Finish
  /\ UNCHANGED call_

\* The call runs on.
Spec == Init /\ [][Next]_vars /\ WF_vars(Next)

----------------------------------------------------------------------------
(* Properties *)

Places == 0 .. kBlockSize

\* The type invariant; the places in a table are uint16.
TypeOK ==
  /\ EmitTypeOK
  /\ text \in Texts /\ hash \in Hashes /\ arch \in {"k8", "le", "be"} /\ capacity \in Nat
  /\ pos \in 0 .. Len(text) /\ N \in 0 .. Len(text)
  /\ frag \in {"source", "scratch"} /\ size \in 0 .. BlockSize
  /\ scratch \in Seq(Byte \cup {Garbage}) /\ filled \in 0 .. BlockSize
  /\ table \in [small : [0 .. SmallTable - 1 -> 0 .. kBlockSize - 1],
                large : [0 .. MaxTable - 1 -> 0 .. kBlockSize - 1]]
  /\ which \in {"small", "large"} /\ shift \in 0 .. 32
  /\ ip \in Places /\ nextEmit \in Places /\ candidate \in Places
  /\ nextIp \in 0 .. 2 * kBlockSize
  /\ skip \in Nat /\ nextHash \in 0 .. MaxTable - 1 /\ loaded \in Nat
  /\ dest \in Seq(Byte) /\ sink \in Seq(Byte) /\ high \in Nat /\ room \in Nat
  /\ pc \in {"called", "block", "fill", "table", "scan", "literal", "match", "copy",
             "rest", "last", "append", "done", "refused"}

\* Whatever hash function there is, however the source cuts the text up: after
\* each block what was written stands for the text so far, and its length is
\* that of the text.
RoundTrip ==
  pc \in {"block", "done"} =>
    LET k == Parsed(sink)
    IN  /\ k # 0 /\ Value(sink, k) = Len(text)
        /\ Decodings(SubSeq(sink, k + 1, Len(sink))) = {SubSeq(text, 1, Len(text) - N)}
        /\ pos = Len(text) - N

\* "candidate < ip", "next_emit < ip", "hash == Hash(ip, shift)": the table in
\* use holds places before the one looked at, none of an earlier block, and the
\* hash taken ahead is that of the place it is used for.
TableIsPast ==
  /\ pc = "scan" =>
       /\ 2 ^ (32 - shift) = TableSizeNow
       /\ nextEmit < nextIp /\ nextHash = HashAt(nextIp, shift)
       /\ \A h \in 0 .. TableSizeNow - 1 : table[which][h] < nextIp
  /\ pc \in {"literal", "match"} => candidate < ip /\ Load32(candidate) = Load32(ip)

\* Loads of 4, 8 and 16 bytes never leave the block ("the input will always have
\* kInputMarginBytes = 15 extra available bytes").
LoadsInside == pc \notin {"called", "block", "fill", "table"} => loaded <= size

\* "Return the largest n such that s1[0,n-1] == s2[0,n-1]": a copy stands for
\* bytes that are the same and no longer one would.
MatchIsLongest ==
  pc = "copy" =>
    /\ Bytes(ip - total, total) = Bytes(ip - total - offset, total)
    /\ ip < size => At(ip) # At(ip - offset)

\* What is written, the bytes written too much included, stays in the buffer made
\* for the largest block and in the caller's, which has room for the whole text
\* only ("Compressed data can be defined as ...", MaxCompressedLength); the block
\* fits the scratch buffer made for an earlier one.
OutputFits ==
  /\ pc \in {"scan", "literal", "match", "copy", "rest", "last", "append"} =>
       high <= room /\ Len(sink) + high <= capacity
  /\ pc = "fill" => size <= Len(scratch)

\* A call returns.
Finishes == (pc = "called") ~> (pc \in {"done", "refused"})
=============================================================================

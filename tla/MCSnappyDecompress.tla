------------------------- MODULE MCSnappyDecompress -------------------------
(***************************************************************************)
(* Lengths of every form; streams of up to three elements, whole and cut   *)
(* off anywhere in the last one, with the right length announced, one more *)
(* and one less; every tag; and streams long enough for each fast path.    *)
(***************************************************************************)
EXTENDS SnappyDecompressInv

MCBase == 3
MCTop  == 2

Call(h, s, e, l, wd) ==
  [header |-> h, bytes |-> s, beyond |-> << >>, entry |-> e, lens |-> l, wide |-> wd]

----------------------------------------------------------------------------
(* Lengths *)

Continued(n) == [1 .. n -> MCBase .. 2 * MCBase - 1]

\* Varints that end, and that do not.
Headers ==
  UNION {{s \o <<d>> : s \in Continued(n), d \in 0 .. MCBase - 1} : n \in 0 .. 4}
    \cup UNION {Continued(n) : n \in 0 .. 6}

LengthCalls ==
  {Call(h, << >>, e, <<5>>, TRUE) :
     h \in Headers, e \in {"Uncompress", "snappy_uncompress", "IsValidCompressedBuffer"}}
    \cup {Call(h, << >>, "Uncompress", << >>, FALSE) : h \in Headers}

----------------------------------------------------------------------------
(* Short streams *)

\* Elements of every kind, with and without a trailer.
Common == {
  <<4, 97, 98>>,            \* literal of two bytes
  <<252, 0, 0, 0, 0, 98>>,  \* literal of one byte, with four bytes of length
  <<1, 1>>,                 \* copy of 4 bytes from offset 1
  <<6, 2, 0>>,              \* copy of 2 bytes from offset 2
  <<3, 1, 0, 0, 0>> }       \* copy of 1 byte from offset 1

Rare == {
  <<0, 97>>,                \* literal of one byte
  <<240, 1, 99, 97>>,       \* literal of two bytes, with a byte of length
  <<244, 0, 0, 99>>, <<248, 1, 0, 0, 99, 98>>,
  <<252, 254, 255, 255, 255>>,  \* a literal of 2^32 - 1 bytes
  <<252, 255, 255, 255, 255>>,  \* of 2^32 bytes, which is none
  <<9, 3>>,                 \* copy of 6 bytes from offset 3
  <<33, 1>>,                \* from offset 257
  <<2, 0, 0>>,              \* from offset 0
  <<3, 0, 0, 0, 255>> }     \* from an offset of 2^31 and more

Cuts(s, e) == {s \o SubSeq(e, 1, n) : n \in 1 .. Len(e)}

Singles(E) == {<< >>} \cup UNION {Cuts(<< >>, e) : e \in E}
Pairs(E)   == UNION {Cuts(d, e) : d, e \in E}
Triples(E) == UNION {UNION {Cuts(c \o d, e) : c, d \in E} : e \in E}

Lengths(s) ==
  IF Decodings(s) = {} THEN {4}
  ELSE UNION {{Len(d), Len(d) + 1} \cup (IF d = << >> THEN {} ELSE {Len(d) - 1}) :
                d \in Decodings(s)}

CallsOf(S, e, L) ==
  UNION {{Call(Encode32(x), s, e, l, TRUE) : x \in Lengths(s), l \in L} : s \in S}

ShortCalls ==
  CallsOf(Singles(Common \cup Rare) \cup Pairs(Common \cup Rare), "Uncompress", {<< >>})
    \cup CallsOf(Triples(Common), "Uncompress", {<< >>})
    \cup CallsOf(Pairs(Common), "IsValidCompressedBuffer", {<< >>})
    \cup CallsOf(Pairs(Common), "RawUncompressToIOVec", {<<1, 0, 2, 8>>, <<2, 3>>})

----------------------------------------------------------------------------
(* Every tag *)

TagCalls == {Call(Encode32(4), <<c, 1, 0, 0, 0>>, "IsValidCompressedBuffer", << >>, TRUE) :
               c \in 0 .. 255}

----------------------------------------------------------------------------
(* Long streams *)

Lit(n) == <<4 * (n - 1)>> \o [i \in 1 .. n |-> 96 + i]
Cpy(len, offset) == <<2 + 4 * (len - 1), offset, 0>>

\* A copy whose end is 12 bytes before the end of the contents.
LongCopies(L, O) == {Lit(9) \o Cpy(len, offset) \o Lit(12) : len \in L, offset \in O}

\* Sixteen bytes more than the contents can be read, not written.
ManyCopies == Lit(2) \o FlattenSeq([i \in 1 .. 7 |-> Cpy(1, 2)])

\* Literals and a copy that lie across the buffers of an iovec.
Across == {Lit(k) \o Lit(3) \o Cpy(6, k) \o Lit(12) : k \in {2, 11}}

LongOf(S, e, l, wd) ==
  UNION {{Call(Encode32(Len(d)), s, e, l, wd) : d \in Decodings(s)} : s \in S}

LongCalls ==
  LongOf(LongCopies({1, 12, 20}, {1, 3, 8}) \cup {ManyCopies}, "Uncompress", << >>, TRUE)
    \cup LongOf(LongCopies({1, 20}, {1, 7}), "Uncompress", << >>, FALSE)
    \cup LongOf(Across \cup {ManyCopies}, "RawUncompressToIOVec", <<10, 0, 17, 20>>, TRUE)

----------------------------------------------------------------------------
(* Views on a part of a larger source *)

ViewCalls ==
  {[c EXCEPT !.beyond = <<0, 97>>] :
     c \in CallsOf(Singles(Common), "RawUncompressToIOVec", {<<2, 3>>})}

----------------------------------------------------------------------------
MCCalls == LengthCalls \cup ShortCalls \cup TagCalls \cup LongCalls
=============================================================================

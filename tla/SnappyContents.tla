--------------------------- MODULE SnappyContents ---------------------------
(***************************************************************************)
(* What the elements of a stream stand for: the reference that both the    *)
(* compressor and the decompressor are compared with.                      *)
(***************************************************************************)
EXTENDS SnappyFormat

\* Does a copy from offset start inside what there is already?
Reaches(out, offset) == offset \in 1 .. Len(out)

\* out and len bytes more, each the one offset bytes back; a copy that overlaps
\* itself repeats.
CopyFromSelf(out, offset, len) ==
  LET byte[i \in 1 .. Len(out) + len] == IF i <= Len(out) THEN out[i] ELSE byte[i - offset]
  IN  out \o SubSeq(byte, Len(out) + 1, Len(out) + len)

\* A reader r of stream s is at a place in it (at) and has put out what was read
\* (out).  The next element: its tag, the place after its trailer, the trailer,
\* the length of a literal or copy, and the offset of a copy.
TagAt(s, r)     == s[r.at + 1]
After(s, r)     == r.at + 1 + Extra(TagAt(s, r))
Trailer(s, r)   == SubSeq(s, r.at + 2, After(s, r))
IsLiteral(s, r) == Kind(TagAt(s, r)) = LITERAL
LengthAt(s, r)  == IF IsLiteral(s, r) /\ Extra(TagAt(s, r)) # 0 THEN LongLength(Trailer(s, r))
                                                               ELSE LengthIn(TagAt(s, r))
OffsetAt(s, r)  == IF Extra(TagAt(s, r)) = 4 THEN Number(Trailer(s, r))
                                             ELSE CopyOffset(<<TagAt(s, r)>> \o Trailer(s, r))

\* It is there, and a copy does not start before the first byte put out.
Good(s, r) ==
  /\ After(s, r) <= Len(s)
  /\ IF IsLiteral(s, r) THEN After(s, r) + LengthAt(s, r) <= Len(s)
                        ELSE Reaches(r.out, OffsetAt(s, r))

\* Reader r after a good element, and the reader that has met a bad one.
ReadNext(s, r) ==
  IF IsLiteral(s, r)
    THEN [at |-> After(s, r) + LengthAt(s, r),
          out |-> r.out \o SubSeq(s, After(s, r) + 1, After(s, r) + LengthAt(s, r))]
    ELSE [at |-> After(s, r), out |-> CopyFromSelf(r.out, OffsetAt(s, r), LengthAt(s, r))]

Stuck(s) == [at |-> Len(s) + 1, out |-> << >>]

\* Reader r of s after the next element, if there is one.
ReadElement(s, r) ==
  IF r.at >= Len(s) THEN r ELSE IF ~Good(s, r) THEN Stuck(s) ELSE ReadNext(s, r)

\* The reader of s after n elements; no stream has more elements than bytes.
Readers(s) ==
  LET reader[n \in 0 .. Len(s)] ==
        IF n = 0 THEN [at |-> 0, out |-> << >>] ELSE ReadElement(s, reader[n - 1])
  IN  reader

ReadAll(s) == Readers(s)[Len(s)]

\* The contents of stream s: a set, empty if the stream is bad.
Decodings(s) == IF ReadAll(s).at = Len(s) THEN {ReadAll(s).out} ELSE {}
=============================================================================

--------------------------- MODULE SnappyDecodes ---------------------------
(***************************************************************************)
(* What a decompression has to achieve: the answer it gives, compared with *)
(* what the stream stands for.                                             *)
(***************************************************************************)
EXTENDS SnappyDecompress, SnappyContents

\* What the stream stands for, if that has the length read.
Contents == {d \in Decodings(given.bytes) : Len(d) = result}

\* Bytes that the buffers of writer v have room for.
Room(v) == LET last == Len(v.lens) IN Starts(v.lens)[last] + v.lens[last]

\* However the source cuts the stream up, wherever the writer's fast paths and
\* the borders of its buffers fall: the call succeeds if and only if the stream
\* stands for contents of the length read and the buffers have room for them;
\* they then hold them and the source has been read to its end.
DecodesStream ==
  pc = "gone" /\ status # "reading" =>
    /\ answer = "ok" <=>
         /\ status = "read" /\ Contents # {}
         /\ w.kind = "iovec" => Room(w) >= result
    /\ answer = "ok" =>
         /\ pos = Len(given.bytes)
         /\ w.kind # "validator" => Held(w) \in Contents
=============================================================================

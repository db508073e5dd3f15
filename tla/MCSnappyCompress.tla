-------------------------- MODULE MCSnappyCompress --------------------------
(***************************************************************************)
(* Texts that repeat a byte, a pair or a triple, lengths around the margin *)
(* of 15 bytes and around a copy of 64, texts without a match that end in  *)
(* one, texts of two and three blocks; three hash functions, one of which  *)
(* never tells two places apart; the source shows the text whole or in     *)
(* pieces.                                                                 *)
(* EmitCopy and EmitLiteral are also called by themselves, with lengths    *)
(* and offsets that only a block of kBlockSize has.                        *)
(***************************************************************************)
EXTENDS SnappyCompressInv

MCPieces == {1, 16, 50, 1000}

MCHashes == {"zero", "first", "sum"}

MCHash(h, b, n) ==
  CASE h = "zero"  -> 0
    [] h = "first" -> b[1] % n
    [] h = "sum"   -> (b[1] + 3 * b[2] + 5 * b[3] + 7 * b[4]) % n

\* n bytes, one of every k values after the other.
Cycle(k, n) == [i \in 1 .. n |-> 97 + (i % k)]

\* n bytes no two of which are the same.
Distinct(n) == [i \in 1 .. n |-> i]

MCTexts ==
  {Cycle(1, n) : n \in {0, 1, 14, 15, 16, 17, 20, 24, 66, 67, 68, 69, 70, 71, 72, 80, 81, 95}}
    \cup {Cycle(2, n) : n \in {18, 23, 79, 170}}
    \cup {Cycle(3, n) : n \in {15, 31, 41}}
    \cup {Distinct(n) : n \in {18, 61, 62, 80}}
    \cup {Distinct(20) \o Distinct(n) : n \in {8, 20, 29}}
    \cup {w \o w \o w \o w : w \in [1 .. 5 -> {1, 2}]}
    \cup {Distinct(17) \o Cycle(1, 30), Cycle(9, 19) \o Distinct(12) \o Cycle(9, 19)}

MCMatches  == 4 .. 200 \cup {1000, kBlockSize}
MCOffsets  == {1, 7, 255, 256, 2047, 2048, 40000, kBlockSize - 1}
MCLiterals ==
  1 .. 400 \cup UNION {{n - 1, n, n + 1} : n \in {65536, 16777216, 1000000000}} \cup {MaxInt}

\* A call of EmitCopy or EmitLiteral without the rest.
Alone ==
  /\ EmitInit
  /\ Called /\ pc = "refused" /\ text = << >> /\ hash = "zero" /\ arch = "k8" /\ capacity = MaxCompressedLength(0)

MCInit == Init \/ Alone

MCSpec == MCInit /\ [][Next]_vars /\ WF_vars(Next)
=============================================================================

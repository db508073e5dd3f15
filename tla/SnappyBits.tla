----------------------------- MODULE SnappyBits -----------------------------
(***************************************************************************)
(* The portable bit manipulation of class Bits.  A word is the set of the  *)
(* places of the bits in it that are 1, 0 the least significant.           *)
(***************************************************************************)
EXTENDS Integers

\* The word n of 32 bits shifted left and right.
ShiftLeft(n, s)  == {b + s : b \in n} \cap 0 .. 31
ShiftRight(n, s) == {b - s : b \in n} \cap 0 .. 31

\* One round of a loop that runs with s = 16, 8, 4, 2 and 1.
RightRound(a, s) ==
  LET x == ShiftRight(a.value, s)
  IN  IF x # {} THEN [value |-> x, log |-> a.log + s] ELSE a

Log2Floor(n) ==
  LET start == [value |-> n, log |-> 0]
  IN  IF n = {} THEN -1
      ELSE RightRound(RightRound(RightRound(RightRound(RightRound(start, 16), 8), 4), 2), 1).log

LeftRound(a, s) ==
  LET x == ShiftLeft(a.value, s)
  IN  IF x # {} THEN [value |-> x, rc |-> a.rc - s] ELSE a

\* The least place of a bit of n, which has one.
FindLSBSetNonZero(n) ==
  LET start == [value |-> n, rc |-> 31]
  IN  LeftRound(LeftRound(LeftRound(LeftRound(LeftRound(start, 16), 8), 4), 2), 1).rc

FindLSBSetNonZero64(n) ==
  LET bottombits == n \cap 0 .. 31
  IN  IF bottombits = {} THEN 32 + FindLSBSetNonZero({b - 32 : b \in n})
                         ELSE FindLSBSetNonZero(bottombits)
=============================================================================

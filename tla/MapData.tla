------------------------------ MODULE MapData ------------------------------
(***************************************************************************)
(* The data of an ordered key/value map: its contents, the operations of a *)
(* write, and the listing of a range of keys.  Keys are integers, in the   *)
(* order of the comparator the database was opened with; two keys that the *)
(* comparator finds equal are one key.                                     *)
(***************************************************************************)
EXTENDS Integers, SequencesExt

CONSTANTS
  Key,      \* keys
  Value,    \* values
  Missing,  \* the value of a key that is not there
  NoBound   \* no limit on one side of a range

ASSUME MapDataAssumption ==
  /\ Key \subseteq Int /\ IsFiniteSet(Key)
  /\ Missing \notin Value /\ NoBound \notin Int

Contents == [Key -> Value \cup {Missing}]
Empty    == [k \in Key |-> Missing]

\* One entry of a write batch; a delete has the value Missing.
Entry == [key: Key, value: Value \cup {Missing}]

\* The entries of a batch that set the key k, and the contents c after the
\* batch: its entries apply first to last, so the last one for a key decides.
EntriesFor(entries, k) == {n \in DOMAIN entries : entries[n].key = k}
LastFor(entries, k) ==
  CHOOSE n \in EntriesFor(entries, k) : \A m \in EntriesFor(entries, k) : m <= n
ApplyTo(c, entries) ==
  [k \in Key |-> IF EntriesFor(entries, k) = {} THEN c[k] ELSE entries[LastFor(entries, k)].value]

Present(c) == {k \in Key : c[k] # Missing}

\* A limit need not be a key that is ever written.
Bound == Int \cup {NoBound}

\* The keys of c from one bound to the other, both included.
InRange(c, from, to) ==
  {k \in Present(c) : (from = NoBound \/ from <= k) /\ (to = NoBound \/ k <= to)}

\* How many keys of S a scan meets before k, and the key it meets n-th.
Rank(S, k, reverse) == Cardinality({j \in S : IF reverse THEN j > k ELSE j < k})
NthKey(S, n, reverse) == CHOOSE k \in S : Rank(S, k, reverse) = n - 1

\* What a scan that meets the keys S of c returns: (key, value) pairs or keys.
Item(c, k, include_value) == IF include_value THEN <<k, c[k]>> ELSE <<k>>
Listing(c, S, reverse, include_value) ==
  [n \in 1..Cardinality(S) |-> Item(c, NthKey(S, n, reverse), include_value)]
============================================================================

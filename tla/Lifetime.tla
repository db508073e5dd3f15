------------------------------ MODULE Lifetime ------------------------------
(***************************************************************************)
(* What the native LevelDB library asks of whoever uses it, and hence what *)
(* the extension's bookkeeping is for: iterators and snapshots are made    *)
(* from an open database only, each is deleted once, and a database is     *)
(* deleted only when none of them is left.                                 *)
(***************************************************************************)
CONSTANTS
  Db,     \* databases
  Child,  \* iterators and snapshots
  Null    \* no database

VARIABLES
  open,   \* the databases that exist
  owner   \* the database each existing child was made from, Null for the others

vars == <<open, owner>>

TypeOK == open \subseteq Db /\ owner \in [Child -> Db \cup {Null}]

Init == open = {} /\ owner = [c \in Child |-> Null]

Open(d) == d \notin open /\ open' = open \cup {d} /\ UNCHANGED owner

Make(c, d) == d \in open /\ owner[c] = Null /\ owner' = [owner EXCEPT ![c] = d] /\ UNCHANGED open

Delete(c) == owner[c] # Null /\ owner' = [owner EXCEPT ![c] = Null] /\ UNCHANGED open

Close(d) ==
  /\ d \in open /\ \A c \in Child : owner[c] # d
  /\ open' = open \ {d}
  /\ UNCHANGED owner

Next ==
  \/ \E d \in Db : Open(d) \/ Close(d) \/ \E c \in Child : Make(c, d)
  \/ \E c \in Child : Delete(c)

Spec == Init /\ [][Next]_vars
============================================================================

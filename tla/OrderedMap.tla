---------------------------- MODULE OrderedMap -----------------------------
(***************************************************************************)
(* What the documentation of the extension promises of one database: every *)
(* call takes effect at one moment between its start and its return; a     *)
(* batch is written as one, with the operations added to it before the     *)
(* Write was called, in the order in which they were added; a snapshot     *)
(* never changes; a range iterator returns the keys its range held at one  *)
(* moment, in order, bounds included; a crash loses only writes that came  *)
(* after the last synchronous one.                                         *)
(***************************************************************************)
EXTENDS MapData

CONSTANTS Thread, Snap, Iter, Batch, Closed

VARIABLES
  disk,     \* the contents a crash may leave, oldest first; the last are the contents now
  pending,  \* the call each thread has started
  batch,    \* the operations in each batch
  frozen,   \* the contents a snapshot stands for, or Closed
  scan,     \* what an iterator has still to return
  answer    \* what the step just made has returned to its caller

vars == <<disk, pending, batch, frozen, scan, answer>>

Live   == "db"
Source == {Live} \cup Snap
Idle   == [op |-> "idle"]

\* The calls that do not take effect at once.
Request ==
  {Idle}
  \cup [op: {"put"}, entries: Seq(Entry), sync: BOOLEAN]
  \cup [op: {"write"}, batch: Batch, entries: Seq(Entry), sync: BOOLEAN]
  \cup [op: {"push"}, batch: Batch, entry: Entry]
  \cup [op: {"get"}, source: Source, key: Key]
  \cup [op: {"scan"}, source: Source, iter: Iter, from: Bound, to: Bound,
        is_reverse: BOOLEAN, include_value: BOOLEAN]

View(source) == IF source = Live THEN Last(disk) ELSE frozen[source]

Init ==
  /\ disk = <<Empty>>
  /\ pending = [t \in Thread |-> Idle]
  /\ batch = [b \in Batch |-> <<>>]
  /\ frozen = [s \in Snap |-> Closed]
  /\ scan = [i \in Iter |-> <<>>]
  /\ answer = <<>>

\* Put and Delete write one operation, Write what the batch holds now.
Sound(r) ==
  /\ r.op = "put" => Len(r.entries) = 1
  /\ r.op = "write" => r.entries = batch[r.batch]

Start(t) ==
  /\ pending[t] = Idle /\ pending' \in [Thread -> Request] /\ Sound(pending'[t])
  /\ \A u \in Thread \ {t} : pending'[u] = pending[u]
  /\ answer' = <<>>
  /\ UNCHANGED <<disk, batch, frozen, scan>>

Return(t, op) == pending[t].op = op /\ pending' = [pending EXCEPT ![t] = Idle]

Write(t) ==
  /\ Return(t, "put") \/ Return(t, "write")
  /\ LET c == ApplyTo(Last(disk), pending[t].entries)
     IN  disk' = IF pending[t].sync THEN <<c>> ELSE Append(disk, c)
  /\ answer' = <<>>
  /\ UNCHANGED <<batch, frozen, scan>>

\* An operation is added to a batch, and a batch is emptied.
Push(t) ==
  /\ Return(t, "push")
  /\ batch' = [batch EXCEPT ![pending[t].batch] = Append(@, pending[t].entry)]
  /\ answer' = <<>>
  /\ UNCHANGED <<disk, frozen, scan>>

Clear(b) ==
  /\ batch' = [batch EXCEPT ![b] = <<>>]
  /\ answer' = <<>>
  /\ UNCHANGED <<disk, pending, frozen, scan>>

Get(t) ==
  /\ Return(t, "get")
  /\ View(pending[t].source) # Closed
  /\ answer' = <<View(pending[t].source)[pending[t].key]>>
  /\ UNCHANGED <<disk, batch, frozen, scan>>

Scan(t) ==
  /\ Return(t, "scan")
  /\ LET r == pending[t]
         c == View(r.source)
     IN  /\ c # Closed
         /\ scan' = [scan EXCEPT ![r.iter] =
              Listing(c, InRange(c, r.from, r.to), r.is_reverse, r.include_value)]
  /\ answer' = <<>>
  /\ UNCHANGED <<disk, batch, frozen>>

\* next() returns the next item; at the end it stops, also when repeated.
Take(i) ==
  /\ UNCHANGED <<disk, pending, batch, frozen>>
  /\ scan[i] # <<>>
  /\ answer' = Head(scan[i]) /\ scan' = [scan EXCEPT ![i] = Tail(@)]

Forget(i) ==
  /\ answer' = <<>>
  /\ UNCHANGED <<disk, pending, batch, frozen>>
  /\ scan' = [scan EXCEPT ![i] = <<>>]

Freeze(s) ==
  /\ frozen[s] = Closed /\ frozen' = [frozen EXCEPT ![s] = Last(disk)]
  /\ answer' = <<>>
  /\ UNCHANGED <<disk, pending, batch, scan>>

Thaw(s) ==
  /\ frozen' = [frozen EXCEPT ![s] = Closed]
  /\ answer' = <<>>
  /\ UNCHANGED <<disk, pending, batch, scan>>

Crash ==
  /\ \E n \in DOMAIN disk : disk' = <<disk[n]>>
  /\ pending' = [t \in Thread |-> Idle]
  /\ batch' = [b \in Batch |-> <<>>]
  /\ frozen' = [s \in Snap |-> Closed]
  /\ scan' = [i \in Iter |-> <<>>]
  /\ answer' = <<>>

\* Nothing happened but that the answer has been consumed.
Consume == answer' = <<>> /\ UNCHANGED <<disk, pending, batch, frozen, scan>>

Next ==
  \/ \E t \in Thread : Start(t)
  \/ \E t \in Thread : Write(t) \/ Push(t) \/ Get(t) \/ Scan(t)
  \/ \E b \in Batch : Clear(b)
  \/ \E i \in Iter : Take(i) \/ Forget(i)
  \/ \E s \in Snap : Freeze(s) \/ Thaw(s)
  \/ Crash \/ Consume

Spec == Init /\ [][Next]_vars
============================================================================

------------------------------- MODULE Store -------------------------------
(***************************************************************************)
(* Reading and writing one open database from several Python threads: Put, *)
(* Get, Delete, Write, write batches, snapshots and range iterators.       *)
(*                                                                         *)
(* A call is two actions: what the code does with the GIL held before it   *)
(* lets it go (the arguments are read), and the native call made without   *)
(* it, with the return.  Between the two the other threads run.  next(),   *)
(* CreateSnapshot and dropping an object keep the GIL while they touch the *)
(* data and are one action.  Objects live as module Handles says.          *)
(*                                                                         *)
(* The LevelDB library is external.  It applies a batch at once, reads a   *)
(* view that never changes through an iterator or a snapshot, and after a  *)
(* crash has every write up to the last synchronous one and the first few  *)
(* of the later ones.                                                      *)
(***************************************************************************)
EXTENDS MapData

CONSTANTS
  Thread, Snap, Iter,
  Batch,      \* WriteBatch objects
  Closed,     \* a snapshot that is not there
  Invalid,    \* the position of an engine iterator that is not Valid()
  Synced,     \* the values of the sync argument the program uses
  Limits,     \* the limits it gives to RangeIter
  MaxBatch,   \* bound: entries in one batch
  MaxUnsynced \* bound: writes since the last synchronous one

Live   == "db"
Source == {Live} \cup Snap

ASSUME StoreAssumption ==
  /\ Live \notin Snap /\ Closed \notin Contents /\ Invalid \notin Int
  /\ Synced \subseteq BOOLEAN /\ Limits \subseteq Bound
  /\ MaxBatch \in Nat \ {0}

VARIABLES
  disk,       \* engine: the contents a crash may leave, oldest first; the last are
              \* the contents now
  snap,       \* the contents behind each snapshot object
  batch,      \* ops of each WriteBatch
  iter,       \* the PyLevelDBIter structs
  th,         \* the call each thread is in
  answer      \* what the step just made has returned to its caller, <<>> if no data

vars == <<disk, snap, batch, iter, th, answer>>

\* view and pos are the engine's iterator, the rest are fields of PyLevelDBIter.
IterStruct == [open: BOOLEAN, view: Contents, pos: Key \cup {Invalid}, bound: Bound,
               is_reverse: BOOLEAN, include_value: BOOLEAN]

\* PyLevelDBIter_New(0, 0, 0, 0, 0, 0).
Cleaned == [open |-> FALSE, view |-> Empty, pos |-> Invalid, bound |-> NoBound,
            is_reverse |-> FALSE, include_value |-> FALSE]

\* After PyLevelDBIter_clean, which leaves is_reverse as it is.
Clean(it) == [Cleaned EXCEPT !.is_reverse = it.is_reverse]

Idle == [op |-> "idle"]

Call ==
  {Idle}
  \cup [op: {"put"}, entries: BoundedSeq(Entry, MaxBatch), sync: BOOLEAN]
  \cup [op: {"write"}, batch: Batch, entries: BoundedSeq(Entry, MaxBatch), sync: BOOLEAN]
  \cup [op: {"push"}, batch: Batch, entry: Entry]
  \cup [op: {"get"}, source: Source, key: Key]
  \cup [op: {"scan"}, source: Source, iter: Iter, from: Bound, to: Bound,
        is_reverse: BOOLEAN, include_value: BOOLEAN]

Init ==
  /\ disk = <<Empty>>
  /\ snap = [s \in Snap |-> Closed]
  /\ batch = [b \in Batch |-> <<>>]
  /\ iter = [i \in Iter |-> Cleaned]
  /\ th = [t \in Thread |-> Idle]
  /\ answer = <<>>

At(t, op) == th[t].op = op

Begin(t, call) == At(t, "idle") /\ th' = [th EXCEPT ![t] = call]

Back(t) == th' = [th EXCEPT ![t] = Idle]

\* A call on an object keeps it alive.
Busy(x) == \E t \in Thread :
  \/ th[t].op \in {"get", "scan"} /\ th[t].source = x
  \/ th[t].op = "scan" /\ th[t].iter = x

IsOpen(source) == source \in Snap => snap[source] # Closed

\* Mutant of View: snapshot does not reach the ReadOptions.
View_Live(source) == Last(disk)

View(source) == IF source = Live THEN Last(disk) ELSE snap[source]

----------------------------------------------------------------------------
(* Writing *)

PyLevelDB_Put(t, k, v, sync) ==
  /\ Begin(t, [op |-> "put", entries |-> <<[key |-> k, value |-> v]>>, sync |-> sync])
  /\ answer' = <<>>
  /\ UNCHANGED <<disk, snap, batch, iter>>

PyLevelDB_Delete(t, k, sync) ==
  /\ Begin(t, [op |-> "put", entries |-> <<[key |-> k, value |-> Missing]>>, sync |-> sync])
  /\ answer' = <<>>
  /\ UNCHANGED <<disk, snap, batch, iter>>

\* Write copies the batch with the GIL held, before the native call.
PyLevelDB_Write(t, b, sync) ==
  /\ Begin(t, [op |-> "write", batch |-> b, entries |-> batch[b], sync |-> sync])
  /\ answer' = <<>>
  /\ UNCHANGED <<disk, snap, batch, iter>>

InWrite(t) == th[t].op \in {"put", "write"}

\* Mutant of EngineWrite: sync does not reach the WriteOptions.
EngineWrite_Lazy(t) ==
  /\ InWrite(t) /\ Len(disk) <= MaxUnsynced
  /\ disk' = Append(disk, ApplyTo(Last(disk), th[t].entries))
  /\ Back(t)
  /\ answer' = <<>>
  /\ UNCHANGED <<snap, batch, iter>>

\* Mutant of EngineWrite: the batch is not copied before the GIL is let go.
EngineWrite_NotCopied(t) ==
  /\ InWrite(t) /\ Len(disk) <= MaxUnsynced
  /\ LET c == ApplyTo(Last(disk), IF At(t, "write") THEN batch[th[t].batch] ELSE th[t].entries)
     IN  disk' = IF th[t].sync THEN <<c>> ELSE Append(disk, c)
  /\ Back(t)
  /\ answer' = <<>>
  /\ UNCHANGED <<snap, batch, iter>>

\* The native call of Put, Delete and Write, and the return.
EngineWrite(t) ==
  /\ InWrite(t) /\ Len(disk) <= MaxUnsynced
  /\ LET c == ApplyTo(Last(disk), th[t].entries)
     IN  disk' = IF th[t].sync THEN <<c>> ELSE Append(disk, c)
  /\ Back(t)
  /\ answer' = <<>>
  /\ UNCHANGED <<snap, batch, iter>>

\* WriteBatch.Put and WriteBatch.Delete let the GIL go while they copy their
\* arguments ...
PyWriteBatch_Put(t, b, e) ==
  /\ Len(batch[b]) < MaxBatch
  /\ Begin(t, [op |-> "push", batch |-> b, entry |-> e])
  /\ answer' = <<>>
  /\ UNCHANGED <<disk, snap, batch, iter>>

\* ... and add the copy to the batch as it is by then.
Push(t) ==
  /\ At(t, "push") /\ Len(batch[th[t].batch]) < MaxBatch
  /\ batch' = [batch EXCEPT ![th[t].batch] = Append(@, th[t].entry)]
  /\ Back(t)
  /\ answer' = <<>>
  /\ UNCHANGED <<disk, snap, iter>>

\* A new WriteBatch, or batch.__init__() on an old one.
PyWriteBatch_init(t, b) ==
  /\ At(t, "idle") /\ batch[b] # <<>>
  /\ batch' = [batch EXCEPT ![b] = <<>>]
  /\ answer' = <<>>
  /\ UNCHANGED <<disk, snap, iter, th>>

----------------------------------------------------------------------------
(* Reading *)

PyLevelDB_Get(t, source, k) ==
  /\ IsOpen(source)
  /\ Begin(t, [op |-> "get", source |-> source, key |-> k])
  /\ answer' = <<>>
  /\ UNCHANGED <<disk, snap, batch, iter>>

EngineGet(t) ==
  /\ At(t, "get")
  /\ answer' = <<View(th[t].source)[th[t].key]>>
  /\ Back(t)
  /\ UNCHANGED <<disk, snap, batch, iter>>

PyLevelDB_CreateSnapshot(t, s) ==
  /\ At(t, "idle") /\ snap[s] = Closed
  /\ snap' = [snap EXCEPT ![s] = Last(disk)]
  /\ answer' = <<>>
  /\ UNCHANGED <<disk, batch, iter, th>>

\* Mutant of PyLevelDBSnapshot_dealloc: a call does not keep its snapshot alive.
PyLevelDBSnapshot_dealloc_Borrowed(t, s) ==
  /\ At(t, "idle") /\ snap[s] # Closed
  /\ snap' = [snap EXCEPT ![s] = Closed]
  /\ answer' = <<>>
  /\ UNCHANGED <<disk, batch, iter, th>>

PyLevelDBSnapshot_dealloc(t, s) ==
  /\ At(t, "idle") /\ snap[s] # Closed /\ ~Busy(s)
  /\ snap' = [snap EXCEPT ![s] = Closed]
  /\ answer' = <<>>
  /\ UNCHANGED <<disk, batch, iter, th>>

----------------------------------------------------------------------------
(* Range iterators *)

\* The engine's iterator: where Seek, Next and Prev leave it in the contents c.
Least(S)    == IF S = {} THEN Invalid ELSE CHOOSE k \in S : \A j \in S : k <= j
Greatest(S) == IF S = {} THEN Invalid ELSE CHOOSE k \in S : \A j \in S : k >= j

SeekToFirst(c) == Least(Present(c))
SeekToLast(c)  == Greatest(Present(c))
Seek(c, k)     == Least({j \in Present(c) : j >= k})
NextOf(c, k)   == Least({j \in Present(c) : j > k})
PrevOf(c, k)   == Greatest({j \in Present(c) : j < k})

\* Mutant of StartPos: no Prev() from a key above the upper limit.
StartPos_NoPrev(c, from, to, is_reverse) ==
  LET at == Seek(c, IF is_reverse THEN to ELSE from)
  IN  IF ~is_reverse THEN IF from = NoBound THEN SeekToFirst(c) ELSE at
      ELSE IF to = NoBound \/ at = Invalid THEN SeekToLast(c)
      ELSE at

\* Where RangeIter leaves the new iterator.  Seek finds the first key that is
\* not before its argument, so a reverse scan steps back from a later one.
StartPos(c, from, to, is_reverse) ==
  LET at == Seek(c, IF is_reverse THEN to ELSE from)
  IN  IF ~is_reverse THEN IF from = NoBound THEN SeekToFirst(c) ELSE at
      ELSE IF to = NoBound \/ at = Invalid THEN SeekToLast(c)
      ELSE IF at = to THEN at
      ELSE PrevOf(c, at)

PyLevelDB_RangeIter(t, i, source, from, to, is_reverse, include_value) ==
  /\ IsOpen(source) /\ ~iter[i].open /\ ~Busy(i)
  /\ Begin(t, [op |-> "scan", source |-> source, iter |-> i, from |-> from, to |-> to,
               is_reverse |-> is_reverse, include_value |-> include_value])
  /\ answer' = <<>>
  /\ UNCHANGED <<disk, snap, batch, iter>>

\* NewIterator and the seek; an iterator that is not Valid() is replaced by an
\* empty one.  The limit the scan starts from is not kept.
EngineSeek(t) ==
  /\ At(t, "scan")
  /\ LET c   == th[t]
         v   == View(c.source)
         pos == StartPos(v, c.from, c.to, c.is_reverse)
     IN  iter' = [iter EXCEPT ![c.iter] =
           IF pos = Invalid THEN Cleaned
           ELSE [open |-> TRUE, view |-> v, pos |-> pos,
                 bound |-> IF c.is_reverse THEN c.from ELSE c.to,
                 is_reverse |-> c.is_reverse, include_value |-> c.include_value]]
  /\ Back(t)
  /\ answer' = <<>>
  /\ UNCHANGED <<disk, snap, batch>>

\* The iterator has run past its upper or lower limit.
PastBound(it) ==
  it.bound # NoBound /\ (IF it.is_reverse THEN it.pos < it.bound ELSE it.pos > it.bound)

\* next() finds nothing to return.
Finished(it) == ~(it.open /\ it.pos # Invalid /\ ~PastBound(it))

\* Mutant of PyLevelDBIter_next_end: only the iterator is given up, not the bound.
PyLevelDBIter_next_end_KeepsBound(t, i) ==
  /\ At(t, "idle") /\ Finished(iter[i])
  /\ iter' = [iter EXCEPT ![i] = [Clean(iter[i]) EXCEPT !.bound = iter[i].bound]]
  /\ answer' = <<>>
  /\ UNCHANGED <<disk, snap, batch, th>>

\* next() has nothing to return and cleans the iterator; again if repeated.
PyLevelDBIter_next_end(t, i) ==
  /\ At(t, "idle") /\ Finished(iter[i])
  /\ iter' = [iter EXCEPT ![i] = Clean(@)]
  /\ answer' = <<>>
  /\ UNCHANGED <<disk, snap, batch, th>>

\* next() returns the item at the position and moves on, before it returns.
PyLevelDBIter_next_item(t, i) ==
  /\ At(t, "idle") /\ ~Finished(iter[i])
  /\ LET it == iter[i]
     IN  /\ answer' = IF it.include_value THEN <<it.pos, it.view[it.pos]>> ELSE <<it.pos>>
         /\ iter' = [iter EXCEPT ![i].pos =
              IF it.is_reverse THEN PrevOf(it.view, it.pos) ELSE NextOf(it.view, it.pos)]
  /\ UNCHANGED <<disk, snap, batch, th>>

\* The iterator object is dropped.
PyLevelDBIter_dealloc(t, i) ==
  /\ At(t, "idle") /\ iter[i].open
  /\ iter' = [iter EXCEPT ![i] = Cleaned]
  /\ answer' = <<>>
  /\ UNCHANGED <<disk, snap, batch, th>>

----------------------------------------------------------------------------
\* The machine stops and the database is opened again.  Every Python object is
\* gone; the engine has kept what it must, and the first few of the later writes.
Crash ==
  /\ \E n \in DOMAIN disk : disk' = <<disk[n]>>
  /\ snap' = [s \in Snap |-> Closed]
  /\ batch' = [b \in Batch |-> <<>>]
  /\ iter' = [i \in Iter |-> Cleaned]
  /\ th' = [t \in Thread |-> Idle]
  /\ answer' = <<>>

Native(t) == EngineWrite(t) \/ Push(t) \/ EngineGet(t) \/ EngineSeek(t)

Update(t) ==
  \/ \E sync \in Synced, k \in Key : PyLevelDB_Delete(t, k, sync)
                                     \/ \E v \in Value : PyLevelDB_Put(t, k, v, sync)
  \/ \E b \in Batch : \/ \E sync \in Synced : PyLevelDB_Write(t, b, sync)
                      \/ \E e \in Entry : PyWriteBatch_Put(t, b, e)
                      \/ PyWriteBatch_init(t, b)

Query(t) ==
  \/ \E source \in Source, k \in Key : PyLevelDB_Get(t, source, k)
  \/ \E s \in Snap : PyLevelDB_CreateSnapshot(t, s) \/ PyLevelDBSnapshot_dealloc(t, s)
  \/ \E i \in Iter : \/ PyLevelDBIter_next_end(t, i) \/ PyLevelDBIter_next_item(t, i)
                     \/ PyLevelDBIter_dealloc(t, i)
                     \/ \E source \in Source, from, to \in Limits, is_reverse, include_value \in BOOLEAN :
                          PyLevelDB_RangeIter(t, i, source, from, to, is_reverse, include_value)

Next == Crash \/ \E t \in Thread : Native(t) \/ Update(t) \/ Query(t)

Spec == Init /\ [][Next]_vars

----------------------------------------------------------------------------
(* Properties *)

\* The type invariant; an iterator that is not open holds nothing.
TypeOK ==
  /\ disk \in Seq(Contents) /\ disk # <<>>
  /\ snap \in [Snap -> Contents \cup {Closed}]
  /\ batch \in [Batch -> BoundedSeq(Entry, MaxBatch)]
  /\ iter \in [Iter -> IterStruct] /\ \A i \in Iter : iter[i].open \/ iter[i] = Clean(iter[i])
  /\ th \in [Thread -> Call]

\* The inductive invariant: a call on a snapshot finds it still there when it
\* comes to read it, however many calls were made between its start and its
\* native part, and an iterator stands on a key of its view, or past the end.
CallsOnOpen == \A t \in Thread : th[t].op \in {"get", "scan"} => IsOpen(th[t].source)
PosPresent ==
  \A i \in Iter : iter[i].open => iter[i].pos \in Present(iter[i].view) \cup {Invalid}
StoreInv == TypeOK /\ CallsOnOpen /\ PosPresent

\* The items an iterator has still to return.
Rest(it) ==
  IF ~it.open \/ it.pos = Invalid THEN <<>>
  ELSE LET S == {k \in Present(it.view) :
                   IF it.is_reverse
                     THEN k <= it.pos /\ (it.bound = NoBound \/ k >= it.bound)
                     ELSE k >= it.pos /\ (it.bound = NoBound \/ k <= it.bound)}
       IN  Listing(it.view, S, it.is_reverse, it.include_value)

\* Under every interleaving of calls, and across crashes, the program sees an
\* ordered map: module OrderedMap.
Map == INSTANCE OrderedMap WITH
  pending <- th,
  frozen  <- snap,
  scan    <- [i \in Iter |-> Rest(iter[i])]
ImplementsOrderedMap == Map!Spec
============================================================================

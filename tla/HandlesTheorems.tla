-------------------------- MODULE HandlesTheorems --------------------------
(***************************************************************************)
(* What the invariant of module HandlesInv is for: programs that make no   *)
(* unusual use of the API use the native library as it asks, and           *)
(* n_snapshots and n_iterators count the children of each LevelDB object.  *)
(***************************************************************************)
EXTENDS HandlesInvProofs

\* The database that the native object behind the child c was made by.
NativeOf(c) == IF c \in Snap THEN snap[c].native ELSE iter[c].native

----------------------------------------------------------------------------
(* What a step does to the native objects *)

SameDb(d) == db'[d].native = db[d].native /\ db'[d].aux = db[d].aux

\* No database is opened or closed, and what an open one needs is left alone.
Steady ==
  \A d \in Db : /\ db'[d].native = "live" <=> db[d].native = "live"
                /\ db'[d].native = "live" => db'[d].aux = db[d].aux

\* No child but c, which need not be one, is made or deleted.
AlikeBut(c) == \A b \in Child \ {c} : NativeOf(b)' = NativeOf(b)

Makes(c, d) == NativeOf(c) = Null /\ db[d].native = "live" /\ NativeOf(c)' = d
Deletes(c)  == NativeOf(c) # Null /\ NativeOf(c)' = Null

Opens(d) ==
  /\ db[d].native # "live" /\ db'[d].native = "live" /\ db'[d].aux = "live"
  /\ \A e \in Db \ {d} : SameDb(e)

Closes(d) ==
  /\ db[d].native = "live" /\ db'[d].native # "live"
  /\ \A c \in Child : NativeOf(c) # d
  /\ \A e \in Db \ {d} : SameDb(e)

Effect ==
  \/ Steady /\ AlikeBut(Null)
  \/ \E c \in Child : /\ Steady /\ AlikeBut(c)
                      /\ Deletes(c) \/ \E d \in Db : Makes(c, d)
  \/ \E d \in Db : AlikeBut(Null) /\ (Opens(d) \/ Closes(d))

LEMMA SameSteady == ASSUME \A d \in Db : SameDb(d) PROVE Steady
BY DEF SameDb, Steady

LEMMA SameAlike ==
  ASSUME \A s \in Snap : snap'[s].native = snap[s].native,
         \A i \in Iter : iter'[i].native = iter[i].native
  PROVE  AlikeBut(Null)
BY DEF AlikeBut, NativeOf, Child

\* Counting changes no pointer.
LEMMA CountSame ==
  ASSUME TypeOK, NEW b \in Db,
         \/ db' = [db EXCEPT ![b].n_iterators = @ - 1]
         \/ db' = [db EXCEPT ![b].n_iterators = @ + 1]
         \/ db' = [db EXCEPT ![b].n_snapshots = @ - 1]
         \/ db' = [db EXCEPT ![b].n_snapshots = @ + 1]
  PROVE  \A d \in Db : SameDb(d)
BY DEF TypeOK, DbStruct, SameDb

LEMMA ForgetSame ==
  ASSUME TypeOK, NEW i \in Iter, db' = Forget(i)
  PROVE  \A d \in Db : SameDb(d)
<1>1. CASE iter[i].db = Null
  BY <1>1 DEF Forget, SameDb
<1>2. CASE iter[i].db # Null
  <2>1. iter[i].db \in Db /\ db' = [db EXCEPT ![iter[i].db].n_iterators = @ - 1]
    BY <1>2 DEF Forget, TypeOK, IterStruct
  <2>2. QED
    BY <2>1, CountSame
<1>3. QED
  BY <1>1, <1>2

LEMMA QuietEffect ==
  ASSUME UNCHANGED <<db, snap, iter>>
  PROVE  Effect
BY SameSteady, SameAlike DEF Effect, SameDb

LEMMA DecRefEffect ==
  ASSUME IInv, NEW t \in Thread, NEW o \in Object, DecRef(t, o), UNCHANGED <<snap, iter>>
  PROVE  Effect
<1>1. db' = db \/ (o \in Iter /\ db' = Forget(o))
  BY DEF DecRef
<1>2. \A d \in Db : SameDb(d)
  BY <1>1, ForgetSame DEF IInv, SameDb
<1>3. QED
  BY <1>2, SameSteady, SameAlike DEF Effect

\* One iterator changes hands.
LEMMA IterEffect ==
  ASSUME IInv, UNCHANGED <<db, snap>>, NEW i \in Iter, NEW n, iter' = [iter EXCEPT ![i].native = n],
         \/ n = Null
         \/ n \in Db /\ iter[i].native = Null /\ Up(n)
  PROVE  Effect
<1>1. iter'[i].native = n /\ \A j \in Iter \ {i} : iter'[j] = iter[j]
  BY DEF IInv, TypeOK, IterStruct
<1>2. i \in Child /\ i \notin Snap /\ NativeOf(i) = iter[i].native /\ NativeOf(i)' = n
  BY <1>1, HandlesAssumption DEF NativeOf, Child
<1>3. Steady /\ AlikeBut(i)
  BY <1>1, SameSteady DEF SameDb, AlikeBut, NativeOf, Child
<1>4. CASE iter[i].native = n
  BY <1>1, <1>3, <1>4, SameAlike DEF Effect
<1>5. CASE iter[i].native # n
  BY <1>2, <1>3, <1>5 DEF Effect, Deletes, Makes, Up
<1>6. QED
  BY <1>4, <1>5

LEMMA SnapEffect ==
  ASSUME IInv, \A d \in Db : SameDb(d), UNCHANGED iter, NEW s \in Snap,
         \A r \in Snap \ {s} : snap'[r] = snap[r],
         \/ snap[s].native # Null /\ snap'[s].native = Null
         \/ snap[s].native = Null /\ snap'[s].native \in Db /\ Up(snap'[s].native)
  PROVE  Effect
<1>1. s \in Child /\ NativeOf(s) = snap[s].native /\ NativeOf(s)' = snap'[s].native
  BY DEF NativeOf, Child
<1>2. Steady /\ AlikeBut(s)
  BY SameSteady DEF AlikeBut, NativeOf, Child
<1>3. QED
  BY <1>1, <1>2 DEF Effect, Deletes, Makes, Up

\* The child a new one is made of has no native object yet.
LEMMA FreshNative ==
  ASSUME IInv
  PROVE  /\ \A s \in Snap : s \notin alloc => snap[s].native = Null
         /\ \A t \in Thread : th[t].pc = "seek" => iter[th[t].cur].native = Null
<1>1. ASSUME NEW s \in Snap, s \notin alloc PROVE snap[s].native = Null
  <2>1. snap[s].db = Null
    BY <1>1 DEF IInv, AllocOK
  <2>2. \A t \in Thread : th[t].cur # s
    BY <2>1 DEF IInv, SnapsOK, ThreadSnap
  <2>3. QED
    BY <2>1, <2>2 DEF IInv, SnapsOK
<1>2. ASSUME NEW t \in Thread, th[t].pc = "seek" PROVE iter[th[t].cur].native = Null
  BY <1>2 DEF IInv, ItersOK, ThreadIter, TypeOK, ThreadOK
<1>3. QED
  BY <1>1, <1>2

LEMMA OpenEffect ==
  ASSUME IInv, NEW t \in Thread, OpenOk(t) \/ OpenFails(t)
  PROVE  Effect
<1> DEFINE d == th[t].self
<1>1. th[t].pc = "open" /\ d \in Db /\ UNCHANGED <<snap, iter>>
  BY DEF OpenOk, OpenFails, At, IInv, TypeOK, ThreadOK
<1>2. db[d].native = "null" /\ db[d].aux = "live"
  BY <1>1 DEF IInv, DbsOK, ThreadDb
<1>3. CASE OpenOk(t)
  <2>1. db' = [db EXCEPT ![d].native = "live"]
    BY <1>3 DEF OpenOk
  <2>2. Opens(d)
    BY <1>1, <1>2, <2>1 DEF IInv, TypeOK, DbStruct, Opens, SameDb
  <2>3. QED
    BY <1>1, <2>2, SameAlike DEF Effect
<1>4. CASE OpenFails(t)
  <2>1. db' = [db EXCEPT ![d] = [@ EXCEPT !.native = "null", !.aux = "null"]]
    BY <1>4 DEF OpenFails
  <2>2. Steady
    BY <1>1, <1>2, <2>1 DEF IInv, TypeOK, DbStruct, Steady
  <2>3. QED
    BY <1>1, <2>2, SameAlike DEF Effect
<1>5. QED
  BY <1>3, <1>4

LEMMA IterMadeEffect ==
  ASSUME IInv, NEW t \in Thread, Seek(t) \/ Discard(t) \/ Abandon(t) \/ Clean(t)
  PROVE  Effect
<1>1. th[t].cur \in Iter /\ UNCHANGED <<db, snap>>
  BY HandlesAssumption
     DEF Seek, Discard, Abandon, Clean, At, IInv, TypeOK, ThreadOK, pyVars
<1>2. CASE Seek(t)
  <2>1. th[t].pc = "seek" /\ iter' = [iter EXCEPT ![th[t].cur].native = th[t].using]
    BY <1>2 DEF Seek, At
  <2>2. QED
    BY <1>1, <2>1, CallUp, FreshNative, IterEffect DEF Making
<1>3. CASE Discard(t) \/ Abandon(t) \/ Clean(t)
  <2>1. iter' = [iter EXCEPT ![th[t].cur].native = Null]
    BY <1>3 DEF Discard, Abandon, Clean
  <2>2. QED
    BY <1>1, <2>1, IterEffect
<1>4. QED
  BY <1>2, <1>3

LEMMA ReleaseEffect ==
  ASSUME IInv, NEW t \in Thread, ReleaseSnapshot(t)
  PROVE  Effect
<1> DEFINE s == th[t].cur
<1>1. th[t].pc = "release" /\ s \in Snap
  BY DEF ReleaseSnapshot, At, IInv, TypeOK, ThreadOK
<1>2. snap' = [snap EXCEPT ![s].native = Null] /\ UNCHANGED <<db, iter>>
  BY DEF ReleaseSnapshot
<1>3. snap[s].native # Null
  BY <1>1 DEF IInv, SnapsOK, ThreadSnap
<1>4. snap'[s].native = Null /\ \A r \in Snap \ {s} : snap'[r] = snap[r]
  BY <1>1, <1>2 DEF IInv, TypeOK, SnapStruct
<1>5. QED
  BY <1>1, <1>2, <1>3, <1>4, SnapEffect DEF SameDb

LEMMA SnapshotNewEffect ==
  ASSUME IInv, NEW t \in Thread, NEW d \in Db, NEW s \in Snap, PyLevelDBSnapshot_New(t, d, s)
  PROVE  Effect
<1>1. /\ d \in named \cap Db /\ s \notin alloc /\ UNCHANGED iter
      /\ snap' = [snap EXCEPT ![s] = [db |-> d, native |-> d]]
      /\ db' = [db EXCEPT ![d].n_snapshots = @ + 1]
  BY DEF PyLevelDBSnapshot_New
<1>2. snap[s].native = Null /\ Up(d)
  BY <1>1, FreshNative DEF IInv, DbsOK
<1>3. \A e \in Db : SameDb(e)
  BY <1>1, CountSame DEF IInv
<1>4. snap'[s].native = d /\ \A r \in Snap \ {s} : snap'[r] = snap[r]
  BY <1>1 DEF IInv, TypeOK
<1>5. QED
  BY <1>1, <1>2, <1>3, <1>4, SnapEffect

LEMMA IterNewEffect ==
  ASSUME IInv, NEW t \in Thread, PyLevelDBIter_New(t)
  PROVE  Effect
<1> DEFINE i == th[t].cur
           d == IterRef(t)
<1>1. /\ th[t].pc = "make" /\ i \in Iter /\ UNCHANGED snap
      /\ iter' = [iter EXCEPT ![i].db = d]
      /\ db' = db \/ (d # Null /\ db' = [db EXCEPT ![d].n_iterators = @ + 1])
  BY DEF PyLevelDBIter_New, At, IInv, TypeOK, ThreadOK
<1>2. d # Null => d \in Db
  BY <1>1, CallUp DEF IterRef, Making
<1>3. \A e \in Db : SameDb(e)
  BY <1>1, <1>2, CountSame DEF IInv, SameDb
<1>4. \A j \in Iter : iter'[j].native = iter[j].native
  BY <1>1 DEF IInv, TypeOK, IterStruct
<1>5. QED
  BY <1>1, <1>3, <1>4, SameSteady, SameAlike DEF Effect

LEMMA FinishAlike ==
  ASSUME IInv, NEW t \in Thread, NEW gone, Finish(t, gone) \/ UNCHANGED <<snap, iter>>
  PROVE  AlikeBut(Null)
<1>1. CASE Finish(t, gone)
  BY <1>1, FinishFields, SameAlike DEF IInv
<1>2. CASE UNCHANGED <<snap, iter>>
  BY <1>2, SameAlike
<1>3. QED
  BY <1>1, <1>2

LEMMA CleanedEffect ==
  ASSUME IInv, NEW t \in Thread, PyLevelDBIter_clean(t) \/ PyLevelDBSnapshot_dealloc(t)
  PROVE  Effect
<1>1. \A d : ReleaseParent(t, d) => Finish(t, {}) \/ UNCHANGED <<snap, iter>>
  BY DEF ReleaseParent
<1>2. AlikeBut(Null)
  BY <1>1, FinishAlike DEF PyLevelDBIter_clean, PyLevelDBSnapshot_dealloc
<1>3. \A e \in Db : SameDb(e)
  <2>1. CASE PyLevelDBIter_clean(t)
    BY <2>1 DEF PyLevelDBIter_clean, SameDb
  <2>2. CASE PyLevelDBSnapshot_dealloc(t)
    <3>1. th[t].cur \in Snap
      BY <2>2 DEF PyLevelDBSnapshot_dealloc, At, IInv, TypeOK, ThreadOK
    <3>2. snap[th[t].cur].db \in Db \cup {Null}
      BY <3>1 DEF IInv, TypeOK, SnapStruct
    <3>3. db' = db \/ (snap[th[t].cur].db # Null
                       /\ db' = [db EXCEPT ![snap[th[t].cur].db].n_snapshots = @ - 1])
      BY <2>2 DEF PyLevelDBSnapshot_dealloc
    <3>4. QED
      BY <3>2, <3>3, CountSame DEF IInv, SameDb
  <2>3. QED
    BY <2>1, <2>2
<1>4. QED
  BY <1>2, <1>3, SameSteady DEF Effect

LEMMA CloseNativeEffect ==
  ASSUME IInv, NEW t \in Thread, CloseNative(t)
  PROVE  Effect
<1> DEFINE d == th[t].dying
<1>1. /\ th[t].pc \in Closing /\ d \in Db /\ (Up(d) \/ Down(d))
      /\ UNCHANGED <<snap, iter>>
      /\ db'[d].native = (IF Up(d) THEN "dangling" ELSE "null")
      /\ \A e \in Db : e # d => db'[e] = db[e]
  BY CloseNativeFields DEF Closing
<1>2. AlikeBut(Null)
  BY <1>1, SameAlike
<1>3. \A c \in Child : NativeOf(c) # d
  BY <1>1, DyingAlone DEF NativeOf, Child
<1>4. CASE Up(d)
  BY <1>1, <1>2, <1>3, <1>4 DEF Effect, Closes, SameDb, Up
<1>5. CASE Down(d)
  <2>1. Steady
    BY <1>1, <1>5 DEF Steady, Up, Down
  <2>2. QED
    BY <1>2, <2>1 DEF Effect
<1>6. QED
  BY <1>1, <1>4, <1>5

LEMMA ClosedEffect ==
  ASSUME IInv, NEW t \in Thread, CloseAux(t) \/ PyLevelDB_dealloc(t)
  PROVE  Effect
<1> DEFINE d == th[t].dying
<1>1. d \in Db /\ th[t].pc \in {"close_aux", "closed"}
  BY DEF CloseAux, PyLevelDB_dealloc, At, IInv, TypeOK, ThreadOK
<1>2. db[d].native # "live"
  BY <1>1 DEF IInv, DbsOK, ThreadDb, Down
<1>3. db' = [db EXCEPT ![d].aux = Deleted(@)] \/ db' = [db EXCEPT ![d] = NewDb]
  BY DEF CloseAux, PyLevelDB_dealloc
<1>4. Steady
  BY <1>1, <1>2, <1>3 DEF IInv, TypeOK, DbStruct, Steady, NewDb
<1>5. AlikeBut(Null)
  BY FinishAlike DEF CloseAux, PyLevelDB_dealloc
<1>6. QED
  BY <1>4, <1>5 DEF Effect

LEMMA NewEffect ==
  ASSUME IInv, NEW t \in Thread, NEW d \in Db, PyLevelDB_new(t, d)
  PROVE  Effect
<1>1. /\ d \notin alloc /\ UNCHANGED <<snap, iter>>
      /\ db' = [db EXCEPT ![d] = [NewDb EXCEPT !.aux = "live"]]
  BY DEF PyLevelDB_new
<1>2. db[d].native = "null"
  BY <1>1 DEF IInv, AllocOK, NewDb
<1>3. Steady
  BY <1>1, <1>2 DEF IInv, TypeOK, Steady, NewDb
<1>4. QED
  BY <1>1, <1>3, SameAlike DEF Effect

LEMMA StepEffect ==
  ASSUME IInv, NEW t \in Thread, Step(t)
  PROVE  Effect
<1>1. ~ PyLevelDB_init(t) /\ ~ PyLevelDBSnapshot_init(t)
  BY DEF PyLevelDB_init, PyLevelDBSnapshot_init, At, IInv, CallsOK, CallOK, TypeOK, ThreadOK, Closing
<1>2. CASE Opened(t) \/ NativeCall(t) \/ EngineGet(t) \/ PyLevelDBIter_New_fails(t)
  BY <1>2, QuietEffect DEF Opened, NativeCall, EngineGet, PyLevelDBIter_New_fails
<1>3. CASE Return(t)
  <2>1. th[t].self \in Object
    BY <1>3 DEF Return, At, IInv, TypeOK, ThreadOK
  <2>2. QED
    BY <1>3, <2>1, DecRefEffect DEF Return
<1>4. QED
  BY <1>1, <1>2, <1>3, OpenEffect, IterMadeEffect, ReleaseEffect, IterNewEffect, CleanedEffect,
     CloseNativeEffect, ClosedEffect DEF Step

LEMMA CallEffect ==
  ASSUME IInv, Usage = {}, NEW t \in Thread, Call(t)
  PROVE  Effect
<1>1. ASSUME NEW i \in Iter, PyLevelDBIter_next_end(t, i) PROVE Effect
  <2>1. db' = Forget(i) /\ UNCHANGED <<snap, iter>>
    BY <1>1 DEF PyLevelDBIter_next_end
  <2>2. QED
    BY <2>1, ForgetSame, SameSteady, SameAlike DEF IInv, Effect
<1>2. ASSUME NEW o \in Object, Drop(t, o) PROVE Effect
  BY <1>2, DecRefEffect DEF Drop
<1>3. ASSUME NEW d \in Db,
             PyLevelDB_new(t, d) \/ PyLevelDB_reinit(t, d) \/ PyLevelDB_GetStatus(t, d) \/ MethodCall(t, d)
      PROVE  Effect
  BY <1>3, NewEffect, QuietEffect DEF PyLevelDB_reinit, PyLevelDB_GetStatus, MethodCall
<1>4. ASSUME NEW o \in Db \cup Snap, PyLevelDB_Get(t, o) \/ \E i \in Iter : PyLevelDB_RangeIter(t, o, i)
      PROVE  Effect
  BY <1>4, QuietEffect DEF PyLevelDB_Get, PyLevelDB_RangeIter
<1>5. ASSUME NEW i \in Iter, PyLevelDBIter_next_item(t, i) PROVE Effect
  BY <1>5, QuietEffect DEF PyLevelDBIter_next_item
<1>6. ASSUME NEW s \in Snap
      PROVE  /\ ~ PyLevelDBSnapshot_init_fails(t, s)
             /\ \A d : ~ PyLevelDBSnapshot_reinit(t, s, d) /\ ~ PyLevelDBSnapshot_reinit_closes(t, s, d)
  BY DEF PyLevelDBSnapshot_init_fails, PyLevelDBSnapshot_reinit, PyLevelDBSnapshot_reinit_closes, CanReset
<1>7. QED
  BY <1>1, <1>2, <1>3, <1>4, <1>5, <1>6, SnapshotNewEffect DEF Call

LEMMA NextEffect == ASSUME IInv, Usage = {}, [Next]_vars PROVE Effect
BY StepEffect, CallEffect, QuietEffect DEF Next, vars

----------------------------------------------------------------------------
(* Theorems.  Usage = {} excludes what module Handles shows to go wrong. *)

\* No thread ever dereferences or deletes a null or dangling native pointer:
\* what a call reads or deletes without the GIL is kept alive by the references
\* the call, its object and that object's children own.
THEOREM Safe == ASSUME Usage = {} PROVE Spec => []MemorySafe
<1>1. IInv => MemorySafe
  BY DEF IInv
<1>2. QED
  BY InvCorrect, <1>1, PTL

\* ob_refcnt is the number of owners of an object at every moment, also in the
\* middle of a GIL-free section: no Py_INCREF or Py_DECREF is missing or doubled.
THEOREM CountsOwners == ASSUME Usage = {} PROVE Spec => []RefcountExact
<1>1. IInv => RefcountExact
  BY DEF IInv
<1>2. QED
  BY InvCorrect, <1>1, PTL

LEMMA NoLeakOfInv == IInv => NoLeak
<1> SUFFICES ASSUME IInv PROVE NoLeak
  OBVIOUS
<1>1. ASSUME NEW d \in Db, db[d].native = "live" PROVE d \in alloc
  BY <1>1 DEF IInv, AllocOK, NewDb
<1>2. ASSUME NEW s \in Snap, snap[s].native # Null PROVE s \in alloc /\ snap[s].db = snap[s].native
  <2>1. snap[s].db = snap[s].native
    BY <1>2 DEF IInv, SnapsOK, ThreadSnap
  <2>2. QED
    BY <1>2, <2>1 DEF IInv, AllocOK
<1>3. ASSUME NEW i \in Iter, iter[i].native # Null
      PROVE  \/ i \in alloc /\ iter[i].db = iter[i].native
             \/ \E t \in Thread : th[t].cur = i /\ th[t].self # Null
  <2>1. CASE iter[i].native = iter[i].db
    BY <1>3, <2>1 DEF IInv, AllocOK
  <2>2. CASE iter[i].native # iter[i].db
    <3>1. PICK t \in Thread : th[t].cur = i
      BY <2>2 DEF IInv, ItersOK
    <3>2. th[t].pc \notin {"clean", "unref", "idle"} \cup Closing /\ ThreadOK(th[t])
      <4>1. ThreadOK(th[t]) /\ ThreadIter(t)
        BY DEF IInv, ItersOK, TypeOK
      <4>2. th[t].pc \notin {"clean", "unref"} \cup Closing
        BY <1>3, <2>2, <3>1, <4>1 DEF ThreadIter
      <4>3. th[t].pc # "idle"
        BY <3>1, <4>1, HandlesAssumption DEF ThreadOK, Idle, Object
      <4>4. QED
        BY <4>1, <4>2, <4>3
    <3>3. th[t].self # Null
      <4>1. th[t] \in ThreadState
        BY DEF IInv, TypeOK
      <4>2. QED
        BY <3>1, <3>2, <4>1, HandlesAssumption DEF ThreadState, ThreadOK, Labels, Closing, Object, Child
    <3>4. QED
      BY <3>1, <3>3
  <2>3. QED
    BY <2>1, <2>2
<1>4. QED
  BY <1>1, <1>2, <1>3 DEF NoLeak

\* Every native object has somebody left to delete it: an error path, an empty
\* range or an exhausted iterator never strands a native iterator or snapshot.
THEOREM NothingLeaks == ASSUME Usage = {} PROVE Spec => []NoLeak
BY InvCorrect, NoLeakOfInv, PTL

\* An open database has its comparator, cache and options.
Equipped == \A d \in Db : db[d].native = "live" => db[d].aux = "live"

LEMMA EquippedStep == ASSUME Equipped, Effect PROVE Equipped'
BY DEF Equipped, Effect, Steady, Opens, Closes, SameDb

LEMMA ChildrenOfInv == IInv /\ Equipped => ChildrenInsideDb
<1> SUFFICES ASSUME IInv, Equipped PROVE ChildrenInsideDb
  OBVIOUS
<1>1. ASSUME NEW c \in Child, \A t \in Thread : th[t].cur # c,
             Parent(c) # Null
      PROVE  DbPointer(Parent(c)) = "live"
  BY <1>1, ParentHeld, HandlesAssumption DEF IInv, DbsOK, Up, DbPointer, Object
<1>2. ASSUME NEW s \in Snap, snap[s].native # Null PROVE DbPointer(snap[s].native) = "live"
  <2>1. CASE \E t \in Thread : th[t].cur = s
    <3>1. PICK t \in Thread : th[t].cur = s
      BY <2>1
    <3>2. th[t].pc = "release" /\ snap[s].native = snap[s].db
      BY <1>2, <3>1 DEF IInv, SnapsOK, ThreadSnap
    <3>3. th[t].dying = Null
      BY <3>2 DEF IInv, CallsOK, CallOK, Closing
    <3>4. Parent(s) = snap[s].db /\ Parent(s) \in Db /\ Up(Parent(s))
      BY <1>2, <3>1, <3>2, <3>3, CurHeld DEF Child
    <3>5. QED
      BY <3>2, <3>4, HandlesAssumption DEF DbPointer, Up, Object
  <2>2. CASE \A t \in Thread : th[t].cur # s
    <3>1. snap[s].native = snap[s].db /\ Parent(s) = snap[s].db
      BY <2>2 DEF IInv, SnapsOK, Parent, Detached
    <3>2. QED
      BY <1>1, <1>2, <2>2, <3>1 DEF Child
  <2>3. QED
    BY <2>1, <2>2
<1>3. ASSUME NEW i \in Iter, iter[i].native # Null PROVE DbPointer(iter[i].native) = "live"
  <2> i \in Child /\ i \notin Snap
    BY HandlesAssumption DEF Child
  <2>1. CASE \E t \in Thread : th[t].cur = i
    <3>1. PICK t \in Thread : th[t].cur = i
      BY <2>1
    <3>2. \/ th[t].pc = "clean" /\ iter[i].native = iter[i].db
          \/ th[t].pc \in Making /\ iter[i].native = th[t].using
      <4>1. ThreadIter(t) /\ ThreadOK(th[t]) /\ th[t] \in ThreadState
        BY DEF IInv, ItersOK, TypeOK
      <4>2. th[t].cur # Null /\ th[t].cur \notin Snap
        BY <3>1, HandlesAssumption DEF Object, Child
      <4>3. th[t].pc \in {"clean", "unref"} \cup Making \cup Closing
        BY <4>1, <4>2 DEF ThreadState, ThreadOK, Labels, Making, Closing, Idle
      <4>4. th[t].pc \notin {"seek", "unref"} \cup Closing
        BY <1>3, <3>1, <4>1 DEF ThreadIter
      <4>5. th[t].pc \in {"clean", "discard", "make", "abandon"}
        BY <4>3, <4>4 DEF Making
      <4>6. QED
        BY <1>3, <3>1, <4>1, <4>5 DEF ThreadIter, Making
    <3>3. CASE th[t].pc = "clean" /\ iter[i].native = iter[i].db
      <4>1. th[t].dying = Null
        BY <3>3 DEF IInv, CallsOK, CallOK, Closing
      <4>2. Parent(i) = iter[i].db /\ Parent(i) \in Db /\ Up(Parent(i))
        BY <1>3, <3>1, <3>3, <4>1, CurHeld
      <4>3. QED
        BY <3>3, <4>2, HandlesAssumption DEF DbPointer, Up, Object
    <3>4. CASE th[t].pc \in Making /\ iter[i].native = th[t].using
      BY <3>4, CallUp, HandlesAssumption DEF DbPointer, Up, Object
    <3>5. QED
      BY <3>2, <3>3, <3>4
  <2>2. CASE \A t \in Thread : th[t].cur # i
    <3>1. iter[i].native = iter[i].db /\ Parent(i) = iter[i].db
      BY <2>2 DEF IInv, ItersOK, Parent, Detached
    <3>2. QED
      BY <1>1, <1>3, <2>2, <3>1
  <2>3. QED
    BY <2>1, <2>2
<1>4. QED
  BY <1>2, <1>3 DEF ChildrenInsideDb, Equipped

\* A native iterator or snapshot never outlives its native database, nor a
\* native database its comparator, cache and options, whatever the order in
\* which the Python objects are dropped and their cleanups interleave.
THEOREM ChildrenInside == ASSUME Usage = {} PROVE Spec => []ChildrenInsideDb
<1>1. Init => Equipped
  BY DEF Init, Equipped, NewDb
<1>2. IInv /\ Equipped /\ [Next]_vars => Equipped'
  BY NextEffect, EquippedStep
<1>3. QED
  BY InvCorrect, <1>1, <1>2, ChildrenOfInv, PTL DEF Spec

----------------------------------------------------------------------------
(* Refinement *)

LEMMA NativeStep == ASSUME Effect PROVE [Native!Next]_(Native!vars)
<1> DEFINE open  == {d \in Db : db[d].native = "live"}
           owner == [c \in Child |-> IF c \in Snap THEN snap[c].native ELSE iter[c].native]
<1>1. owner = [c \in Child |-> NativeOf(c)] /\ owner' = [c \in Child |-> NativeOf(c)']
  BY DEF NativeOf
<1>2. Steady => open' = open
  BY DEF Steady
<1>3. AlikeBut(Null) => owner' = owner
  BY HandlesAssumption, <1>1 DEF AlikeBut, Object, Child
<1>4. ASSUME NEW c \in Child, AlikeBut(c), NEW n, NativeOf(c)' = n
      PROVE  owner' = [owner EXCEPT ![c] = n]
  <2>1. \A b \in Child : NativeOf(b)' = IF b = c THEN n ELSE NativeOf(b)
    BY <1>4 DEF AlikeBut
  <2>2. owner' = [b \in Child |-> NativeOf(b)'] /\ owner = [b \in Child |-> NativeOf(b)]
    BY <1>1
  <2> HIDE DEF owner
  <2>3. QED
    BY <2>1, <2>2
<1> HIDE DEF owner
<1>5. CASE Steady /\ AlikeBut(Null)
  BY <1>2, <1>3, <1>5 DEF Native!vars, owner
<1>6. ASSUME NEW c \in Child, Steady, AlikeBut(c), Deletes(c) PROVE Native!Next
  <2>1. Native!Delete(c)
    BY <1>1, <1>2, <1>4, <1>6 DEF Native!Delete, Deletes, owner
  <2>2. QED
    BY <2>1 DEF Native!Next
<1>7. ASSUME NEW c \in Child, NEW d \in Db, Steady, AlikeBut(c), Makes(c, d) PROVE Native!Next
  <2>1. Native!Make(c, d)
    BY <1>1, <1>2, <1>4, <1>7 DEF Native!Make, Makes, owner
  <2>2. QED
    BY <2>1 DEF Native!Next
<1>8. ASSUME NEW d \in Db, AlikeBut(Null), Opens(d) PROVE Native!Next
  <2>1. open' = open \cup {d}
    BY <1>8 DEF Opens, SameDb
  <2>2. Native!Open(d)
    BY <1>3, <1>8, <2>1 DEF Native!Open, Opens, owner
  <2>3. QED
    BY <2>2 DEF Native!Next
<1>9. ASSUME NEW d \in Db, AlikeBut(Null), Closes(d) PROVE Native!Next
  <2>1. open' = open \ {d}
    BY <1>9 DEF Closes, SameDb
  <2>2. \A c \in Child : owner[c] # d
    BY <1>1, <1>9 DEF Closes
  <2>3. Native!Close(d)
    BY <1>3, <1>9, <2>1, <2>2 DEF Native!Close, Closes, owner
  <2>4. QED
    BY <2>3 DEF Native!Next
<1>10. QED
  BY <1>5, <1>6, <1>7, <1>8, <1>9 DEF Effect

\* The extension is a proper client of the native library: it makes iterators
\* and snapshots from open databases only, deletes each of them once, and
\* deletes a database only when none of them is left.
THEOREM ImplementsNative == ASSUME Usage = {} PROVE Spec => ImplementsLifetime
<1>1. Init => Native!Init
  BY HandlesAssumption DEF Init, Native!Init, NewDb, Child
<1>2. IInv /\ [Next]_vars => [Native!Next]_(Native!vars)
  BY NextEffect, NativeStep
<1>3. QED
  BY InvCorrect, <1>1, <1>2, PTL DEF Spec, ImplementsLifetime, Native!Spec

----------------------------------------------------------------------------
(* The two counters of a database and what each of them counts *)

\* The database whose n_iterators counts the iterator i: an iterator being
\* made is not counted yet, one being cleaned is not counted any more.
Counted(i) == IF \E t \in Thread : th[t].cur = i THEN Null ELSE iter[i].db

SnapsOf(d) == {s \in Snap : Parent(s) = d}
ItersOf(d) == {i \in Iter : Counted(i) = d}

SnapCount(d) == db[d].n_snapshots = Cardinality(SnapsOf(d))
IterCount(d) == db[d].n_iterators = Cardinality(ItersOf(d))

SameSnaps(d) == /\ db'[d].n_snapshots = db[d].n_snapshots
                /\ \A s \in Snap : Parent(s)' = d <=> Parent(s) = d
SameIters(d) == /\ db'[d].n_iterators = db[d].n_iterators
                /\ \A i \in Iter : Counted(i)' = d <=> Counted(i) = d

LEMMA CountersSplit ==
  /\ CountersExact <=> \A d \in Db : d \in alloc => SnapCount(d) /\ IterCount(d)
  /\ CountersExact' <=> \A d \in Db : d \in alloc' => SnapCount(d)' /\ IterCount(d)'
<1>1. ASSUME NEW d \in Db
      PROVE  /\ ItersOf(d) = {i \in Iter : iter[i].db = d /\ \A t \in Thread : th[t].cur # i}
             /\ ItersOf(d)' = {i \in Iter : iter'[i].db = d /\ \A t \in Thread : th'[t].cur # i}
  BY HandlesAssumption DEF ItersOf, Counted, Object
<1>2. QED
  BY <1>1 DEF CountersExact, SnapCount, IterCount, SnapsOf

\* A counter that is left alone counts the same children.
LEMMA Keeps ==
  ASSUME NEW d
  PROVE  /\ SnapCount(d) /\ SameSnaps(d) => SnapCount(d)'
         /\ IterCount(d) /\ SameIters(d) => IterCount(d)'
<1>1. SameSnaps(d) => SnapsOf(d)' = SnapsOf(d)
  BY DEF SameSnaps, SnapsOf
<1>2. SameIters(d) => ItersOf(d)' = ItersOf(d)
  BY DEF SameIters, ItersOf
<1>3. QED
  BY <1>1, <1>2 DEF SameSnaps, SameIters, SnapCount, IterCount

LEMMA OthersKeep ==
  ASSUME CountersExact, NEW d,
         \A e \in Db : e \in alloc' /\ e # d => e \in alloc /\ SameSnaps(e) /\ SameIters(e),
         d \in Db /\ d \in alloc' => SnapCount(d)' /\ IterCount(d)'
  PROVE  CountersExact'
BY CountersSplit, Keeps

\* No database is allocated, none that is left changes its counters, and no
\* child changes its database.
LEMMA AllKeep ==
  ASSUME CountersExact, \A e \in Db : e \in alloc' => e \in alloc,
         \A e \in Db : e \in alloc' => /\ db'[e].n_snapshots = db[e].n_snapshots
                                      /\ db'[e].n_iterators = db[e].n_iterators,
         \A s \in Snap : Parent(s)' = Parent(s),
         \A i \in Iter : Counted(i)' = Counted(i)
  PROVE  CountersExact'
BY CountersSplit, Keeps DEF SameSnaps, SameIters

LEMMA Finite ==
  ASSUME NEW d
  PROVE  IsFiniteSet(SnapsOf(d)) /\ IsFiniteSet(ItersOf(d))
<1>1. SnapsOf(d) \subseteq Snap /\ ItersOf(d) \subseteq Iter
  BY DEF SnapsOf, ItersOf
<1>2. QED
  BY <1>1, HandlesAssumption, FS_Subset

\* One child more, one child less.
LEMMA SnapAdded ==
  ASSUME NEW d, SnapCount(d), NEW s \in Snap, Parent(s) # d, Parent(s)' = d,
         \A r \in Snap \ {s} : Parent(r)' = Parent(r),
         db'[d].n_snapshots = db[d].n_snapshots + 1
  PROVE  SnapCount(d)'
<1>1. s \notin SnapsOf(d) /\ \A y : y \in SnapsOf(d)' <=> y \in SnapsOf(d) \/ y = s
  BY DEF SnapsOf
<1>2. Cardinality(SnapsOf(d)') = Cardinality(SnapsOf(d)) + 1
  BY <1>1, Finite, CountAdd
<1>3. QED
  BY <1>2 DEF SnapCount

LEMMA SnapRemoved ==
  ASSUME NEW d, SnapCount(d), NEW s \in Snap, Parent(s) = d, Parent(s)' # d,
         \A r \in Snap \ {s} : Parent(r)' = Parent(r),
         db'[d].n_snapshots = db[d].n_snapshots - 1
  PROVE  SnapCount(d)'
<1>1. s \in SnapsOf(d) /\ \A y : y \in SnapsOf(d)' <=> y \in SnapsOf(d) /\ y # s
  BY DEF SnapsOf
<1>2. Cardinality(SnapsOf(d)') = Cardinality(SnapsOf(d)) - 1
  BY <1>1, Finite, CountDel
<1>3. QED
  BY <1>2 DEF SnapCount

LEMMA IterAdded ==
  ASSUME NEW d, IterCount(d), NEW i \in Iter, Counted(i) # d, Counted(i)' = d,
         \A j \in Iter \ {i} : Counted(j)' = Counted(j),
         db'[d].n_iterators = db[d].n_iterators + 1
  PROVE  IterCount(d)'
<1>1. i \notin ItersOf(d) /\ \A y : y \in ItersOf(d)' <=> y \in ItersOf(d) \/ y = i
  BY DEF ItersOf
<1>2. Cardinality(ItersOf(d)') = Cardinality(ItersOf(d)) + 1
  BY <1>1, Finite, CountAdd
<1>3. QED
  BY <1>2 DEF IterCount

LEMMA IterRemoved ==
  ASSUME NEW d, IterCount(d), NEW i \in Iter, Counted(i) = d, Counted(i)' # d,
         \A j \in Iter \ {i} : Counted(j)' = Counted(j),
         db'[d].n_iterators = db[d].n_iterators - 1
  PROVE  IterCount(d)'
<1>1. i \in ItersOf(d) /\ \A y : y \in ItersOf(d)' <=> y \in ItersOf(d) /\ y # i
  BY DEF ItersOf
<1>2. Cardinality(ItersOf(d)') = Cardinality(ItersOf(d)) - 1
  BY <1>1, Finite, CountDel
<1>3. QED
  BY <1>2 DEF IterCount

----------------------------------------------------------------------------
(* Steps that count nothing *)

LEMMA QuietCounts ==
  ASSUME CountersExact, UNCHANGED alloc,
         \A u \in Thread : th'[u].cur = th[u].cur /\ th'[u].dying = th[u].dying,
         \A s \in Snap : snap'[s].db = snap[s].db,
         \A i \in Iter : iter'[i].db = iter[i].db,
         \A e \in Db : /\ db'[e].n_snapshots = db[e].n_snapshots
                       /\ db'[e].n_iterators = db[e].n_iterators
  PROVE  CountersExact'
<1>1. \A s \in Snap : Parent(s)' = Parent(s)
  BY DEF Parent, Detached
<1>2. \A i \in Iter : Counted(i)' = Counted(i)
  BY DEF Counted
<1>3. QED
  BY <1>1, <1>2, AllKeep

LEMMA OpenCounts ==
  ASSUME IInv, CountersExact, NEW t \in Thread, OpenOk(t) \/ OpenFails(t)
  PROVE  CountersExact'
<1> DEFINE d == th[t].self
<1>1. d \in Db /\ UNCHANGED <<alloc, snap, iter>> /\ \E l : Goto(t, l)
  BY DEF OpenOk, OpenFails, At, IInv, TypeOK, ThreadOK, pyVars
<1>2. \/ db' = [db EXCEPT ![d].native = "live"]
      \/ db' = [db EXCEPT ![d] = [@ EXCEPT !.native = "null", !.aux = "null"]]
  BY DEF OpenOk, OpenFails
<1>3. \A e \in Db : /\ db'[e].n_snapshots = db[e].n_snapshots
                    /\ db'[e].n_iterators = db[e].n_iterators
  <2>1. db[d] \in DbStruct
    BY <1>1 DEF IInv, TypeOK
  <2>2. \A e \in Db : e # d => db'[e] = db[e]
    BY <1>1, <1>2 DEF IInv, TypeOK
  <2>3. \/ db'[d] = [db[d] EXCEPT !.native = "live"]
        \/ db'[d] = [db[d] EXCEPT !.native = "null", !.aux = "null"]
    BY <1>1, <1>2 DEF IInv, TypeOK
  <2>4. db'[d].n_snapshots = db[d].n_snapshots /\ db'[d].n_iterators = db[d].n_iterators
    BY <2>1, <2>3 DEF DbStruct
  <2>5. QED
    BY <2>2, <2>4
<1>4. \A u \in Thread : th'[u].cur = th[u].cur /\ th'[u].dying = th[u].dying
  BY <1>1, Moved DEF IInv
<1>5. QED
  BY <1>1, <1>3, <1>4, QuietCounts

\* Thread t starts or leaves a call that has nothing to clean.
LEMMA TurnCounts ==
  ASSUME IInv, CountersExact, NEW t \in Thread, UNCHANGED <<alloc, db, snap, iter>>,
         NEW n, th' = [th EXCEPT ![t] = n], n.cur = th[t].cur, n.dying = th[t].dying
  PROVE  CountersExact'
<1>1. \A u \in Thread : th'[u].cur = th[u].cur /\ th'[u].dying = th[u].dying
  BY DEF IInv, TypeOK
<1>2. QED
  BY <1>1, QuietCounts

\* Calls that only move on: the children they work on stay linked as they are.
LEMMA MoveCounts ==
  ASSUME IInv, CountersExact, NEW t \in Thread,
         NativeCall(t) \/ PyLevelDBIter_New_fails(t) \/ ReleaseSnapshot(t) \/ Discard(t) \/ Clean(t)
  PROVE  CountersExact'
<1>1. UNCHANGED <<alloc, db>> /\ \E l : Goto(t, l)
  BY DEF NativeCall, PyLevelDBIter_New_fails, ReleaseSnapshot, Discard, Clean, pyVars
<1>2. \A u \in Thread : th'[u].cur = th[u].cur /\ th'[u].dying = th[u].dying
  BY <1>1, Moved DEF IInv
<1>3. /\ snap' = snap \/ snap' = [snap EXCEPT ![th[t].cur].native = Null]
      /\ iter' = iter \/ iter' = [iter EXCEPT ![th[t].cur].native = Null]
  BY DEF NativeCall, PyLevelDBIter_New_fails, ReleaseSnapshot, Discard, Clean
<1>4. \A s \in Snap : snap'[s].db = snap[s].db
  BY <1>3 DEF IInv, TypeOK, SnapStruct
<1>5. \A i \in Iter : iter'[i].db = iter[i].db
  BY <1>3 DEF IInv, TypeOK, IterStruct
<1>6. QED
  BY <1>1, <1>2, <1>4, <1>5, QuietCounts

LEMMA EngineGetCounts ==
  ASSUME IInv, CountersExact, NEW t \in Thread, EngineGet(t)
  PROVE  CountersExact'
<1>1. UNCHANGED <<alloc, db, snap, iter>> /\ th' = [th EXCEPT ![t].pc = "return", ![t].using = Null]
  BY DEF EngineGet, pyVars
<1>2. \A u \in Thread : th'[u].cur = th[u].cur /\ th'[u].dying = th[u].dying
  BY <1>1 DEF IInv, TypeOK, ThreadState
<1>3. QED
  BY <1>1, <1>2, QuietCounts

LEMMA SeekCounts ==
  ASSUME IInv, CountersExact, NEW t \in Thread, Seek(t)
  PROVE  CountersExact'
<1>1. /\ UNCHANGED <<alloc, db, snap>> /\ iter' = [iter EXCEPT ![th[t].cur].native = th[t].using]
      /\ \E l, n : th' = [th EXCEPT ![t].pc = l, ![t].using = n]
  BY DEF Seek, pyVars
<1>2. \A u \in Thread : th'[u].cur = th[u].cur /\ th'[u].dying = th[u].dying
  BY <1>1 DEF IInv, TypeOK, ThreadState
<1>3. \A i \in Iter : iter'[i].db = iter[i].db
  BY <1>1 DEF IInv, TypeOK, IterStruct
<1>4. QED
  BY <1>1, <1>2, <1>3, QuietCounts

LEMMA CloseCounts ==
  ASSUME IInv, CountersExact, NEW t \in Thread, CloseNative(t) \/ CloseAux(t)
  PROVE  CountersExact'
<1> DEFINE d == th[t].dying
<1>1. d \in Db
  BY DEF CloseNative, CloseAux, At, IInv, TypeOK, ThreadOK
<1>2. db' = [db EXCEPT ![d].native = Deleted(@)] \/ db' = [db EXCEPT ![d].aux = Deleted(@)]
  BY DEF CloseNative, CloseAux
<1>3. \A e \in Db : /\ db'[e].n_snapshots = db[e].n_snapshots
                    /\ db'[e].n_iterators = db[e].n_iterators
  BY <1>1, <1>2 DEF IInv, TypeOK, DbStruct
<1>4. /\ UNCHANGED <<alloc, snap, iter>>
      /\ \A u \in Thread : th'[u].cur = th[u].cur /\ th'[u].dying = th[u].dying
  <2>1. CASE CloseNative(t)
    BY <2>1, CloseNativeFields DEF pyVars
  <2>2. CASE CloseAux(t)
    BY <2>2, Moved DEF CloseAux, pyVars, IInv
  <2>3. QED
    BY <2>1, <2>2
<1>5. QED
  BY <1>3, <1>4, QuietCounts

\* What an iterator in the making was, and what an abandoned one will be: a
\* free slot that no database counts.
LEMMA FreeCounts ==
  ASSUME IInv, CountersExact, NEW t \in Thread, NEW i \in Iter, i \notin alloc,
         UNCHANGED <<alloc, db, snap>>, \A j \in Iter : iter'[j].db = iter[j].db,
         \A u \in Thread \ {t} : th'[u] = th[u],
         th[t].dying = Null, th'[t].dying = Null,
         \/ th[t].cur = i /\ th'[t].cur = Null
         \/ th[t].cur = Null /\ th'[t].cur = i
  PROVE  CountersExact'
<1>1. iter[i].db = Null
  BY DEF IInv, AllocOK
<1>2. i \notin Snap /\ Null \notin Snap /\ Null \notin Iter
  BY HandlesAssumption DEF Object
<1>3. \A s \in Snap : Parent(s)' = Parent(s)
  BY <1>2 DEF Parent, Detached
<1>4. \A j \in Iter : Counted(j)' = Counted(j)
  BY <1>1, <1>2 DEF Counted
<1>5. QED
  BY <1>3, <1>4, AllKeep

LEMMA AbandonCounts ==
  ASSUME IInv, CountersExact, NEW t \in Thread, Abandon(t)
  PROVE  CountersExact'
<1> DEFINE i == th[t].cur
<1>1. th[t].pc = "abandon" /\ i \in Iter /\ th[t].dying = Null /\ i # Null
  BY HandlesAssumption DEF Abandon, At, IInv, TypeOK, ThreadOK, Object
<1>2. i \notin alloc
  BY <1>1 DEF IInv, AllocOK, ThreadAlloc, Making
<1>3. /\ UNCHANGED <<alloc, db, snap>> /\ iter' = [iter EXCEPT ![i].native = Null]
      /\ th' = [th EXCEPT ![t] = [Idle EXCEPT !.pc = "return", !.self = th[t].self]]
  BY DEF Abandon, pyVars
<1>4. \A j \in Iter : iter'[j].db = iter[j].db
  BY <1>3 DEF IInv, TypeOK, IterStruct
<1>5. \A u \in Thread \ {t} : th'[u] = th[u]
  BY <1>3 DEF IInv, TypeOK
<1>6. th'[t].cur = Null /\ th'[t].dying = Null
  BY <1>3 DEF IInv, TypeOK, Idle
<1>7. QED
  BY <1>1, <1>2, <1>3, <1>4, <1>5, <1>6, FreeCounts

LEMMA RangeIterCounts ==
  ASSUME IInv, CountersExact, NEW t \in Thread, NEW o, NEW i \in Iter, PyLevelDB_RangeIter(t, o, i)
  PROVE  CountersExact'
<1>1. th[t].cur = Null /\ th[t].dying = Null /\ i \notin alloc
  BY DEF PyLevelDB_RangeIter, At, IInv, TypeOK, ThreadOK, Idle
<1>2. UNCHANGED <<alloc, db, snap, iter>>
  BY DEF PyLevelDB_RangeIter
<1>3. \A u \in Thread \ {t} : th'[u] = th[u]
  BY DEF PyLevelDB_RangeIter, IInv, TypeOK
<1>4. th'[t].cur = i /\ th'[t].dying = Null
  BY DEF PyLevelDB_RangeIter, IInv, TypeOK, Idle
<1>5. QED
  BY <1>1, <1>2, <1>3, <1>4, FreeCounts

----------------------------------------------------------------------------
(* Steps that count *)

\* Thread t starts to clean the iterator i, which is counted down if it was
\* counted.
LEMMA ForgetCounts ==
  ASSUME IInv, CountersExact, NEW t \in Thread, NEW i \in Iter,
         \A u \in Thread : th[u].cur # i,
         UNCHANGED <<alloc, snap, iter>>, db' = Forget(i),
         \A u \in Thread \ {t} : th'[u] = th[u],
         th[t].cur = Null, th'[t].cur = i, th'[t].dying = Null
  PROVE  CountersExact'
<1> DEFINE d == iter[i].db
<1>1. i \notin Snap /\ Null \notin Snap /\ Null \notin Iter /\ Null \notin Db
  BY HandlesAssumption DEF Object
<1>2. \A s \in Snap : Parent(s)' = Parent(s)
  BY <1>1 DEF Parent, Detached
<1>3. \A j \in Iter \ {i} : Counted(j)' = Counted(j)
  BY <1>1 DEF Counted
<1>4. Counted(i) = d /\ Counted(i)' = Null
  BY DEF Counted
<1>5. CASE d = Null
  <2>1. db' = db
    BY <1>5 DEF Forget
  <2>2. \A j \in Iter : Counted(j)' = Counted(j)
    BY <1>3, <1>4, <1>5
  <2>3. QED
    BY <1>2, <2>1, <2>2, AllKeep
<1>6. CASE d # Null
  <2>1. d \in Db /\ db' = [db EXCEPT ![d].n_iterators = @ - 1]
    BY <1>6 DEF Forget, IInv, TypeOK, IterStruct
  <2>2. db[d] \in DbStruct /\ \A e \in Db : e # d => db'[e] = db[e]
    BY <2>1 DEF IInv, TypeOK
  <2>3. /\ db'[d].n_iterators = db[d].n_iterators - 1
        /\ db'[d].n_snapshots = db[d].n_snapshots
    BY <2>1, <2>2 DEF IInv, TypeOK, DbStruct
  <2>4. \A e \in Db : e # d => SameSnaps(e) /\ SameIters(e)
    BY <1>1, <1>2, <1>3, <1>4, <2>2 DEF SameSnaps, SameIters
  <2>5. ASSUME d \in alloc PROVE SnapCount(d)' /\ IterCount(d)'
    <3>1. SnapCount(d) /\ IterCount(d)
      BY <2>1, <2>5, CountersSplit
    <3>2. SnapCount(d)'
      BY <1>2, <2>3, <3>1, Keeps DEF SameSnaps
    <3>3. IterCount(d)'
      BY <1>3, <1>4, <1>6, <2>3, <3>1, IterRemoved
    <3>4. QED
      BY <3>2, <3>3
  <2>6. QED
    BY <2>4, <2>5, OthersKeep
<1>7. QED
  BY <1>5, <1>6

LEMMA NextEndCounts ==
  ASSUME IInv, CountersExact, Usage = {}, NEW t \in Thread, NEW i \in Iter,
         PyLevelDBIter_next_end(t, i)
  PROVE  CountersExact'
<1>1. /\ i \in named \cap Iter /\ Unshared(i) /\ db' = Forget(i) /\ UNCHANGED <<alloc, snap, iter>>
      /\ th' = [th EXCEPT ![t] = [Idle EXCEPT !.pc = "clean", !.self = i, !.cur = i]]
  BY DEF PyLevelDBIter_next_end
<1>2. \A u \in Thread : th[u].cur # i
  BY <1>1, IterHeld
<1>3. \A u \in Thread \ {t} : th'[u] = th[u]
  BY <1>1 DEF IInv, TypeOK
<1>4. th'[t].cur = i /\ th'[t].dying = Null
  BY <1>1 DEF IInv, TypeOK, Idle
<1>5. th[t].cur = Null
  BY DEF PyLevelDBIter_next_end, At, IInv, TypeOK, ThreadOK, Idle
<1>6. QED
  BY <1>1, <1>2, <1>3, <1>4, <1>5, ForgetCounts

\* Thread t gives back the reference x to o: only an iterator that this
\* deallocates is counted.
LEMMA DecRefCounts ==
  ASSUME IInv, CountersExact, NEW t \in Thread, NEW o \in Object, NEW x \in Refs(o), x = t \/ x = o,
         th[t].cur = Null, th[t].dying = Null, DecRef(t, o), UNCHANGED <<alloc, snap, iter>>
  PROVE  CountersExact'
<1>1. /\ th' = [th EXCEPT ![t] = IF rc[o] = 1 THEN Dealloc(o) ELSE Idle]
      /\ db' = IF rc[o] = 1 /\ o \in Iter THEN Forget(o) ELSE db
  BY DEF DecRef
<1>2. /\ \A u \in Thread \ {t} : th'[u] = th[u]
      /\ rc[o] = 1 => th'[t] = Dealloc(o)
      /\ rc[o] # 1 => th'[t] = Idle
  BY <1>1 DEF IInv, TypeOK
<1>3. CASE rc[o] # 1
  <2>1. db' = db /\ th'[t].cur = Null /\ th'[t].dying = Null
    BY <1>1, <1>2, <1>3 DEF Idle
  <2>2. QED
    BY <1>2, <2>1, QuietCounts
<1>4. CASE rc[o] = 1 /\ o \in Iter
  <2>1. ASSUME NEW u \in Thread, th[u].cur = o PROVE FALSE
    <3>1. th[u].self = o
      BY <2>1, Protected
    <3>2. u \in Refs(o)
      BY <3>1, OwnersOf DEF IInv, Owns
    <3>3. u = x
      BY <1>4, <3>2, LastOwner DEF IInv
    <3>4. QED
      BY <2>1, <3>3, HandlesAssumption DEF Object
  <2>2. th'[t].cur = o /\ th'[t].dying = Null /\ db' = Forget(o)
    BY <1>1, <1>2, <1>4, DeallocFields
  <2>3. QED
    BY <1>2, <1>4, <2>1, <2>2, ForgetCounts
<1>5. CASE rc[o] = 1 /\ o \notin Iter
  <2>1. db' = db
    BY <1>1, <1>5
  <2>2. /\ o \in Db => th'[t].cur = Null
        /\ o \in Snap => th'[t].cur = o /\ th'[t].dying = Null
    BY <1>2, <1>5, HandlesAssumption DEF Dealloc, Idle, Child
  <2>3. Null \notin Snap /\ Null \notin Iter /\ o \in Db \cup Snap
    BY <1>5, HandlesAssumption DEF Object
  <2>4. \A s \in Snap : Parent(s)' = Parent(s)
    BY <1>2, <2>2, <2>3 DEF Parent, Detached
  <2>5. \A i \in Iter : Counted(i)' = Counted(i)
    BY <1>2, <1>5, <2>2, <2>3 DEF Counted
  <2>6. QED
    BY <2>1, <2>4, <2>5, AllKeep
<1>6. QED
  BY <1>3, <1>4, <1>5

LEMMA GiveBackCounts ==
  ASSUME IInv, CountersExact, NEW t \in Thread, Return(t) \/ \E o \in Object : Drop(t, o)
  PROVE  CountersExact'
<1>1. CASE Return(t)
  <2>1. th[t].self \in Object /\ th[t].cur = Null /\ th[t].dying = Null
    BY <1>1 DEF Return, At, IInv, TypeOK, ThreadOK, CallsOK, CallOK, Closing
  <2>2. t \in Refs(th[t].self)
    BY <2>1, OwnersOf DEF IInv, Owns
  <2>3. DecRef(t, th[t].self) /\ UNCHANGED <<alloc, snap, iter>>
    BY <1>1 DEF Return
  <2>4. QED
    BY <2>1, <2>2, <2>3, DecRefCounts
<1>2. ASSUME NEW o \in Object, Drop(t, o) PROVE CountersExact'
  <2>1. o \in named /\ th[t].cur = Null /\ th[t].dying = Null
    BY <1>2 DEF Drop, At, IInv, TypeOK, ThreadOK, Idle
  <2>2. o \in Refs(o)
    BY <2>1, OwnersOf DEF IInv, Owns
  <2>3. DecRef(t, o) /\ UNCHANGED <<alloc, snap, iter>>
    BY <1>2 DEF Drop
  <2>4. QED
    BY <2>1, <2>2, <2>3, DecRefCounts
<1>3. QED
  BY <1>1, <1>2

\* A new database has no children, whatever lived in its slot before.
LEMMA NewCounts ==
  ASSUME IInv, CountersExact, NEW t \in Thread, NEW d \in Db, PyLevelDB_new(t, d)
  PROVE  CountersExact'
<1>1. /\ d \notin alloc /\ alloc' = alloc \cup {d} /\ UNCHANGED <<snap, iter>>
      /\ db' = [db EXCEPT ![d] = [NewDb EXCEPT !.aux = "live"]]
      /\ th' = [th EXCEPT ![t] = [Idle EXCEPT !.pc = "open", !.self = d]]
  BY DEF PyLevelDB_new
<1>2. th[t].cur = Null /\ th[t].dying = Null
  BY DEF PyLevelDB_new, At, IInv, TypeOK, ThreadOK, Idle
<1>3. \A u \in Thread : th'[u].cur = th[u].cur /\ th'[u].dying = th[u].dying
  BY <1>1, <1>2 DEF IInv, TypeOK, Idle
<1>4. \A s \in Snap : Parent(s)' = Parent(s)
  BY <1>1, <1>3 DEF Parent, Detached
<1>5. \A i \in Iter : Counted(i)' = Counted(i)
  BY <1>1, <1>3 DEF Counted
<1>6. Null # d /\ Iter \cap Snap = {}
  BY HandlesAssumption DEF Object
<1>7. \A s \in Snap : Parent(s) # d
  BY <1>1, <1>6, ParentHeld DEF Child
<1>8. ASSUME NEW i \in Iter, Counted(i) = d PROVE FALSE
  <2>1. Parent(i) = d
    BY <1>6, <1>8 DEF Counted, Parent, Detached
  <2>2. QED
    BY <1>1, <1>6, <2>1, ParentHeld DEF Child
<1>9. SnapsOf(d)' = {} /\ ItersOf(d)' = {}
  BY <1>4, <1>5, <1>7, <1>8 DEF SnapsOf, ItersOf
<1>10. db'[d].n_snapshots = 0 /\ db'[d].n_iterators = 0
  BY <1>1 DEF IInv, TypeOK, NewDb
<1>11. SnapCount(d)' /\ IterCount(d)'
  BY <1>9, <1>10, FS_EmptySet DEF SnapCount, IterCount
<1>12. \A e \in Db : e # d => db'[e] = db[e]
  BY <1>1 DEF IInv, TypeOK
<1>13. QED
  BY <1>1, <1>4, <1>5, <1>11, <1>12, OthersKeep DEF SameSnaps, SameIters

LEMMA SnapshotNewCounts ==
  ASSUME IInv, CountersExact, NEW t \in Thread, NEW d \in Db, NEW s \in Snap,
         PyLevelDBSnapshot_New(t, d, s)
  PROVE  CountersExact'
<1>1. /\ d \in named \cap Db /\ s \notin alloc /\ alloc' = alloc \cup {s} /\ UNCHANGED <<iter, th>>
      /\ snap' = [snap EXCEPT ![s] = [db |-> d, native |-> d]]
      /\ db' = [db EXCEPT ![d].n_snapshots = @ + 1]
  BY DEF PyLevelDBSnapshot_New
<1>2. snap[s].db = Null /\ d # Null /\ s \notin Db
  BY <1>1, HandlesAssumption DEF IInv, AllocOK, Object, Child
<1>3. \A u \in Thread : th[u].cur # s
  BY <1>2 DEF IInv, SnapsOK, ThreadSnap
<1>4. snap'[s].db = d /\ \A r \in Snap \ {s} : snap'[r] = snap[r]
  BY <1>1 DEF IInv, TypeOK
<1>5. Parent(s) = Null /\ Parent(s)' = d
  BY <1>1, <1>2, <1>3, <1>4 DEF Parent, Detached
<1>6. \A r \in Snap \ {s} : Parent(r)' = Parent(r)
  BY <1>1, <1>4 DEF Parent, Detached
<1>7. \A i \in Iter : Counted(i)' = Counted(i)
  BY <1>1 DEF Counted
<1>8. db[d] \in DbStruct /\ \A e \in Db : e # d => db'[e] = db[e]
  BY <1>1 DEF IInv, TypeOK
<1>9. /\ db'[d].n_snapshots = db[d].n_snapshots + 1
      /\ db'[d].n_iterators = db[d].n_iterators
  BY <1>1, <1>8 DEF IInv, TypeOK, DbStruct
<1>10. Null \notin Db
  BY HandlesAssumption DEF Object
<1>11. \A e \in Db : e \in alloc' /\ e # d => e \in alloc /\ SameSnaps(e) /\ SameIters(e)
  BY <1>1, <1>2, <1>5, <1>6, <1>7, <1>8, <1>10 DEF SameSnaps, SameIters
<1>12. SnapCount(d) /\ IterCount(d)
  BY <1>1, NamedHeld, CountersSplit
<1>13. SnapCount(d)'
  BY <1>2, <1>5, <1>6, <1>9, <1>12, SnapAdded
<1>14. IterCount(d)'
  BY <1>7, <1>9, <1>12, Keeps DEF SameIters
<1>15. QED
  BY <1>11, <1>13, <1>14, OthersKeep

LEMMA IterNewCounts ==
  ASSUME IInv, CountersExact, NEW t \in Thread, PyLevelDBIter_New(t),
         NEW i, i = th[t].cur, NEW d, d = IterRef(t)
  PROVE  CountersExact'
<1>1. /\ th[t].pc = "make" /\ i \in Iter /\ i # Null /\ i \notin Snap /\ i \notin Db
      /\ th[t].dying = Null
  BY HandlesAssumption DEF PyLevelDBIter_New, At, IInv, TypeOK, ThreadOK, Object, Child
<1>2. /\ alloc' = alloc \cup {i} /\ UNCHANGED snap /\ iter' = [iter EXCEPT ![i].db = d]
      /\ th' = [th EXCEPT ![t] = [Idle EXCEPT !.pc = "return", !.self = th[t].self]]
  BY DEF PyLevelDBIter_New
<1>3. d = Null \/ d \in Db
  BY <1>1, CallUp DEF IterRef, Making
<1>4. \A u \in Thread \ {t} : th'[u] = th[u] /\ th[u].cur # i
  BY <1>1, <1>2 DEF IInv, TypeOK, Exclusive
<1>5. th'[t].cur = Null /\ th'[t].dying = Null
  BY <1>2 DEF IInv, TypeOK, Idle
<1>6. iter'[i].db = d /\ \A j \in Iter \ {i} : iter'[j] = iter[j]
  BY <1>1, <1>2 DEF IInv, TypeOK, IterStruct
<1>7. Null \notin Snap /\ Null \notin Iter /\ Null \notin Db
  BY HandlesAssumption DEF Object
<1>8. \A s \in Snap : Parent(s)' = Parent(s)
  BY <1>1, <1>2, <1>4, <1>5 DEF Parent, Detached
<1>9. \A j \in Iter \ {i} : Counted(j)' = Counted(j)
  BY <1>4, <1>5, <1>6, <1>7 DEF Counted
<1>10. Counted(i) = Null
  BY DEF Counted
<1>11. Counted(i)' = d
  BY <1>1, <1>4, <1>5, <1>6 DEF Counted
<1>12. CASE d = Null
  <2>1. db' = db
    BY <1>12 DEF PyLevelDBIter_New
  <2>2. \A j \in Iter : Counted(j)' = Counted(j)
    BY <1>9, <1>10, <1>11, <1>12
  <2>3. QED
    BY <1>1, <1>2, <1>8, <2>1, <2>2, AllKeep
<1>13. CASE d # Null
  <2>1. d \in Db /\ db' = [db EXCEPT ![d].n_iterators = @ + 1]
    BY <1>3, <1>13 DEF PyLevelDBIter_New
  <2>2. db[d] \in DbStruct /\ \A e \in Db : e # d => db'[e] = db[e]
    BY <2>1 DEF IInv, TypeOK
  <2>3. /\ db'[d].n_iterators = db[d].n_iterators + 1
        /\ db'[d].n_snapshots = db[d].n_snapshots
    BY <2>1, <2>2 DEF IInv, TypeOK, DbStruct
  <2>4. \A e \in Db : e \in alloc' /\ e # d => e \in alloc /\ SameSnaps(e) /\ SameIters(e)
    BY <1>1, <1>2, <1>7, <1>8, <1>9, <1>10, <1>11, <2>2 DEF SameSnaps, SameIters
  <2>5. ASSUME d \in alloc' PROVE SnapCount(d)' /\ IterCount(d)'
    <3>1. SnapCount(d) /\ IterCount(d)
      BY <1>1, <1>2, <2>1, <2>5, CountersSplit
    <3>2. SnapCount(d)'
      BY <1>8, <2>3, <3>1, Keeps DEF SameSnaps
    <3>3. IterCount(d)'
      BY <1>1, <1>9, <1>10, <1>11, <1>13, <2>3, <3>1, IterAdded
    <3>4. QED
      BY <3>2, <3>3
  <2>6. QED
    BY <2>4, <2>5, OthersKeep
<1>14. QED
  BY <1>12, <1>13

\* Thread t has cleaned the child c, which no counter counts any more.
LEMMA FinishCounted ==
  ASSUME IInv, NEW t \in Thread, NEW c, c = th[t].cur, NEW gone, Finish(t, gone)
  PROVE  /\ \A s \in Snap : Parent(s)' = IF s = c THEN Null ELSE Parent(s)
         /\ \A i \in Iter : Counted(i)' = Counted(i)
         /\ \A x : x \in alloc' <=> x \in alloc /\ x \notin gone /\ (th[t].self = Null => x # c)
<1>1. /\ \A u \in Thread \ {t} : th'[u] = th[u]
      /\ th'[t].cur = Null
      /\ \A x : x \in alloc' <=> x \in alloc /\ x \notin gone /\ (th[t].self = Null => x # c)
      /\ \A i \in Iter : iter'[i].db = IF i = c THEN Null ELSE iter[i].db
      /\ \A s \in Snap : snap'[s].db = IF s = c THEN Null ELSE snap[s].db
  BY FinishFields DEF IInv
<1>2. Null \notin Snap /\ Null \notin Iter
  BY HandlesAssumption DEF Object
<1>3. \A s \in Snap : Parent(s)' = IF s = c THEN Null ELSE Parent(s)
  BY <1>1, <1>2 DEF Parent, Detached
<1>4. \A i \in Iter : Counted(i)' = Counted(i)
  BY <1>1, <1>2 DEF Counted
<1>5. QED
  BY <1>1, <1>3, <1>4

\* The cleanup of the child c gives the database d back.
LEMMA ParentCounted ==
  ASSUME IInv, NEW t \in Thread, NEW c \in Child, c = th[t].cur, NEW d, ReleaseParent(t, d)
  PROVE  /\ \A s \in Snap : Parent(s)' = IF s = c THEN Null ELSE Parent(s)
         /\ \A i \in Iter : Counted(i)' = Counted(i)
         /\ \A e \in Db : e \in alloc' <=> e \in alloc
<1>1. CASE Finish(t, {})
  <2>1. \A e \in Db : e # c
    BY HandlesAssumption
  <2>2. QED
    BY <1>1, <2>1, FinishCounted
<1>2. CASE /\ d # Null /\ UNCHANGED <<alloc, iter, snap>>
           /\ th' = [th EXCEPT ![t].pc = "close", ![t].dying = d]
  <2>1. /\ \A u \in Thread \ {t} : th'[u] = th[u]
        /\ th'[t].cur = c /\ th'[t].dying = d
    BY <1>2 DEF IInv, TypeOK, ThreadState
  <2>2. \A s \in Snap : Parent(s)' = IF s = c THEN Null ELSE Parent(s)
    BY <1>2, <2>1 DEF Parent, Detached
  <2>3. \A i \in Iter : Counted(i)' = Counted(i)
    BY <1>2, <2>1 DEF Counted
  <2>4. QED
    BY <1>2, <2>2, <2>3
<1>3. QED
  BY <1>1, <1>2 DEF ReleaseParent

LEMMA IterCleanCounts ==
  ASSUME IInv, CountersExact, NEW t \in Thread, NEW c, c = th[t].cur, PyLevelDBIter_clean(t)
  PROVE  CountersExact'
<1>1. c \in Iter /\ c \in Child /\ c \notin Snap
  BY HandlesAssumption DEF PyLevelDBIter_clean, At, IInv, TypeOK, ThreadOK, Child
<1>2. db' = db /\ ReleaseParent(t, iter[c].db)
  BY DEF PyLevelDBIter_clean
<1>3. /\ \A s \in Snap : Parent(s)' = IF s = c THEN Null ELSE Parent(s)
      /\ \A i \in Iter : Counted(i)' = Counted(i)
      /\ \A e \in Db : e \in alloc' <=> e \in alloc
  BY <1>1, <1>2, ParentCounted
<1>4. QED
  BY <1>1, <1>2, <1>3, AllKeep

LEMMA SnapshotDeallocCounts ==
  ASSUME IInv, CountersExact, NEW t \in Thread, PyLevelDBSnapshot_dealloc(t),
         NEW c, c = th[t].cur, NEW d, d = snap[c].db
  PROVE  CountersExact'
<1>1. th[t].pc = "unsnap" /\ c \in Snap /\ c \in Child /\ th[t].dying = Null
  BY DEF PyLevelDBSnapshot_dealloc, At, IInv, TypeOK, ThreadOK, Child
<1>2. d # Null /\ d \in Db
  BY <1>1 DEF IInv, TypeOK, SnapsOK, ThreadSnap, SnapStruct
<1>3. db' = [db EXCEPT ![d].n_snapshots = @ - 1] /\ ReleaseParent(t, d)
  BY <1>2 DEF PyLevelDBSnapshot_dealloc
<1>4. /\ \A s \in Snap : Parent(s)' = IF s = c THEN Null ELSE Parent(s)
      /\ \A i \in Iter : Counted(i)' = Counted(i)
      /\ \A e \in Db : e \in alloc' <=> e \in alloc
  BY <1>1, <1>3, ParentCounted
<1>5. Parent(c) = d
  BY <1>1, CurHeld
<1>6. db[d] \in DbStruct /\ \A e \in Db : e # d => db'[e] = db[e]
  BY <1>2, <1>3 DEF IInv, TypeOK
<1>7. /\ db'[d].n_snapshots = db[d].n_snapshots - 1
      /\ db'[d].n_iterators = db[d].n_iterators
  BY <1>2, <1>3, <1>6 DEF IInv, TypeOK, DbStruct
<1>8. Null \notin Db
  BY HandlesAssumption DEF Object
<1>9. \A e \in Db : e \in alloc' /\ e # d => e \in alloc /\ SameSnaps(e) /\ SameIters(e)
  BY <1>4, <1>5, <1>6, <1>8 DEF SameSnaps, SameIters
<1>10. ASSUME d \in alloc' PROVE SnapCount(d)' /\ IterCount(d)'
  <2>1. SnapCount(d) /\ IterCount(d)
    BY <1>2, <1>4, <1>10, CountersSplit
  <2>2. Parent(c)' = Null /\ \A r \in Snap \ {c} : Parent(r)' = Parent(r)
    BY <1>1, <1>4
  <2>3. SnapCount(d)'
    BY <1>1, <1>2, <1>5, <1>7, <2>1, <2>2, SnapRemoved
  <2>4. IterCount(d)'
    BY <1>4, <1>7, <2>1, Keeps DEF SameIters
  <2>5. QED
    BY <2>3, <2>4
<1>11. QED
  BY <1>9, <1>10, OthersKeep

\* The database freed counted for nobody, and its slot will be counted anew.
LEMMA DbDeallocCounts ==
  ASSUME IInv, CountersExact, NEW t \in Thread, PyLevelDB_dealloc(t),
         NEW c, c = th[t].cur, NEW d, d = th[t].dying
  PROVE  CountersExact'
<1>1. d \in Db /\ d # Null
  BY HandlesAssumption DEF PyLevelDB_dealloc, At, IInv, TypeOK, ThreadOK, Object
<1>2. db' = [db EXCEPT ![d] = NewDb] /\ Finish(t, {d})
  BY DEF PyLevelDB_dealloc
<1>3. /\ \A s \in Snap : Parent(s)' = IF s = c THEN Null ELSE Parent(s)
      /\ \A i \in Iter : Counted(i)' = Counted(i)
      /\ \A x : x \in alloc' => x \in alloc /\ x # d
  BY <1>2, FinishCounted
<1>4. \A s \in Snap : s = c => Parent(s) = Null
  BY <1>1 DEF Parent, Detached
<1>5. \A e \in Db : e # d => db'[e] = db[e]
  BY <1>2 DEF IInv, TypeOK
<1>6. \A s \in Snap : Parent(s)' = Parent(s)
  BY <1>3, <1>4
<1>7. QED
  BY <1>3, <1>5, <1>6, AllKeep

----------------------------------------------------------------------------
(* The counters are exact *)

LEMMA StepCounts ==
  ASSUME IInv, CountersExact, NEW t \in Thread, Step(t)
  PROVE  CountersExact'
<1>1. ~ PyLevelDB_init(t) /\ ~ PyLevelDBSnapshot_init(t)
  BY DEF PyLevelDB_init, PyLevelDBSnapshot_init, At, IInv, CallsOK, CallOK, TypeOK, ThreadOK, Closing
<1>2. CASE Opened(t)
  <2>1. th[t].cur = Null /\ th[t].dying = Null
    BY <1>2 DEF Opened, At, IInv, TypeOK, ThreadOK, CallsOK, CallOK, Closing
  <2>2. Idle.cur = Null /\ Idle.dying = Null
    BY DEF Idle
  <2>3. th' = [th EXCEPT ![t] = Idle] /\ UNCHANGED <<alloc, db, snap, iter>>
    BY <1>2 DEF Opened
  <2>4. QED
    BY <2>1, <2>2, <2>3, TurnCounts
<1>3. QED
  BY <1>1, <1>2, OpenCounts, MoveCounts, EngineGetCounts, SeekCounts, CloseCounts, AbandonCounts,
     GiveBackCounts, IterNewCounts, IterCleanCounts, SnapshotDeallocCounts, DbDeallocCounts DEF Step

LEMMA CallCounts ==
  ASSUME IInv, CountersExact, Usage = {}, NEW t \in Thread, Call(t)
  PROVE  CountersExact'
<1>1. ASSUME NEW d \in Db, MethodCall(t, d) PROVE CountersExact'
  <2> DEFINE n == [Idle EXCEPT !.pc = "native", !.self = d]
  <2>1. th[t].cur = Null /\ th[t].dying = Null
    BY <1>1 DEF MethodCall, At, IInv, TypeOK, ThreadOK, Idle
  <2>2. n.cur = Null /\ n.dying = Null
    BY DEF Idle
  <2>3. UNCHANGED <<alloc, db, snap, iter>> /\ th' = [th EXCEPT ![t] = n]
    BY <1>1 DEF MethodCall
  <2>4. QED
    BY <2>1, <2>2, <2>3, TurnCounts
<1>2. ASSUME NEW o \in Db \cup Snap, PyLevelDB_Get(t, o) PROVE CountersExact'
  <2> DEFINE n == [Idle EXCEPT !.pc = "get", !.self = o,
                     !.using = IF Reach(o) = "none" THEN DbOf(o)
                               ELSE IF Reach(o) = "null" THEN Null ELSE Orphan]
  <2>1. th[t].cur = Null /\ th[t].dying = Null
    BY <1>2 DEF PyLevelDB_Get, At, IInv, TypeOK, ThreadOK, Idle
  <2>2. n.cur = Null /\ n.dying = Null
    BY DEF Idle
  <2>3. UNCHANGED <<alloc, db, snap, iter>> /\ th' = [th EXCEPT ![t] = n]
    BY <1>2 DEF PyLevelDB_Get
  <2>4. QED
    BY <2>1, <2>2, <2>3, TurnCounts
<1>3. CASE (\E d \in Db : PyLevelDB_GetStatus(t, d)) \/ (\E i \in Iter : PyLevelDBIter_next_item(t, i))
  <2>1. UNCHANGED <<alloc, db, snap, iter, th>>
    BY <1>3 DEF PyLevelDB_GetStatus, PyLevelDBIter_next_item, pyVars
  <2>2. QED
    BY <2>1, QuietCounts
<1>4. ASSUME NEW s \in Snap
      PROVE  /\ ~ PyLevelDBSnapshot_init_fails(t, s)
             /\ \A d : ~ PyLevelDBSnapshot_reinit(t, s, d) /\ ~ PyLevelDBSnapshot_reinit_closes(t, s, d)
  BY DEF PyLevelDBSnapshot_init_fails, PyLevelDBSnapshot_reinit, PyLevelDBSnapshot_reinit_closes, CanReset
<1>5. \A d : ~ PyLevelDB_reinit(t, d)
  BY DEF PyLevelDB_reinit
<1>6. QED
  BY <1>1, <1>2, <1>3, <1>4, <1>5, NewCounts, RangeIterCounts, GiveBackCounts, SnapshotNewCounts,
     NextEndCounts DEF Call

\* n_snapshots and n_iterators, which every constructor and every cleanup
\* keeps up by hand, are the numbers of snapshots and iterators that are linked
\* to the LevelDB object, however many threads make, use, clean and drop them.
THEOREM CountersCorrect == ASSUME Usage = {} PROVE Spec => []CountersExact
<1>1. Init => CountersExact
  BY DEF Init, CountersExact
<1>2. IInv /\ CountersExact /\ [Next]_vars => CountersExact'
  <2> SUFFICES ASSUME IInv, CountersExact, [Next]_vars PROVE CountersExact'
    OBVIOUS
  <2>1. CASE Next
    BY <2>1, StepCounts, CallCounts DEF Next
  <2>2. CASE UNCHANGED vars
    BY <2>2, QuietCounts DEF vars
  <2>3. QED
    BY <2>1, <2>2
<1>3. QED
  BY <1>1, <1>2, InvCorrect, PTL DEF Spec
=============================================================================

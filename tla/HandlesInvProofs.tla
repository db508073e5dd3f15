-------------------------- MODULE HandlesInvProofs --------------------------
(***************************************************************************)
(* The invariants of module Handles hold for any number of threads and     *)
(* objects: its type invariant, whatever the program does, and, for        *)
(* programs that make no unusual use of the API, that of HandlesInv.       *)
(***************************************************************************)
EXTENDS HandlesInv, FiniteSetTheorems, TLAPS

----------------------------------------------------------------------------
(* The type invariant *)

\* A thread's state by cases on its label: what the type invariant says of it.
LEMMA ThreadType ==
  ASSUME TypeOK, NEW t \in Thread
  PROVE  th[t] \in ThreadState /\ ThreadOK(th[t])
BY DEF TypeOK

\* Dereferencing a pointer yields a fault, if anything.
LEMMA DerefType ==
  ASSUME NEW p \in Pointer
  PROVE  Deref(p) \in {"none", "null", "dangling"} /\ Deleted(p) \in Pointer
BY DEF Deref, Deleted, Pointer

LEMMA DbPointerType ==
  ASSUME TypeOK, NEW d \in Db \cup {Null}
  PROVE  DbPointer(d) \in Pointer
BY DEF TypeOK, DbPointer, DbStruct, Pointer

LEMMA ReachType ==
  ASSUME TypeOK, NEW o \in Db \cup Snap
  PROVE  /\ DbOf(o) \in Db \cup {Null}
         /\ Reach(o) \in {"none", "null", "dangling"}
<1>1. DbOf(o) \in Db \cup {Null}
  BY DEF TypeOK, DbOf, SnapStruct
<1>2. Deref(DbPointer(DbOf(o))) \in {"none", "null", "dangling"}
  BY <1>1, DbPointerType, DerefType
<1>3. o \in Snap => ChildPointer(snap[o].native, snap[o].db) \in Pointer
  BY DEF ChildPointer, Pointer
<1>4. QED
  BY <1>1, <1>2, <1>3, DerefType DEF Reach, Both

LEMMA DeallocType ==
  ASSUME TypeOK, NEW o \in Object
  PROVE  Dealloc(o) \in ThreadState /\ ThreadOK(Dealloc(o))
<1> USE HandlesAssumption DEF Dealloc, ThreadState, ThreadOK, Idle, Labels
<1>1. CASE o \in Db
  BY <1>1 DEF Child
<1>2. CASE o \in Snap
  BY <1>2 DEF Child
<1>3. CASE o \in Iter
  BY <1>3 DEF Child
<1>4. QED
  BY <1>1, <1>2, <1>3 DEF Object, Child

LEMMA IdleType == Idle \in ThreadState /\ ThreadOK(Idle)
BY DEF Idle, ThreadState, ThreadOK, Labels

LEMMA ForgetType ==
  ASSUME TypeOK, NEW i \in Iter
  PROVE  Forget(i) \in [Db -> DbStruct]
BY DEF TypeOK, Forget, DbStruct, IterStruct

\* Py_DECREF and what a deallocation starts with.
LEMMA DecRefType ==
  ASSUME TypeOK, NEW t \in Thread, NEW o \in Object, DecRef(t, o)
  PROVE  /\ rc' \in [Object -> Int]
         /\ db' \in [Db -> DbStruct]
         /\ th' \in [Thread -> ThreadState] /\ \A u \in Thread : ThreadOK(th'[u])
<1>1. rc' \in [Object -> Int]
  BY DEF TypeOK, DecRef
<1>2. db' \in [Db -> DbStruct]
  BY ForgetType DEF TypeOK, DecRef
<1>3. th' \in [Thread -> ThreadState] /\ \A u \in Thread : ThreadOK(th'[u])
  BY DeallocType, IdleType DEF TypeOK, DecRef
<1>4. QED
  BY <1>1, <1>2, <1>3

\* Finish and ReleaseParent run at the end of a cleanup.
LEMMA FinishType ==
  ASSUME TypeOK, NEW t \in Thread, NEW gone, Finish(t, gone),
         th[t].cur # Null \/ gone \subseteq Object,
         th[t].self = Null \/ th[t].self = th[t].cur \/ th[t].cur = Null
  PROVE  /\ alloc' \subseteq Object
         /\ iter' \in [Iter -> IterStruct] /\ snap' \in [Snap -> SnapStruct]
         /\ th' \in [Thread -> ThreadState] /\ \A u \in Thread : ThreadOK(th'[u])
<1>1. alloc' \subseteq Object
  BY DEF TypeOK, Finish
<1>2. iter' \in [Iter -> IterStruct] /\ snap' \in [Snap -> SnapStruct]
  BY DEF TypeOK, Finish, IterStruct, SnapStruct
<1>3. th' \in [Thread -> ThreadState] /\ \A u \in Thread : ThreadOK(th'[u])
  <2>1. th[t].self # Null => th[t].self \in Object
    BY DEF TypeOK, ThreadState
  <2>2. th[t].self # Null =>
          LET u == [Idle EXCEPT !.pc = "return", !.self = th[t].self]
          IN  u \in ThreadState /\ ThreadOK(u)
    BY <2>1 DEF Idle, ThreadState, ThreadOK, Labels
  <2>3. QED
    BY <2>2, IdleType DEF TypeOK, Finish
<1>4. QED
  BY <1>1, <1>2, <1>3

LEMMA ReleaseParentType ==
  ASSUME TypeOK, NEW t \in Thread, NEW d \in Db \cup {Null}, ReleaseParent(t, d),
         th[t].cur \in Child,
         th[t].self = Null \/ (th[t].self = th[t].cur /\ th[t].cur \in Iter)
  PROVE  /\ alloc' \subseteq Object /\ rc' \in [Object -> Int]
         /\ iter' \in [Iter -> IterStruct] /\ snap' \in [Snap -> SnapStruct]
         /\ th' \in [Thread -> ThreadState] /\ \A u \in Thread : ThreadOK(th'[u])
<1>1. CASE d # Null /\ rc[d] = 1
  <2> DEFINE u == [th[t] EXCEPT !.pc = "close", !.dying = d]
  <2>1. u \in ThreadState /\ ThreadOK(u)
    <3>1. th[t] \in ThreadState
      BY DEF TypeOK
    <3>2. u \in ThreadState
      BY <1>1, <3>1 DEF ThreadState, Labels
    <3>3. u.pc = "close" /\ u.dying = d /\ u.self = th[t].self /\ u.cur = th[t].cur
      BY <3>1 DEF ThreadState
    <3>4. QED
      BY <1>1, <3>2, <3>3 DEF ThreadOK
  <2>2. th' = [th EXCEPT ![t] = u]
    BY <1>1 DEF ReleaseParent, TypeOK
  <2>3. rc' \in [Object -> Int]
    BY <1>1 DEF ReleaseParent, TypeOK, Object
  <2>4. alloc' = alloc /\ iter' = iter /\ snap' = snap
    BY <1>1 DEF ReleaseParent
  <2>5. QED
    BY <2>1, <2>2, <2>3, <2>4 DEF TypeOK
<1>2. CASE ~(d # Null /\ rc[d] = 1)
  <2>1. rc' \in [Object -> Int]
    BY <1>2 DEF ReleaseParent, TypeOK, Object
  <2>2. Finish(t, {})
    BY <1>2 DEF ReleaseParent
  <2>3. QED
    BY <2>1, <2>2, FinishType
<1>3. QED
  BY <1>1, <1>2

\* A step that moves one thread to a state of the right type moves all.
LEMMA GotoType ==
  ASSUME TypeOK, NEW t \in Thread, NEW u \in ThreadState, ThreadOK(u), th' = [th EXCEPT ![t] = u]
  PROVE  th' \in [Thread -> ThreadState] /\ \A v \in Thread : ThreadOK(th'[v])
BY DEF TypeOK

\* Going to the label l keeps the rest of the thread's state, and every other
\* thread where it is.
LEMMA GotoLabel ==
  ASSUME TypeOK, NEW t \in Thread, NEW l \in Labels, Goto(t, l)
  PROVE  /\ th' \in [Thread -> ThreadState]
         /\ th'[t].pc = l /\ th'[t].self = th[t].self
         /\ th'[t].cur = th[t].cur /\ th'[t].dying = th[t].dying /\ th'[t].using = th[t].using
         /\ ThreadOK(th'[t]) => \A v \in Thread : ThreadOK(th'[v])
<1>1. /\ th' \in [Thread -> ThreadState]
      /\ th'[t].pc = l /\ th'[t].self = th[t].self
      /\ th'[t].cur = th[t].cur /\ th'[t].dying = th[t].dying /\ th'[t].using = th[t].using
      /\ \A v \in Thread \ {t} : th'[v] = th[v]
  BY DEF TypeOK, Goto, ThreadState
<1>2. QED
  BY <1>1 DEF TypeOK

\* Setting one field of one PyLevelDB struct.
LEMMA DbFieldType ==
  ASSUME TypeOK, NEW d \in Db, NEW p \in Pointer, NEW q \in Pointer
  PROVE  /\ [db EXCEPT ![d].native = p] \in [Db -> DbStruct]
         /\ [db EXCEPT ![d].aux = p] \in [Db -> DbStruct]
         /\ [db EXCEPT ![d] = [@ EXCEPT !.native = p, !.aux = q]] \in [Db -> DbStruct]
         /\ [db EXCEPT ![d].n_snapshots = @ + 1] \in [Db -> DbStruct]
         /\ [db EXCEPT ![d].n_snapshots = @ - 1] \in [Db -> DbStruct]
         /\ [db EXCEPT ![d].n_iterators = @ + 1] \in [Db -> DbStruct]
         /\ [db EXCEPT ![d].n_iterators = @ - 1] \in [Db -> DbStruct]
         /\ [db EXCEPT ![d].native = Deleted(@)] \in [Db -> DbStruct]
         /\ [db EXCEPT ![d].aux = Deleted(@)] \in [Db -> DbStruct]
         /\ [db EXCEPT ![d] = NewDb] \in [Db -> DbStruct]
         /\ [db EXCEPT ![d] = [NewDb EXCEPT !.aux = p]] \in [Db -> DbStruct]
<1>1. ASSUME NEW r \in DbStruct PROVE [db EXCEPT ![d] = r] \in [Db -> DbStruct]
  BY DEF TypeOK
<1>2. db[d] \in DbStruct
  BY DEF TypeOK
<1>3. /\ [db[d] EXCEPT !.native = p] \in DbStruct /\ [db[d] EXCEPT !.aux = p] \in DbStruct
      /\ [db[d] EXCEPT !.native = p, !.aux = q] \in DbStruct
      /\ [db[d] EXCEPT !.native = Deleted(@)] \in DbStruct
      /\ [db[d] EXCEPT !.aux = Deleted(@)] \in DbStruct
  BY <1>2 DEF DbStruct, Pointer, Deleted
<1>4. /\ [db[d] EXCEPT !.n_snapshots = @ + 1] \in DbStruct
      /\ [db[d] EXCEPT !.n_snapshots = @ - 1] \in DbStruct
      /\ [db[d] EXCEPT !.n_iterators = @ + 1] \in DbStruct
      /\ [db[d] EXCEPT !.n_iterators = @ - 1] \in DbStruct
  BY <1>2 DEF DbStruct
<1>5. NewDb \in DbStruct /\ [NewDb EXCEPT !.aux = p] \in DbStruct
  BY DEF DbStruct, Pointer, NewDb
<1>6. /\ [db EXCEPT ![d].native = p] \in [Db -> DbStruct]
      /\ [db EXCEPT ![d].aux = p] \in [Db -> DbStruct]
      /\ [db EXCEPT ![d] = [@ EXCEPT !.native = p, !.aux = q]] \in [Db -> DbStruct]
      /\ [db EXCEPT ![d].native = Deleted(@)] \in [Db -> DbStruct]
      /\ [db EXCEPT ![d].aux = Deleted(@)] \in [Db -> DbStruct]
  BY <1>1, <1>3
<1>7. /\ [db EXCEPT ![d].n_snapshots = @ + 1] \in [Db -> DbStruct]
      /\ [db EXCEPT ![d].n_snapshots = @ - 1] \in [Db -> DbStruct]
      /\ [db EXCEPT ![d].n_iterators = @ + 1] \in [Db -> DbStruct]
      /\ [db EXCEPT ![d].n_iterators = @ - 1] \in [Db -> DbStruct]
  BY <1>1, <1>4
<1>8. QED
  BY <1>1, <1>5, <1>6, <1>7

\* Setting the native object behind one child.
LEMMA NativeFieldType ==
  ASSUME TypeOK, NEW c, NEW n \in Db \cup {Null, Orphan}
  PROVE  /\ [snap EXCEPT ![c].native = n] \in [Snap -> SnapStruct]
         /\ [iter EXCEPT ![c].native = n] \in [Iter -> IterStruct]
BY DEF TypeOK, SnapStruct, IterStruct

\* Releasing a native snapshot changes only what calls in Get and RangeIter use.
LEMMA WithoutSnapshotType ==
  ASSUME TypeOK, NEW s \in Snap
  PROVE  /\ WithoutSnapshot(s) \in [Thread -> ThreadState]
         /\ \A v \in Thread : ThreadOK(WithoutSnapshot(s)[v])
<1>1. ASSUME NEW v \in Thread
      PROVE  WithoutSnapshot(s)[v] \in ThreadState /\ ThreadOK(WithoutSnapshot(s)[v])
  <2>1. CASE th[v].pc \in {"get", "seek"}
    <3>1. LET w == [th[v] EXCEPT !.using = Orphan] IN w \in ThreadState /\ ThreadOK(w)
      BY <2>1, ThreadType DEF ThreadState, ThreadOK
    <3>2. QED
      BY <3>1, ThreadType DEF WithoutSnapshot
  <2>2. CASE th[v].pc \notin {"get", "seek"}
    BY <2>2, ThreadType DEF WithoutSnapshot
  <2>3. QED
    BY <2>1, <2>2
<1>2. QED
  BY <1>1 DEF WithoutSnapshot

LEMMA TypeInit == Init => TypeOK
BY HandlesAssumption DEF Init, TypeOK, NewDb, DbStruct, Pointer, SnapStruct, IterStruct, Idle,
     ThreadState, ThreadOK, Labels, Object, Child

\* Every action keeps every variable in its type: pointers stay pointers of the
\* right kind and each label keeps the objects its code works on, whatever the
\* threads do in between.
LEMMA TypeStep == TypeOK /\ [Next]_vars => TypeOK'
<1> SUFFICES ASSUME TypeOK, [Next]_vars PROVE TypeOK'
  OBVIOUS
<1> USE HandlesAssumption
<1>1. CASE UNCHANGED vars
  BY <1>1 DEF vars, TypeOK
<1>2. ASSUME NEW t \in Thread, Step(t) PROVE TypeOK'
  <2> th[t] \in ThreadState /\ ThreadOK(th[t])
    BY ThreadType
  <2>1. CASE OpenOk(t)
    <3>1. th' \in [Thread -> ThreadState] /\ \A v \in Thread : ThreadOK(th'[v])
      BY <2>1, GotoLabel DEF OpenOk, At, ThreadOK, Labels, Object
    <3>2. db' \in [Db -> DbStruct]
      BY <2>1, DbFieldType DEF OpenOk, At, ThreadOK, Pointer
    <3>3. fault' \in {"none", "null", "dangling"}
      BY <2>1 DEF OpenOk, At, ThreadOK, TypeOK, DbStruct, Deref, Pointer
    <3>4. QED
      BY <2>1, <3>1, <3>2, <3>3 DEF OpenOk, TypeOK, pyVars
  <2>2. CASE OpenFails(t)
    <3>1. th' \in [Thread -> ThreadState] /\ \A v \in Thread : ThreadOK(th'[v])
      BY <2>2, GotoLabel DEF OpenFails, At, ThreadOK, Labels, Object
    <3>2. db' \in [Db -> DbStruct]
      BY <2>2, DbFieldType DEF OpenFails, At, ThreadOK, Pointer
    <3>3. fault' \in {"none", "null", "dangling"}
      BY <2>2 DEF OpenFails, At, ThreadOK, TypeOK, DbStruct, Deref, Pointer
    <3>4. QED
      BY <2>2, <3>1, <3>2, <3>3 DEF OpenFails, TypeOK, pyVars
  <2>3. CASE Opened(t)
    <3>1. th[t].self \in Object
      BY <2>3 DEF Opened, At, ThreadOK, Object
    <3>2. th' \in [Thread -> ThreadState] /\ \A v \in Thread : ThreadOK(th'[v])
      BY <2>3, IdleType, GotoType DEF Opened
    <3>3. QED
      BY <2>3, <3>1, <3>2 DEF Opened, TypeOK
  <2>4. CASE PyLevelDB_init(t)
    <3>1. th' \in [Thread -> ThreadState] /\ \A v \in Thread : ThreadOK(th'[v])
      <4>1. th[t].pc = "closed" /\ th[t].dying = th[t].self
        BY <2>4 DEF PyLevelDB_init, At
      <4>2. PICK l \in {"open", "return"} : Goto(t, l)
        BY <2>4 DEF PyLevelDB_init
      <4>3. l \in Labels
        BY <4>2 DEF Labels
      <4>4. th[t].self \in Db /\ th[t].cur = Null
        BY <4>1 DEF ThreadOK, Object, Child
      <4>5. ThreadOK(th'[t])
        BY <4>1, <4>2, <4>3, <4>4, GotoLabel DEF ThreadOK, Object
      <4>6. QED
        BY <4>2, <4>3, <4>5, GotoLabel
    <3>2. db' \in [Db -> DbStruct]
      <4>1. th[t].self \in Db /\ {"null", "live"} \subseteq Pointer
        BY <2>4 DEF PyLevelDB_init, At, ThreadOK, Pointer
      <4>2. \A p \in {"null", "live"} :
              [db EXCEPT ![th[t].self] = [@ EXCEPT !.native = "null", !.aux = p]] \in [Db -> DbStruct]
        BY <4>1, DbFieldType
      <4>3. QED
        BY <2>4, <4>2 DEF PyLevelDB_init
    <3>3. QED
      BY <2>4, <3>1, <3>2 DEF PyLevelDB_init, TypeOK, pyVars
  <2>5. CASE NativeCall(t)
    <3>1. th' \in [Thread -> ThreadState] /\ \A v \in Thread : ThreadOK(th'[v])
      <4>1. th[t].pc = "native" /\ Goto(t, "return") /\ "return" \in Labels
        BY <2>5 DEF NativeCall, At, Labels
      <4>2. ThreadOK(th'[t])
        BY <4>1, GotoLabel DEF ThreadOK, Object
      <4>3. QED
        BY <4>1, <4>2, GotoLabel
    <3>2. fault' \in {"none", "null", "dangling"}
      BY <2>5 DEF NativeCall, At, ThreadOK, TypeOK, DbStruct, Deref, Pointer
    <3>3. QED
      BY <2>5, <3>1, <3>2 DEF NativeCall, TypeOK, pyVars
  <2>6. CASE Return(t)
    BY <2>6, DecRefType DEF Return, At, pyVars, TypeOK, ThreadOK
  <2>7. CASE ReleaseSnapshot(t)
    <3>1. th' \in [Thread -> ThreadState] /\ \A v \in Thread : ThreadOK(th'[v])
      BY <2>7, GotoLabel DEF ReleaseSnapshot, At, ThreadOK, Labels
    <3>2. fault' \in {"none", "null", "dangling"} /\ snap' \in [Snap -> SnapStruct]
      BY <2>7, ReachType, NativeFieldType DEF ReleaseSnapshot, At, ThreadOK
    <3>3. QED
      BY <2>7, <3>1, <3>2 DEF ReleaseSnapshot, TypeOK, pyVars
  <2>8. CASE PyLevelDBSnapshot_dealloc(t)
    <3>1. th[t].cur \in Snap /\ th[t].self = Null
      BY <2>8 DEF PyLevelDBSnapshot_dealloc, At, ThreadOK
    <3> DEFINE d == snap[th[t].cur].db
    <3>2. d \in Db \cup {Null} /\ ReleaseParent(t, d)
      BY <2>8, <3>1 DEF PyLevelDBSnapshot_dealloc, TypeOK, SnapStruct
    <3>3. db' \in [Db -> DbStruct] /\ fault' \in {"none", "null", "dangling"} /\ named' = named
      BY <2>8, <3>2, DbFieldType DEF PyLevelDBSnapshot_dealloc, TypeOK, Pointer
    <3>4. QED
      BY <3>1, <3>2, <3>3, ReleaseParentType DEF TypeOK, Child
  <2>9. CASE Seek(t)
    <3> DEFINE d == th[t].using
               u(l) == [th[t] EXCEPT !.pc = l, !.using = IF d \in Db THEN d ELSE Null]
    <3>1. th[t].cur \in Iter /\ d \in Db \cup {Null, Orphan}
      BY <2>9 DEF Seek, At, ThreadOK, ThreadState
    <3>2. th' \in [Thread -> ThreadState] /\ \A v \in Thread : ThreadOK(th'[v])
      <4>1. ASSUME NEW l \in {"make", "discard"} PROVE u(l) \in ThreadState /\ ThreadOK(u(l))
        <5>1. th[t].pc = "seek"
          BY <2>9 DEF Seek, At
        <5>2. u(l) \in ThreadState
          BY <3>1 DEF ThreadState, Labels
        <5>3. /\ u(l).pc = l /\ u(l).self = th[t].self /\ u(l).cur = th[t].cur
              /\ u(l).dying = th[t].dying /\ u(l).using # Orphan
          BY <3>1 DEF ThreadState, Object
        <5>4. QED
          BY <5>1, <5>2, <5>3 DEF ThreadOK
      <4>2. \E l \in {"make", "discard"} : th' = [th EXCEPT ![t] = u(l)]
        BY <2>9 DEF Seek, TypeOK
      <4>3. QED
        BY <4>1, <4>2, GotoType
    <3>3. iter' \in [Iter -> IterStruct]
      BY <2>9, <3>1, NativeFieldType DEF Seek
    <3>4. fault' \in {"none", "null", "dangling"}
      <4>1. d \in Db => db[d].aux \in Pointer /\ DbPointer(d) \in Pointer
        BY DbPointerType DEF TypeOK, DbStruct
      <4>2. CASE d \in Db
        BY <2>9, <4>1, <4>2, DerefType DEF Seek, Both
      <4>3. CASE d = Null
        BY <2>9, <4>3 DEF Seek, Both, DbPointer, Deref
      <4>4. CASE d = Orphan
        BY <2>9, <4>4 DEF Seek
      <4>5. QED
        BY <3>1, <4>2, <4>3, <4>4
    <3>5. QED
      BY <2>9, <3>2, <3>3, <3>4 DEF Seek, TypeOK, pyVars
  <2>10. CASE Discard(t)
    <3>1. th' \in [Thread -> ThreadState] /\ \A v \in Thread : ThreadOK(th'[v])
      BY <2>10, GotoLabel DEF Discard, At, ThreadOK, Labels
    <3>2. iter' \in [Iter -> IterStruct]
      BY <2>10, NativeFieldType DEF Discard
    <3>3. QED
      BY <2>10, <3>1, <3>2 DEF Discard, TypeOK, pyVars
  <2>11. CASE PyLevelDBIter_New(t)
    <3> DEFINE i == th[t].cur
               u == [Idle EXCEPT !.pc = "return", !.self = th[t].self]
    <3>1. i \in Iter /\ th[t].self \in Db \cup Snap /\ th[t].dying = Null
      BY <2>11 DEF PyLevelDBIter_New, At, ThreadOK
    <3>2. IterRef(t) \in Db \cup {Null}
      BY <2>11 DEF PyLevelDBIter_New, At, IterRef, ThreadOK, ThreadState
    <3>3. u \in ThreadState /\ ThreadOK(u)
      <4>1. u \in ThreadState
        BY <3>1 DEF Idle, ThreadState, Labels, Object, Child
      <4>2. u.pc = "return" /\ u.self = th[t].self /\ u.cur = Null /\ u.dying = Null
        BY DEF Idle
      <4> HIDE DEF u
      <4>3. ThreadOK(u)
        BY <3>1, <4>2 DEF ThreadOK, Object, Child
      <4>4. QED
        BY <4>1, <4>3
    <3>4. th' = [th EXCEPT ![t] = u]
      BY <2>11 DEF PyLevelDBIter_New, TypeOK
    <3>5. iter' \in [Iter -> IterStruct]
      BY <2>11, <3>1, <3>2 DEF PyLevelDBIter_New, TypeOK, IterStruct
    <3>6. rc' \in [Object -> Int]
      BY <2>11, <3>1, <3>2 DEF PyLevelDBIter_New, CountIter, TypeOK, Object, Child
    <3>6a. db' \in [Db -> DbStruct]
      <4>1. CASE IterRef(t) = Null
        BY <2>11, <4>1 DEF PyLevelDBIter_New, TypeOK
      <4>2. CASE IterRef(t) # Null
        <5>1. db' = [db EXCEPT ![IterRef(t)].n_iterators = @ + 1] /\ IterRef(t) \in Db
          BY <2>11, <3>2, <4>2 DEF PyLevelDBIter_New
        <5>2. QED
          BY <5>1, DbFieldType DEF Pointer
      <4>3. QED
        BY <4>1, <4>2
    <3>7. alloc' \subseteq Object /\ named' \subseteq Object
      BY <2>11, <3>1 DEF PyLevelDBIter_New, TypeOK, Object, Child
    <3>8. QED
      BY <2>11, <3>3, <3>4, <3>5, <3>6, <3>6a, <3>7 DEF PyLevelDBIter_New, TypeOK
  <2>12. CASE PyLevelDBIter_New_fails(t)
    <3>1. th' \in [Thread -> ThreadState] /\ \A v \in Thread : ThreadOK(th'[v])
      BY <2>12, GotoLabel DEF PyLevelDBIter_New_fails, At, ThreadOK, Labels
    <3>2. QED
      BY <2>12, <3>1 DEF PyLevelDBIter_New_fails, TypeOK, pyVars
  <2>13. CASE Abandon(t)
    <3> DEFINE u == [Idle EXCEPT !.pc = "return", !.self = th[t].self]
    <3>1. u \in ThreadState /\ ThreadOK(u)
      BY <2>13 DEF Abandon, At, Idle, ThreadState, ThreadOK, Labels, Object, Child
    <3>2. th' = [th EXCEPT ![t] = u]
      BY <2>13 DEF Abandon, TypeOK
    <3>3. iter' \in [Iter -> IterStruct]
      BY <2>13, NativeFieldType DEF Abandon
    <3>4. QED
      BY <2>13, <3>1, <3>2, <3>3 DEF Abandon, TypeOK, pyVars
  <2>14. CASE Clean(t)
    <3>1. th' \in [Thread -> ThreadState] /\ \A v \in Thread : ThreadOK(th'[v])
      BY <2>14, GotoLabel DEF Clean, At, ThreadOK, Labels
    <3>2. fault' \in {"none", "null", "dangling"} /\ iter' \in [Iter -> IterStruct]
      BY <2>14, NativeFieldType DEF Clean, ChildPointer, Deref
    <3>3. QED
      BY <2>14, <3>1, <3>2 DEF Clean, TypeOK, pyVars
  <2>15. CASE PyLevelDBIter_clean(t)
    <3>1. th[t].cur \in Iter /\ th[t].self \in {Null, th[t].cur}
      BY <2>15 DEF PyLevelDBIter_clean, At, ThreadOK
    <3> DEFINE d == iter[th[t].cur].db
    <3>2. d \in Db \cup {Null} /\ ReleaseParent(t, d)
      BY <2>15, <3>1 DEF PyLevelDBIter_clean, TypeOK, IterStruct
    <3>3. QED
      BY <2>15, <3>1, <3>2, ReleaseParentType DEF PyLevelDBIter_clean, TypeOK, Child
  <2>16. CASE CloseNative(t)
    <3>1. th' \in [Thread -> ThreadState] /\ \A v \in Thread : ThreadOK(th'[v])
      <4>1. [th[t] EXCEPT !.pc = "close_aux"] \in ThreadState /\ ThreadOK([th[t] EXCEPT !.pc = "close_aux"])
        BY <2>16 DEF CloseNative, At, ThreadState, ThreadOK, Labels
      <4>2. ASSUME NEW v \in Thread, th[v].pc \in {"get", "seek"}, NEW n \in Db \cup {Null, Orphan}
            PROVE  LET w == [th[v] EXCEPT !.using = n] IN w \in ThreadState /\ ThreadOK(w)
        BY <4>2, ThreadType DEF ThreadState, ThreadOK
      <4>3. \A v \in Thread \ {t} : th'[v] # th[v] =>
              th[v].pc \in {"get", "seek"}
              /\ \E n \in Db \cup {Null, Orphan} : th'[v] = [th[v] EXCEPT !.using = n]
        BY <2>16, ThreadType DEF CloseNative, ThreadState
      <4>4. th'[t] = [th[t] EXCEPT !.pc = "close_aux"]
        BY <2>16 DEF CloseNative
      <4>5. th' = [v \in Thread |-> th'[v]]
        BY <2>16 DEF CloseNative
      <4>6. ASSUME NEW v \in Thread PROVE th'[v] \in ThreadState /\ ThreadOK(th'[v])
        <5>1. CASE v = t
          BY <4>1, <4>4, <5>1
        <5>2. CASE v # t /\ th'[v] # th[v]
          <6>1. PICK n \in Db \cup {Null, Orphan} : th'[v] = [th[v] EXCEPT !.using = n]
            BY <4>3, <5>2
          <6>2. th[v].pc \in {"get", "seek"}
            BY <4>3, <5>2
          <6>3. QED
            BY <4>2, <6>1, <6>2
        <5>3. CASE th'[v] = th[v]
          BY <5>3, ThreadType
        <5>4. QED
          BY <5>1, <5>2, <5>3
      <4>7. QED
        BY <4>5, <4>6
    <3>2. db' \in [Db -> DbStruct]
      BY <2>16, DbFieldType DEF CloseNative, At, ThreadOK, Pointer
    <3>3. snap' \in [Snap -> SnapStruct] /\ iter' \in [Iter -> IterStruct]
      <4> DEFINE Lost(n) == IF n = th[t].dying /\ db[th[t].dying].native = "live" THEN Orphan ELSE n
      <4>1. \A n \in Db \cup {Null, Orphan} : Lost(n) \in Db \cup {Null, Orphan}
        OBVIOUS
      <4>2. /\ snap' = [s \in Snap |-> [snap[s] EXCEPT !.native = Lost(@)]]
            /\ iter' = [i \in Iter |-> [iter[i] EXCEPT !.native = Lost(@)]]
        BY <2>16 DEF CloseNative
      <4> HIDE DEF Lost
      <4>3. snap' \in [Snap -> SnapStruct]
        BY <4>1, <4>2 DEF TypeOK, SnapStruct
      <4>4. iter' \in [Iter -> IterStruct]
        BY <4>1, <4>2 DEF TypeOK, IterStruct
      <4>5. QED
        BY <4>3, <4>4
    <3>4. fault' \in {"none", "null", "dangling"}
      BY <2>16 DEF CloseNative
    <3>5. QED
      BY <2>16, <3>1, <3>2, <3>3, <3>4 DEF CloseNative, TypeOK, pyVars
  <2>17. CASE CloseAux(t)
    <3>1. th' \in [Thread -> ThreadState] /\ \A v \in Thread : ThreadOK(th'[v])
      <4>1. th[t].pc = "close_aux" /\ Goto(t, "closed") /\ "closed" \in Labels
        BY <2>17 DEF CloseAux, At, Labels
      <4>2. ThreadOK(th'[t])
        BY <4>1, GotoLabel DEF ThreadOK
      <4>3. QED
        BY <4>1, <4>2, GotoLabel
    <3>2. db' \in [Db -> DbStruct] /\ fault' \in {"none", "null", "dangling"}
      BY <2>17, DbFieldType DEF CloseAux, At, ThreadOK, Pointer
    <3>3. QED
      BY <2>17, <3>1, <3>2 DEF CloseAux, TypeOK, pyVars
  <2>18. CASE PyLevelDB_dealloc(t)
    <3>1. th[t].dying \in Db /\ th[t].self \in {Null, th[t].cur} /\ th[t].self \in Object \cup {Null}
      BY <2>18 DEF PyLevelDB_dealloc, At, ThreadOK, ThreadState, Child
    <3>2. db' \in [Db -> DbStruct]
      BY <2>18, <3>1, DbFieldType DEF PyLevelDB_dealloc, Pointer
    <3>3. QED
      BY <2>18, <3>1, <3>2, FinishType DEF PyLevelDB_dealloc, TypeOK, Object
  <2>19. CASE EngineGet(t)
    <3> DEFINE u == [th[t] EXCEPT !.pc = "return", !.using = Null]
    <3>1. u \in ThreadState /\ ThreadOK(u)
      BY <2>19 DEF EngineGet, At, ThreadState, ThreadOK, Labels, Object, Child
    <3>2. th' = [th EXCEPT ![t] = u]
      BY <2>19 DEF EngineGet, TypeOK
    <3>3. th' \in [Thread -> ThreadState] /\ \A v \in Thread : ThreadOK(th'[v])
      BY <3>1, <3>2, GotoType
    <3>4. fault' \in {"none", "null", "dangling"}
      BY <2>19 DEF EngineGet, PointerTo, Deref
    <3>5. QED
      BY <2>19, <3>3, <3>4 DEF EngineGet, TypeOK, pyVars
  <2>20. CASE PyLevelDBSnapshot_init(t)
    <3> DEFINE d == th[t].using
               u == [Idle EXCEPT !.pc = "return", !.self = th[t].self]
    <3>1. th[t].self \in Snap /\ th[t].dying \in Db /\ d \in Db \cup {Null}
      <4>1. th[t].pc = "closed" /\ th[t].self \in Snap
        BY <2>20 DEF PyLevelDBSnapshot_init, At
      <4>2. th[t].dying \in Db /\ th[t].using # Orphan
        BY <4>1 DEF ThreadOK, Object, Child
      <4>3. QED
        BY <4>1, <4>2 DEF ThreadState
    <3>2. u \in ThreadState /\ ThreadOK(u)
      <4>1. u \in ThreadState
        BY <3>1 DEF Idle, ThreadState, Labels, Object, Child
      <4>2. u.pc = "return" /\ u.self = th[t].self /\ u.cur = Null /\ u.dying = Null
        BY DEF Idle
      <4> HIDE DEF u
      <4>3. ThreadOK(u)
        BY <3>1, <4>2 DEF ThreadOK, Object, Child
      <4>4. QED
        BY <4>1, <4>3
    <3>3. th' \in [Thread -> ThreadState] /\ \A v \in Thread : ThreadOK(th'[v])
      BY <2>20, <3>2, GotoType DEF PyLevelDBSnapshot_init
    <3>4. db' \in [Db -> DbStruct]
      <4>1. NewDb \in DbStruct /\ \A b \in Db, n \in Int : [db[b] EXCEPT !.n_snapshots = @ + n] \in DbStruct
        BY DEF TypeOK, DbStruct, NewDb, Pointer
      <4>2. \A b \in Db : OneIf(b = d) \in Int
        BY DEF OneIf
      <4>3. QED
        BY <2>20, <4>1, <4>2 DEF PyLevelDBSnapshot_init
    <3>5. snap' \in [Snap -> SnapStruct]
      BY <2>20, <3>1 DEF PyLevelDBSnapshot_init, TypeOK, SnapStruct
    <3>6. fault' \in {"none", "null", "dangling"}
      BY <2>20, <3>1 DEF PyLevelDBSnapshot_init, TypeOK, DbStruct, Deref, Pointer
    <3>7. QED
      BY <2>20, <3>3, <3>4, <3>5, <3>6 DEF PyLevelDBSnapshot_init, TypeOK
  <2>21. QED
    BY <1>2, <2>1, <2>2, <2>3, <2>4, <2>5, <2>6, <2>7, <2>8, <2>9, <2>10, <2>11, <2>12, <2>13, <2>14, <2>15, <2>16, <2>17, <2>18, <2>19, <2>20 DEF Step
<1>3. ASSUME NEW t \in Thread, Call(t) PROVE TypeOK'
  <2> th[t] \in ThreadState /\ ThreadOK(th[t])
    BY ThreadType
  <2>1. ASSUME NEW d \in Db, PyLevelDB_new(t, d) PROVE TypeOK'
    <3>1. th' \in [Thread -> ThreadState] /\ \A v \in Thread : ThreadOK(th'[v])
      <4> DEFINE u == [Idle EXCEPT !.pc = "open", !.self = d]
      <4>1. u \in ThreadState /\ ThreadOK(u)
        BY DEF Idle, ThreadState, ThreadOK, Labels, Object, Child
      <4>2. th' = [th EXCEPT ![t] = u]
        BY <2>1 DEF PyLevelDB_new
      <4>3. QED
        BY <4>1, <4>2, GotoType
    <3>2. db' \in [Db -> DbStruct]
      BY <2>1, DbFieldType DEF PyLevelDB_new, Pointer
    <3>3. rc' \in [Object -> Int] /\ alloc' \subseteq Object /\ named' \subseteq Object
      BY <2>1 DEF PyLevelDB_new, TypeOK, Object
    <3>4. QED
      BY <2>1, <3>1, <3>2, <3>3 DEF PyLevelDB_new, TypeOK, pyVars
  <2>2. ASSUME NEW d \in Db, PyLevelDB_reinit(t, d) PROVE TypeOK'
    <3>1. th' \in [Thread -> ThreadState] /\ \A v \in Thread : ThreadOK(th'[v])
      <4> DEFINE u(l) == [Idle EXCEPT !.self = d, !.dying = d, !.pc = l]
      <4>1. \A l \in {"close", "closed"} : u(l) \in ThreadState /\ ThreadOK(u(l))
        <5> TAKE l \in {"close", "closed"}
        <5>1. u(l) \in ThreadState
          BY DEF Idle, ThreadState, Labels, Object, Child
        <5>2. u(l).pc = l /\ u(l).self = d /\ u(l).cur = Null /\ u(l).dying = d
          BY DEF Idle
        <5> HIDE DEF u
        <5>3. ThreadOK(u(l))
          BY <5>2 DEF ThreadOK, Object, Child
        <5>4. QED
          BY <5>1, <5>3
      <4>2. \E l \in {"close", "closed"} : th' = [th EXCEPT ![t] = u(l)]
        BY <2>2 DEF PyLevelDB_reinit
      <4>3. QED
        BY <4>1, <4>2, GotoType
    <3>2. rc' \in [Object -> Int]
      BY <2>2 DEF PyLevelDB_reinit, TypeOK, Object
    <3>3. QED
      BY <2>2, <3>1, <3>2 DEF PyLevelDB_reinit, TypeOK, pyVars
  <2>3. ASSUME NEW d \in Db, PyLevelDB_GetStatus(t, d) PROVE TypeOK'
    <3>1. th' \in [Thread -> ThreadState] /\ \A v \in Thread : ThreadOK(th'[v])
      BY <2>3 DEF PyLevelDB_GetStatus, TypeOK
    <3>2. fault' \in {"none", "null", "dangling"}
      BY <2>3 DEF PyLevelDB_GetStatus, Deref, TypeOK, DbStruct, Pointer
    <3>3. QED
      BY <2>3, <3>1, <3>2 DEF PyLevelDB_GetStatus, TypeOK, pyVars
  <2>4. ASSUME NEW o \in Db, MethodCall(t, o) PROVE TypeOK'
    <3>1. th' \in [Thread -> ThreadState] /\ \A v \in Thread : ThreadOK(th'[v])
      <4> DEFINE u == [Idle EXCEPT !.pc = "native", !.self = o]
      <4>1. u \in ThreadState /\ ThreadOK(u)
        BY DEF Idle, ThreadState, ThreadOK, Labels, Object, Child
      <4>2. th' = [th EXCEPT ![t] = u]
        BY <2>4 DEF MethodCall
      <4>3. QED
        BY <4>1, <4>2, GotoType
    <3>2. rc' \in [Object -> Int]
      BY <2>4 DEF MethodCall, TypeOK, Object, Child
    <3>3. QED
      BY <2>4, <3>1, <3>2 DEF MethodCall, TypeOK, pyVars
  <2>5. ASSUME NEW o \in Db \cup Snap, NEW i \in Iter, PyLevelDB_RangeIter(t, o, i) PROVE TypeOK'
    <3>1. th' \in [Thread -> ThreadState] /\ \A v \in Thread : ThreadOK(th'[v])
      <4> DEFINE u == [Idle EXCEPT !.pc = "seek", !.self = o, !.cur = i,
                         !.using = IF o \in Snap /\ Reach(o) = "dangling" THEN Orphan ELSE DbOf(o)]
      <4>0. u.using \in Db \cup {Null, Orphan}
        BY ReachType DEF Idle
      <4>1. u \in ThreadState /\ ThreadOK(u)
        <5> HIDE DEF u
        <5>1. u.pc = "seek" /\ u.self = o /\ u.cur = i /\ u.dying = Null
          BY DEF u, Idle
        <5>2. u \in ThreadState
          <6>1. \A g \in Db \cup {Null, Orphan} :
                  [Idle EXCEPT !.pc = "seek", !.self = o, !.cur = i, !.using = g] \in ThreadState
            BY DEF Idle, ThreadState, Labels, Object, Child
          <6>2. QED
            BY <4>0, <6>1 DEF u, Idle
        <5>3. QED
          BY <5>1, <5>2 DEF ThreadOK
      <4>2. th' = [th EXCEPT ![t] = u]
        BY <2>5 DEF PyLevelDB_RangeIter
      <4>3. QED
        BY <4>1, <4>2, GotoType
    <3>2. rc' \in [Object -> Int]
      BY <2>5 DEF PyLevelDB_RangeIter, TypeOK, Object, Child
    <3>3. QED
      BY <2>5, <3>1, <3>2 DEF PyLevelDB_RangeIter, TypeOK, pyVars
  <2>6. ASSUME NEW x \in Object, Drop(t, x) PROVE TypeOK'
    BY <2>6, DecRefType DEF Drop, TypeOK
  <2>7. ASSUME NEW s \in Snap, PyLevelDBSnapshot_init_fails(t, s) PROVE TypeOK'
    <3>1. th' \in [Thread -> ThreadState] /\ \A v \in Thread : ThreadOK(th'[v])
      <4>1. s \in Object /\ th' = [th EXCEPT ![t] = Dealloc(s)]
        BY <2>7 DEF PyLevelDBSnapshot_init_fails, Object
      <4>2. QED
        BY <4>1, DeallocType, GotoType
    <3>2. alloc' \subseteq Object /\ named' \subseteq Object
      BY <2>7 DEF PyLevelDBSnapshot_init_fails, TypeOK, Object, Child
    <3>3. QED
      BY <2>7, <3>1, <3>2 DEF PyLevelDBSnapshot_init_fails, TypeOK, pyVars
  <2>8. ASSUME NEW d \in Db, NEW s \in Snap, PyLevelDBSnapshot_New(t, d, s) PROVE TypeOK'
    <3>1. th' \in [Thread -> ThreadState] /\ \A v \in Thread : ThreadOK(th'[v])
      BY <2>8 DEF PyLevelDBSnapshot_New, TypeOK
    <3>2. db' \in [Db -> DbStruct]
      BY <2>8, DbFieldType DEF PyLevelDBSnapshot_New, Pointer
    <3>3. rc' \in [Object -> Int] /\ alloc' \subseteq Object /\ named' \subseteq Object
      BY <2>8 DEF PyLevelDBSnapshot_New, TypeOK, Object, Child
    <3>4. snap' \in [Snap -> SnapStruct]
      BY <2>8 DEF PyLevelDBSnapshot_New, TypeOK, SnapStruct
    <3>5. fault' \in {"none", "null", "dangling"}
      BY <2>8 DEF PyLevelDBSnapshot_New, Deref, TypeOK, DbStruct, Pointer
    <3>6. QED
      BY <2>8, <3>1, <3>2, <3>3, <3>4, <3>5 DEF PyLevelDBSnapshot_New, TypeOK, pyVars
  <2>9. ASSUME NEW i \in Iter, PyLevelDBIter_next_item(t, i) PROVE TypeOK'
    <3>1. th' \in [Thread -> ThreadState] /\ \A v \in Thread : ThreadOK(th'[v])
      BY <2>9 DEF PyLevelDBIter_next_item, TypeOK
    <3>2. fault' \in {"none", "null", "dangling"}
      BY <2>9 DEF PyLevelDBIter_next_item, IterPointer, ChildPointer, Both, Deref, TypeOK, DbStruct, IterStruct, Pointer
    <3>3. QED
      BY <2>9, <3>1, <3>2 DEF PyLevelDBIter_next_item, TypeOK, pyVars
  <2>10. ASSUME NEW i \in Iter, PyLevelDBIter_next_end(t, i) PROVE TypeOK'
    <3>1. th' \in [Thread -> ThreadState] /\ \A v \in Thread : ThreadOK(th'[v])
      <4> DEFINE u == [Idle EXCEPT !.pc = "clean", !.self = i, !.cur = i]
      <4>1. u \in ThreadState /\ ThreadOK(u)
        <5>1. u \in ThreadState
          BY DEF Idle, ThreadState, Labels, Object, Child
        <5>2. u.pc = "clean" /\ u.self = i /\ u.cur = i /\ u.dying = Null
          BY DEF Idle
        <5> HIDE DEF u
        <5>3. ThreadOK(u)
          BY <5>2 DEF ThreadOK, Object, Child
        <5>4. QED
          BY <5>1, <5>3
      <4>2. th' = [th EXCEPT ![t] = u]
        BY <2>10 DEF PyLevelDBIter_next_end
      <4>3. QED
        BY <4>1, <4>2, GotoType
    <3>2. fault' \in {"none", "null", "dangling"}
      BY <2>10 DEF PyLevelDBIter_next_end, IterPointer, ChildPointer, Both, Deref, TypeOK, DbStruct, IterStruct, Pointer
    <3>3. rc' \in [Object -> Int]
      BY <2>10 DEF PyLevelDBIter_next_end, TypeOK, Object, Child
    <3>4. db' \in [Db -> DbStruct]
      BY <2>10, ForgetType DEF PyLevelDBIter_next_end
    <3>5. QED
      BY <2>10, <3>1, <3>2, <3>3, <3>4 DEF PyLevelDBIter_next_end, TypeOK, pyVars
  <2>11. ASSUME NEW o \in Db \cup Snap, PyLevelDB_Get(t, o) PROVE TypeOK'
    <3>1. th' \in [Thread -> ThreadState] /\ \A v \in Thread : ThreadOK(th'[v])
      <4> DEFINE u == [Idle EXCEPT !.pc = "get", !.self = o,
                         !.using = IF Reach(o) = "none" THEN DbOf(o)
                                   ELSE IF Reach(o) = "null" THEN Null ELSE Orphan]
      <4>0. u.using \in Db \cup {Null, Orphan}
        BY ReachType DEF Idle
      <4>1. u \in ThreadState /\ ThreadOK(u)
        <5> HIDE DEF u
        <5>1. u.pc = "get" /\ u.self = o /\ u.cur = Null /\ u.dying = Null
          BY DEF u, Idle
        <5>2. u \in ThreadState
          <6>1. \A g \in Db \cup {Null, Orphan} :
                  [Idle EXCEPT !.pc = "get", !.self = o, !.using = g] \in ThreadState
            BY DEF Idle, ThreadState, Labels, Object, Child
          <6>2. QED
            BY <4>0, <6>1 DEF u, Idle
        <5>3. QED
          BY <5>1, <5>2 DEF ThreadOK
      <4>2. th' = [th EXCEPT ![t] = u]
        BY <2>11 DEF PyLevelDB_Get
      <4>3. QED
        BY <4>1, <4>2, GotoType
    <3>2. rc' \in [Object -> Int]
      BY <2>11 DEF PyLevelDB_Get, TypeOK, Object, Child
    <3>3. QED
      BY <2>11, <3>1, <3>2 DEF PyLevelDB_Get, TypeOK
  <2>12. ASSUME NEW s \in Snap, NEW d \in Db \cup {Null}, PyLevelDBSnapshot_reinit(t, s, d) PROVE TypeOK'
    <3>1. th' \in [Thread -> ThreadState] /\ \A v \in Thread : ThreadOK(th'[v])
      BY <2>12, WithoutSnapshotType DEF PyLevelDBSnapshot_reinit
    <3>2. rc' \in [Object -> Int]
      BY <2>12 DEF PyLevelDBSnapshot_reinit, TypeOK, OneIf
    <3>3. db' \in [Db -> DbStruct]
      <4> DEFINE n(b) == OneIf(b = d) - OneIf(b = snap[s].db)
      <4>1. \A b \in Db : n(b) \in Int
        BY DEF OneIf
      <4>2. \A b \in Db : [db[b] EXCEPT !.n_snapshots = @ + OneIf(b = d) - OneIf(b = snap[s].db)] \in DbStruct
        BY DEF TypeOK, DbStruct, OneIf
      <4>3. QED
        BY <2>12, <4>2 DEF PyLevelDBSnapshot_reinit
    <3>4. snap' \in [Snap -> SnapStruct]
      BY <2>12 DEF PyLevelDBSnapshot_reinit, TypeOK, SnapStruct
    <3>5. fault' \in {"none", "null", "dangling"}
      BY <2>12, ReachType DEF PyLevelDBSnapshot_reinit, TypeOK, DbStruct, Deref, Both, Pointer
    <3>6. QED
      BY <2>12, <3>1, <3>2, <3>3, <3>4, <3>5 DEF PyLevelDBSnapshot_reinit, TypeOK
  <2>13. ASSUME NEW s \in Snap, NEW d \in Db \cup {Null}, PyLevelDBSnapshot_reinit_closes(t, s, d) PROVE TypeOK'
    <3> DEFINE old == snap[s].db
               u == [Idle EXCEPT !.pc = "close", !.self = s, !.cur = s, !.dying = old, !.using = d]
    <3>1. old \in Db
      BY <2>13 DEF PyLevelDBSnapshot_reinit_closes, TypeOK, SnapStruct
    <3>2. u \in ThreadState /\ ThreadOK(u)
      <4>1. u \in ThreadState
        BY <3>1 DEF Idle, ThreadState, Labels, Object, Child
      <4>2. u.pc = "close" /\ u.self = s /\ u.cur = s /\ u.dying = old /\ u.using = d
        BY DEF Idle
      <4> HIDE DEF u
      <4>3. ThreadOK(u)
        BY <3>1, <4>2 DEF ThreadOK, Object, Child
      <4>4. QED
        BY <4>1, <4>3
    <3>3. th' = [WithoutSnapshot(s) EXCEPT ![t] = u]
      BY <2>13 DEF PyLevelDBSnapshot_reinit_closes
    <3>4. th' \in [Thread -> ThreadState] /\ \A v \in Thread : ThreadOK(th'[v])
      BY <3>2, <3>3, WithoutSnapshotType
    <3>5. rc' \in [Object -> Int]
      BY <2>13 DEF PyLevelDBSnapshot_reinit_closes, TypeOK, OneIf
    <3>6. db' \in [Db -> DbStruct] /\ snap' \in [Snap -> SnapStruct]
      BY <2>13, <3>1, DbFieldType, NativeFieldType DEF PyLevelDBSnapshot_reinit_closes, Pointer
    <3>7. fault' \in {"none", "null", "dangling"}
      BY <2>13, ReachType DEF PyLevelDBSnapshot_reinit_closes
    <3>8. QED
      BY <2>13, <3>4, <3>5, <3>6, <3>7 DEF PyLevelDBSnapshot_reinit_closes, TypeOK
  <2>14. QED
    BY <1>3, <2>1, <2>2, <2>3, <2>4, <2>5, <2>6, <2>7, <2>8, <2>9, <2>10, <2>11, <2>12, <2>13 DEF Call
<1>4. QED
  BY <1>1, <1>2, <1>3 DEF Next

\* The type invariant holds in every behaviour, for any number of threads and
\* objects and whatever the program does.
THEOREM TypeCorrect == Spec => []TypeOK
BY TypeInit, TypeStep, PTL DEF Spec

----------------------------------------------------------------------------
(* Owners and counts *)

\* Who the owners of an object are, element by element.
Owns(x, o) ==
  \/ x = o /\ o \in named
  \/ x \in Thread /\ th[x].self = o
  \/ x \in Child /\ Parent(x) = o

\* Without unusual use no call of snapshot.__init__() owns its argument.
LEMMA OwnersOf ==
  ASSUME CallsOK, NEW o \in Object, NEW x
  PROVE  x \in Refs(o) <=> Owns(x, o)
<1>1. \A t \in Thread : ArgumentOf(t) # o
  BY HandlesAssumption DEF CallsOK, CallOK, ArgumentOf, Object
<1>2. QED
  BY <1>1 DEF Refs, Owns

LEMMA OwnersOfNext ==
  ASSUME CallsOK', NEW o \in Object, NEW x
  PROVE  x \in Refs(o)' <=> Owns(x, o)'
<1>1. \A t \in Thread : ArgumentOf(t)' # o
  BY HandlesAssumption DEF CallsOK, CallOK, ArgumentOf, Object
<1>2. QED
  BY <1>1 DEF Refs, Owns

LEMMA RefsFinite == ASSUME NEW o PROVE IsFiniteSet(Refs(o)) /\ IsFiniteSet(Refs(o)')
<1>1. IsFiniteSet({o}) /\ IsFiniteSet(Thread) /\ IsFiniteSet(Child)
  BY HandlesAssumption, FS_Singleton, FS_Union DEF Child
<1>2. IsFiniteSet({o} \cup Thread \cup Child)
  BY <1>1, FS_Union
<1>3. Refs(o) \subseteq {o} \cup Thread \cup Child /\ Refs(o)' \subseteq {o} \cup Thread \cup Child
  BY DEF Refs
<1>4. QED
  BY <1>2, <1>3, FS_Subset

\* What one more and one owner less do to a count.
LEMMA CountAdd ==
  ASSUME NEW S, IsFiniteSet(S), NEW x, x \notin S, NEW T, \A y : y \in T <=> y \in S \/ y = x
  PROVE  Cardinality(T) = Cardinality(S) + 1
<1>1. T = S \cup {x}
  OBVIOUS
<1>2. QED
  BY <1>1, FS_AddElement

LEMMA CountDel ==
  ASSUME NEW S, IsFiniteSet(S), NEW x, x \in S, NEW T, \A y : y \in T <=> y \in S /\ y # x
  PROVE  Cardinality(T) = Cardinality(S) - 1
<1>1. T = S \ {x}
  OBVIOUS
<1>2. QED
  BY <1>1, FS_RemoveElement

LEMMA CountSwap ==
  ASSUME NEW S, IsFiniteSet(S), NEW x, x \in S, NEW z, z \notin S,
         NEW T, \A y : y \in T <=> (y \in S /\ y # x) \/ y = z
  PROVE  Cardinality(T) = Cardinality(S)
<1>1. T = (S \ {x}) \cup {z}
  OBVIOUS
<1>2. IsFiniteSet(S \ {x}) /\ Cardinality(S \ {x}) = Cardinality(S) - 1
  BY FS_RemoveElement
<1>3. Cardinality(S) \in Nat
  BY FS_CardinalityType
<1>4. Cardinality((S \ {x}) \cup {z}) = Cardinality(S \ {x}) + 1
  BY <1>2, FS_AddElement
<1>5. QED
  BY <1>1, <1>2, <1>3, <1>4

\* The last reference is the only one, and an object without owners counts 0.
LEMMA LastOwner ==
  ASSUME RefcountExact, NEW o \in Object, NEW x \in Refs(o)
  PROVE  rc[o] # 0 /\ (rc[o] = 1 => Refs(o) = {x})
<1>1. Cardinality(Refs(o)) = rc[o] /\ IsFiniteSet(Refs(o))
  BY RefsFinite DEF RefcountExact
<1>2. rc[o] # 0
  BY <1>1, FS_EmptySet
<1>3. ASSUME rc[o] = 1 PROVE Refs(o) = {x}
  BY <1>1, <1>3, FS_Singleton
<1>4. QED
  BY <1>2, <1>3

LEMMA NoOwner ==
  ASSUME RefcountExact, NEW o \in Object, Refs(o) = {}
  PROVE  rc[o] = 0
BY FS_EmptySet DEF RefcountExact

----------------------------------------------------------------------------
(* Steps that neither give, take nor pass on a reference *)

LEMMA QuietStep ==
  ASSUME IInv, CallsOK', UNCHANGED pyVars,
         \A u \in Thread : /\ th'[u].self = th[u].self /\ th'[u].cur = th[u].cur
                           /\ th'[u].dying = th[u].dying
                           /\ th'[u].pc \in {"open", "opened"} => th[u].pc \in {"open", "opened"}
                           /\ th'[u].pc \in Making <=> th[u].pc \in Making,
         \A s \in Snap : snap'[s].db = snap[s].db,
         \A i \in Iter : iter'[i].db = iter[i].db,
         \A d \in Db : d \notin alloc => db'[d] = db[d]
  PROVE  /\ \A c \in Child : Parent(c)' = Parent(c)
         /\ \A o \in Object : Refs(o)' = Refs(o)
         /\ RefcountExact' /\ Exclusive' /\ Unowned' /\ AllocOK'
<1>1. \A c \in Child : Parent(c)' = Parent(c)
  BY DEF Parent, Detached, Child
<1>2. ASSUME NEW o \in Object PROVE Refs(o)' = Refs(o)
  <2>1. \A x : Owns(x, o)' <=> Owns(x, o)
    BY <1>1 DEF Owns, pyVars
  <2>2. \A x : x \in Refs(o)' <=> x \in Refs(o)
    BY <2>1, OwnersOf, OwnersOfNext DEF IInv
  <2>3. QED
    BY <2>2
<1>3. RefcountExact'
  BY <1>2 DEF IInv, RefcountExact, pyVars
<1>4. Exclusive'
  BY DEF IInv, Exclusive
<1>5. Unowned'
  <2>1. ASSUME NEW u \in Thread, th[u].pc \in {"open", "opened"} PROVE Refs(th[u].self)' = {u}
    <3>1. th[u].self \in Object /\ Refs(th[u].self) = {u}
      BY <2>1 DEF IInv, TypeOK, ThreadOK, Unowned, ThreadOwn, Object
    <3>2. QED
      BY <1>2, <3>1
  <2>2. ASSUME NEW u \in Thread
        PROVE  /\ th[u].dying # Null => Refs(th[u].dying)' = {}
               /\ th[u].cur # Null /\ th[u].cur # th[u].self => Refs(th[u].cur)' = {}
    <3>1. th[u].dying \in Object \cup {Null} /\ th[u].cur \in Object \cup {Null}
      BY DEF IInv, TypeOK, ThreadState, Object, Child
    <3>2. /\ th[u].dying # Null => Refs(th[u].dying) = {}
          /\ th[u].cur # Null /\ th[u].cur # th[u].self => Refs(th[u].cur) = {}
      BY DEF IInv, Unowned, ThreadOwn
    <3>3. QED
      BY <1>2, <3>1, <3>2
  <2>3. QED
    BY <2>1, <2>2 DEF Unowned, ThreadOwn
<1>6. AllocOK'
  BY <1>2 DEF IInv, AllocOK, ThreadAlloc, pyVars, Object
<1>7. QED
  BY <1>1, <1>2, <1>3, <1>4, <1>5, <1>6

----------------------------------------------------------------------------
(* What a reference protects from *)

LEMMA Protected ==
  ASSUME IInv, NEW o \in Object, Refs(o) # {}
  PROVE  /\ o \in alloc
         /\ \A u \in Thread : th[u].dying # o
         /\ \A u \in Thread : th[u].cur = o => th[u].self = o
BY HandlesAssumption DEF IInv, AllocOK, ThreadAlloc, Unowned, ThreadOwn, TypeOK, ThreadState, Object

LEMMA SelfHeld ==
  ASSUME IInv, NEW t \in Thread, th[t].self \in Object
  PROVE  /\ Refs(th[t].self) # {} /\ th[t].self \in alloc
         /\ \A u \in Thread : th[u].dying # th[t].self
         /\ \A u \in Thread : th[u].cur = th[t].self => th[u].self = th[t].self
<1>1. t \in Refs(th[t].self)
  BY OwnersOf DEF IInv, Owns
<1>2. QED
  BY <1>1, Protected

LEMMA NamedHeld ==
  ASSUME IInv, NEW o \in named
  PROVE  /\ o \in Object /\ Refs(o) # {} /\ o \in alloc
         /\ \A u \in Thread : th[u].dying # o
         /\ \A u \in Thread : th[u].cur = o => th[u].self = o
<1>1. o \in Object
  BY DEF IInv, TypeOK
<1>2. o \in Refs(o)
  BY <1>1, OwnersOf DEF IInv, Owns
<1>3. QED
  BY <1>1, <1>2, Protected

LEMMA ParentHeld ==
  ASSUME IInv, NEW c \in Child, Parent(c) # Null
  PROVE  /\ Parent(c) \in Db /\ Refs(Parent(c)) # {} /\ Parent(c) \in alloc
         /\ \A u \in Thread : th[u].dying # Parent(c)
<1>1. Parent(c) \in Db
  BY DEF IInv, TypeOK, Parent, SnapStruct, IterStruct, Child
<1>2. c \in Refs(Parent(c))
  BY <1>1, OwnersOf DEF IInv, Owns, Object
<1>3. QED
  BY <1>1, <1>2, Protected DEF Object

\* A snapshot that is in use is linked to its open database.
LEMMA SnapHeld ==
  ASSUME IInv, NEW s \in Snap, Refs(s) # {}
  PROVE  /\ \A u \in Thread : th[u].cur # s
         /\ snap[s].db \in Db /\ snap[s].native = snap[s].db
         /\ Parent(s) = snap[s].db /\ Up(snap[s].db)
<1>1. ASSUME NEW u \in Thread, th[u].cur = s PROVE FALSE
  <2>1. th[u].self = s
    BY <1>1, Protected DEF Object
  <2>2. th[u].pc \in {"release", "unsnap"} \cup Closing
    BY <1>1 DEF IInv, SnapsOK, ThreadSnap
  <2>3. th[u].self = Null \/ th[u].self \notin Db \cup Snap
    BY <2>2 DEF IInv, TypeOK, CallsOK, CallOK, ThreadOK, Closing
  <2>4. QED
    BY <2>1, <2>3, HandlesAssumption DEF Object
<1>2. snap[s].db \in Db /\ snap[s].native = snap[s].db
  BY <1>1 DEF IInv, SnapsOK, TypeOK, SnapStruct
<1>3. Parent(s) = snap[s].db
  BY <1>1 DEF Parent, Detached
<1>4. snap[s].db # Null
  BY <1>2, HandlesAssumption DEF Object
<1>5. Up(snap[s].db)
  BY <1>3, <1>4 DEF IInv, DbsOK, Child
<1>6. QED
  BY <1>1, <1>2, <1>3, <1>5

\* The database of a call in progress is open.
LEMMA CallUp ==
  ASSUME IInv, NEW t \in Thread, th[t].pc \in {"get"} \cup Making
  PROVE  /\ th[t].using \in Db /\ th[t].using = DbOf(th[t].self) /\ Up(th[t].using)
         /\ Reach(th[t].self) = "none"
<1>1. th[t].using \in Db /\ th[t].using = DbOf(th[t].self)
  BY DEF IInv, CallsOK, CallOK
<1>2. th[t].self \in Db \cup Snap
  BY DEF IInv, TypeOK, ThreadOK, Making
<1>3. CASE th[t].self \in Db
  <2>1. th[t].using = th[t].self /\ Up(th[t].self)
    BY <1>1, <1>3 DEF IInv, DbsOK, ThreadDb, DbOf
  <2>2. th[t].self # Null /\ th[t].self \notin Snap
    BY <1>3, HandlesAssumption DEF Object, Child
  <2>3. QED
    BY <1>1, <2>1, <2>2 DEF Reach, DbPointer, Deref, Both, Up
<1>4. CASE th[t].self \in Snap
  <2>1. th[t].self \notin Db
    BY <1>4, HandlesAssumption DEF Child
  <2>2. th[t].using = snap[th[t].self].db
    BY <1>1, <2>1 DEF DbOf
  <2>3. Refs(th[t].self) # {}
    BY <1>4, SelfHeld DEF Object
  <2>4. Up(th[t].using) /\ snap[th[t].self].native = th[t].using /\ th[t].using # Null
    BY <1>1, <1>4, <2>2, <2>3, SnapHeld, HandlesAssumption DEF Object
  <2>5. QED
    BY <1>1, <2>2, <2>4 DEF Reach, DbPointer, Deref, Both, Up, ChildPointer
<1>5. QED
  BY <1>2, <1>3, <1>4

\* Only its constructor knows a database that is being opened.
LEMMA OpeningAlone ==
  ASSUME IInv, NEW t \in Thread, th[t].pc \in {"open", "opened"}
  PROVE  /\ th[t].self \in Db /\ Refs(th[t].self) = {t} /\ th[t].self \notin named
         /\ \A u \in Thread : th[u].self = th[t].self => u = t
<1>1. th[t].self \in Db /\ Refs(th[t].self) = {t}
  BY DEF IInv, Unowned, ThreadOwn, TypeOK, ThreadOK
<1>2. \A x : Owns(x, th[t].self) => x = t
  BY <1>1, OwnersOf DEF IInv, Object
<1>3. th[t].self # t
  BY <1>1, HandlesAssumption DEF Object
<1>4. QED
  BY <1>1, <1>2, <1>3 DEF Owns

----------------------------------------------------------------------------
(* The actions, one lemma each *)

\* All that the actions below change of a thread's state.
LEMMA Moved ==
  ASSUME TypeOK, NEW t \in Thread, NEW l, Goto(t, l)
  PROVE  /\ th'[t].pc = l
         /\ \A u \in Thread : /\ u # t => th'[u] = th[u]
                             /\ th'[u].self = th[u].self /\ th'[u].cur = th[u].cur
                             /\ th'[u].dying = th[u].dying /\ th'[u].using = th[u].using
BY DEF TypeOK, ThreadState, Goto

\* A step of thread t keeps threads apart, and owners in order, if that thread
\* and the objects it changes are.
LEMMA ExclusiveStep ==
  ASSUME IInv, NEW t \in Thread, \A u \in Thread \ {t} : th'[u] = th[u],
         \A u \in Thread \ {t} : /\ th'[t].cur # Null => th'[t].cur # th[u].cur
                                 /\ th'[t].dying # Null => th'[t].dying # th[u].dying
                                 /\ th'[t].self \in Iter => th'[t].self # th[u].self
  PROVE  Exclusive'
BY DEF IInv, Exclusive

\* Thread u has a say in who owns o.
Claims(u, o) ==
  \/ th[u].dying = o
  \/ th[u].cur = o /\ th[u].self # o
  \/ th[u].self = o /\ th[u].pc \in {"open", "opened"}

LEMMA OwnStep ==
  ASSUME IInv, NEW t \in Thread, \A u \in Thread \ {t} : th'[u] = th[u], ThreadOwn(t)',
         \A o \in Object : Refs(o)' = Refs(o) \/ \A u \in Thread \ {t} : ~ Claims(u, o)
  PROVE  Unowned'
<1>1. ASSUME NEW u \in Thread, u # t PROVE ThreadOwn(u)'
  <2>1. th'[u] = th[u] /\ ThreadOwn(u)
    BY <1>1 DEF IInv, Unowned
  <2>2. ASSUME th[u].dying # Null PROVE Refs(th[u].dying)' = {}
    <3>1. th[u].dying \in Object /\ Claims(u, th[u].dying)
      BY <2>2 DEF IInv, TypeOK, ThreadState, Object, Claims
    <3>2. QED
      BY <1>1, <2>1, <2>2, <3>1 DEF ThreadOwn
  <2>3. ASSUME th[u].cur # Null, th[u].cur # th[u].self PROVE Refs(th[u].cur)' = {}
    <3>1. th[u].cur \in Object /\ Claims(u, th[u].cur)
      BY <2>3 DEF IInv, TypeOK, ThreadState, Object, Child, Claims
    <3>2. QED
      BY <1>1, <2>1, <2>3, <3>1 DEF ThreadOwn
  <2>4. ASSUME th[u].pc \in {"open", "opened"} PROVE Refs(th[u].self)' = {u}
    <3>1. th[u].self \in Object /\ Claims(u, th[u].self)
      BY <2>4 DEF IInv, TypeOK, ThreadOK, Object, Claims
    <3>2. QED
      BY <1>1, <2>1, <2>4, <3>1 DEF ThreadOwn
  <2>5. QED
    BY <2>1, <2>2, <2>3, <2>4 DEF ThreadOwn
<1>2. QED
  BY <1>1 DEF Unowned

\* Nothing that the program names or a child refers to is claimed.
LEMMA Unclaimed ==
  ASSUME IInv, NEW o \in Object, NEW x \in Refs(o), NEW u \in Thread, x # u
  PROVE  ~ Claims(u, o)
BY HandlesAssumption DEF IInv, Unowned, ThreadOwn, Claims, Object

\* A step that allocates and frees nothing.
LEMMA AllocStep ==
  ASSUME IInv, UNCHANGED alloc, NEW t \in Thread, \A u \in Thread \ {t} : th'[u] = th[u], ThreadAlloc(t)',
         \A o \in Object : Refs(o)' # {} => Refs(o) # {} \/ o \in alloc,
         \A s \in Snap : snap'[s].db \in {Null, snap[s].db},
         \A i \in Iter : iter'[i].db \in {Null, iter[i].db},
         \A d \in Db : d \notin alloc => db'[d] = db[d]
  PROVE  AllocOK'
<1>1. \A u \in Thread \ {t} : ThreadAlloc(u)'
  BY DEF IInv, AllocOK, ThreadAlloc
<1>2. QED
  BY <1>1 DEF IInv, AllocOK

LEMMA RefcountStep ==
  ASSUME IInv, \A o \in Object : \/ Refs(o)' = Refs(o) /\ rc'[o] = rc[o]
                                 \/ rc'[o] = Cardinality(Refs(o)')
  PROVE  RefcountExact'
BY DEF IInv, RefcountExact

\* A step of thread t is a good call if that thread says so.
LEMMA CallsStep ==
  ASSUME IInv, NEW t \in Thread, CallOK(t)', \A u \in Thread \ {t} : th'[u] = th[u],
         \A s \in Snap : snap'[s].db = snap[s].db \/ \A u \in Thread : th[u].self # s
  PROVE  CallsOK'
<1>1. ASSUME NEW u \in Thread, u # t PROVE CallOK(u)'
  <2>1. th'[u] = th[u] /\ CallOK(u)
    BY <1>1 DEF IInv, CallsOK
  <2>2. ASSUME th[u].pc \in {"get"} \cup Making PROVE DbOf(th[u].self)' = DbOf(th[u].self)
    <3>1. th[u].self \in Db \cup Snap
      BY <2>2 DEF IInv, TypeOK, ThreadOK, Making
    <3>2. QED
      BY <2>1, <3>1 DEF DbOf
  <2>3. QED
    BY <2>1, <2>2 DEF CallOK
<1>2. QED
  BY <1>1 DEF CallsOK

\* A step that has nothing to do with any child keeps what is known of them.
LEMMA ChildrenStep ==
  ASSUME IInv, UNCHANGED <<snap, iter>>,
         \A s \in Snap : Refs(s)' # {} => Refs(s) # {},
         \A u \in Thread : /\ th'[u].cur = th[u].cur
                           /\ th[u].cur \in Child => th'[u].pc = th[u].pc /\ th'[u].using = th[u].using
  PROVE  SnapsOK' /\ ItersOK'
BY DEF IInv, SnapsOK, ItersOK, ThreadSnap, ThreadIter, Child

\* A step of the thread that works on the iterator, or snapshot, th[t].cur.
LEMMA OneIterStep ==
  ASSUME IInv, UNCHANGED snap, NEW t \in Thread, th[t].cur \in Iter, ThreadIter(t)',
         \A i \in Iter \ {th[t].cur} : iter'[i] = iter[i],
         \A s \in Snap : Refs(s)' # {} => Refs(s) # {},
         th'[t].cur = th[t].cur, \A u \in Thread \ {t} : th'[u] = th[u]
  PROVE  SnapsOK' /\ ItersOK'
<1>1. \A i \in Iter : (\A u \in Thread : th'[u].cur # i) => iter'[i].native = iter'[i].db
  BY DEF IInv, ItersOK
<1>2. \A u \in Thread \ {t} : ThreadIter(u)'
  BY HandlesAssumption DEF IInv, ItersOK, ThreadIter, Exclusive, Object
<1>3. \A u \in Thread : ThreadSnap(u)'
  BY HandlesAssumption DEF IInv, SnapsOK, ThreadSnap
<1>4. QED
  BY <1>1, <1>2, <1>3 DEF IInv, SnapsOK, ItersOK

\* A step of thread t that only turns to a child, or goes on with the same one.
LEMMA TurnStep ==
  ASSUME IInv, UNCHANGED <<snap, iter>>, NEW t \in Thread, ThreadSnap(t)', ThreadIter(t)',
         \A s \in Snap : Refs(s)' # {} => Refs(s) # {},
         th[t].cur # Null => th'[t].cur = th[t].cur, \A u \in Thread \ {t} : th'[u] = th[u]
  PROVE  SnapsOK' /\ ItersOK'
<1>1. \A u \in Thread \ {t} : ThreadSnap(u)' /\ ThreadIter(u)'
  BY DEF IInv, SnapsOK, ItersOK, ThreadSnap, ThreadIter
<1>2. \A u \in Thread : th[u].cur # Null => th'[u].cur = th[u].cur
  OBVIOUS
<1>3. \A c \in Child : (\A u \in Thread : th'[u].cur # c) => \A u \in Thread : th[u].cur # c
  BY <1>2, HandlesAssumption DEF Object, Child
<1>4. QED
  BY <1>1, <1>3 DEF IInv, SnapsOK, ItersOK, Child

LEMMA OneSnapStep ==
  ASSUME IInv, UNCHANGED iter, NEW t \in Thread, th[t].cur \in Snap, ThreadSnap(t)',
         \A s \in Snap \ {th[t].cur} : snap'[s] = snap[s],
         \A s \in Snap : Refs(s)' # {} => Refs(s) # {},
         th'[t].cur = th[t].cur, \A u \in Thread \ {t} : th'[u] = th[u]
  PROVE  SnapsOK' /\ ItersOK'
<1>1. \A s \in Snap : (\A u \in Thread : th'[u].cur # s) => snap'[s].native = snap'[s].db
  BY DEF IInv, SnapsOK
<1>2. \A u \in Thread \ {t} : ThreadSnap(u)'
  BY HandlesAssumption DEF IInv, SnapsOK, ThreadSnap, Exclusive, Object
<1>3. \A u \in Thread : ThreadIter(u)'
  BY HandlesAssumption DEF IInv, ItersOK, ThreadIter
<1>4. \A s \in Snap : Refs(s)' # {} => snap'[s].db # Null
  BY SnapHeld, HandlesAssumption DEF ThreadSnap, Object
<1>5. QED
  BY <1>1, <1>2, <1>3, <1>4 DEF IInv, SnapsOK, ItersOK

\* A step that closes no database and moves nobody towards closing one.
LEMMA OpenDbsStep ==
  ASSUME IInv, \A e \in Db : Up(e) => Up(e)',
         \A e \in named' \cap Db : e \notin named => Up(e)',
         \A c \in Child : Parent(c)' # Null /\ Parent(c)' # Parent(c) => Up(Parent(c))'
  PROVE  /\ \A e \in named' \cap Db : Up(e)'
         /\ \A c \in Child : Parent(c)' # Null => Up(Parent(c))'
<1>1. \A e \in named' \cap Db : Up(e)'
  BY DEF IInv, DbsOK
<1>2. ASSUME NEW c \in Child, Parent(c)' # Null, Parent(c)' = Parent(c) PROVE Up(Parent(c))'
  BY <1>2, ParentHeld DEF IInv, DbsOK, Up
<1>3. QED
  BY <1>1, <1>2

\* A thread that stays where it is, and whose databases stay as they are.
LEMMA SameThreadDb ==
  ASSUME TypeOK, NEW u \in Thread, ThreadDb(u), th'[u] = th[u],
         \A e \in Db : e \in {th[u].self, th[u].dying} =>
                       db'[e].native = db[e].native /\ db'[e].aux = db[e].aux
  PROVE  ThreadDb(u)'
<1> DEFINE self == th[u].self
           d    == th[u].dying
<1>1. (th[u].pc = "open" => self \in Db) /\ (th[u].pc \in Closing => d \in Db)
  BY DEF TypeOK, ThreadOK, Closing
<1>2. self \in Db => db'[self].native = db[self].native /\ db'[self].aux = db[self].aux
  OBVIOUS
<1>3. d \in Db => db'[d].native = db[d].native /\ db'[d].aux = db[d].aux
  OBVIOUS
<1>4. /\ self \in Db /\ th[u].pc \in {"opened", "native", "get"} \cup Making => Up(self)'
      /\ self \in Db /\ th[u].pc = "return" => Up(self)' \/ Down(self)'
      /\ th[u].pc = "open" => db'[self].native = "null" /\ db'[self].aux = "live"
  BY <1>1, <1>2 DEF ThreadDb, Up, Down
<1>5. /\ th[u].pc = "close" => Up(d)' \/ Down(d)'
      /\ th[u].pc = "close_aux" => Down(d)' \/ (db'[d].native = "dangling" /\ db'[d].aux = "live")
      /\ th[u].pc = "closed" => Down(d)' \/ (db'[d].native = "dangling" /\ db'[d].aux = "dangling")
  BY <1>1, <1>3 DEF ThreadDb, Up, Down, Closing
<1>6. QED
  BY <1>4, <1>5 DEF ThreadDb

\* A step that leaves the databases alone has to account for one thread only.
LEMMA SameDbsStep ==
  ASSUME IInv, NEW t \in Thread, ThreadDb(t)',
         \A e \in Db : db'[e].native = db[e].native /\ db'[e].aux = db[e].aux,
         \A u \in Thread : u # t => /\ th'[u].self = th[u].self /\ th'[u].pc = th[u].pc
                                    /\ th'[u].dying = th[u].dying,
         \A e \in named' \cap Db : e \notin named => Up(e)',
         \A c \in Child : Parent(c)' # Null /\ Parent(c)' # Parent(c) => Up(Parent(c))'
  PROVE  DbsOK'
<1>1. \A e \in Db : Up(e) => Up(e)'
  BY DEF Up
<1>2. ASSUME NEW u \in Thread, u # t PROVE ThreadDb(u)'
  <2>1. th'[u].self = th[u].self /\ th'[u].pc = th[u].pc /\ th'[u].dying = th[u].dying
    BY <1>2
  <2>2. ThreadDb(u) /\ (th[u].pc = "open" => th[u].self \in Db)
                    /\ (th[u].pc \in Closing => th[u].dying \in Db)
    BY DEF IInv, DbsOK, TypeOK, ThreadOK, Closing
  <2>3. QED
    BY <2>1, <2>2 DEF ThreadDb, Up, Down, Closing
<1>3. QED
  BY <1>1, <1>2, OpenDbsStep DEF DbsOK

LEMMA OpenOkInv ==
  ASSUME IInv, TypeOK', NEW t \in Thread, OpenOk(t)
  PROVE  IInv'
<1> DEFINE d == th[t].self
<1>1. th[t].pc = "open" /\ fault = "none" /\ d \in Db /\ th[t].cur = Null /\ th[t].dying = Null
  BY DEF OpenOk, At, IInv, TypeOK, ThreadOK, CallsOK, CallOK, Closing
<1>2. Goto(t, "opened") /\ db' = [db EXCEPT ![d].native = "live"] /\ UNCHANGED <<pyVars, snap, iter>>
  BY <1>1 DEF OpenOk
<1>3. /\ th'[t].pc = "opened"
      /\ \A u \in Thread : /\ u # t => th'[u] = th[u]
                          /\ th'[u].self = th[u].self /\ th'[u].cur = th[u].cur
                          /\ th'[u].dying = th[u].dying /\ th'[u].using = th[u].using
  BY <1>2, Moved DEF IInv
<1>4. db[d].native = "null" /\ db[d].aux = "live" /\ d \in alloc /\ \A u \in Thread : th[u].dying # d
  BY <1>1, SelfHeld DEF IInv, DbsOK, ThreadDb, Object
<1>5. db'[d].native = "live" /\ db'[d].aux = "live" /\ \A e \in Db \ {d} : db'[e] = db[e]
  BY <1>1, <1>2, <1>4 DEF IInv, TypeOK, DbStruct
<1>6. MemorySafe'
  BY <1>4, <1>1 DEF OpenOk, MemorySafe, Deref
<1>7. CallsOK'
  BY <1>1, <1>2, <1>3 DEF IInv, CallsOK, CallOK, DbOf, Closing, Making
<1>8. /\ \A c \in Child : Parent(c)' = Parent(c)
      /\ \A o \in Object : Refs(o)' = Refs(o)
      /\ RefcountExact' /\ Exclusive' /\ Unowned' /\ AllocOK'
  BY <1>1, <1>2, <1>3, <1>4, <1>5, <1>7, QuietStep DEF Making
<1>9. DbsOK'
  <2>1. \A e \in Db : Up(e) => Up(e)'
    BY <1>5 DEF Up
  <2>2. /\ \A e \in named' \cap Db : Up(e)'
        /\ \A c \in Child : Parent(c)' # Null => Up(Parent(c))'
    BY <1>2, <1>8, <2>1, OpenDbsStep DEF pyVars
  <2>4. \A u \in Thread : th[u].self = d => u = t
    BY <1>1, OpeningAlone
  <2>5. ASSUME NEW u \in Thread, u # t PROVE ThreadDb(u)'
    <3>1. th'[u] = th[u] /\ th[u].self # d /\ th[u].dying # d
      BY <1>3, <1>4, <2>4, <2>5
    <3>2. QED
      BY <1>5, <3>1, SameThreadDb DEF IInv, DbsOK
  <2>6. ThreadDb(t)'
    BY <1>1, <1>3, <1>5 DEF ThreadDb, Up, Down, Making
  <2>7. QED
    BY <2>2, <2>5, <2>6 DEF DbsOK
<1>10. SnapsOK' /\ ItersOK'
  BY <1>1, <1>2, <1>3, <1>8, ChildrenStep, HandlesAssumption DEF Object, Child
<1>11. QED
  BY <1>6, <1>7, <1>8, <1>9, <1>10 DEF IInv

LEMMA OpenFailsInv ==
  ASSUME IInv, TypeOK', NEW t \in Thread, OpenFails(t)
  PROVE  IInv'
<1> DEFINE d == th[t].self
<1>1. th[t].pc = "open" /\ fault = "none" /\ d \in Db /\ th[t].cur = Null /\ th[t].dying = Null
  BY DEF OpenFails, At, IInv, TypeOK, ThreadOK, CallsOK, CallOK, Closing
<1>2. /\ Goto(t, "return") /\ UNCHANGED <<pyVars, snap, iter>>
      /\ db' = [db EXCEPT ![d] = [@ EXCEPT !.native = "null", !.aux = "null"]]
  BY <1>1 DEF OpenFails
<1>3. /\ th'[t].pc = "return"
      /\ \A u \in Thread : /\ u # t => th'[u] = th[u]
                          /\ th'[u].self = th[u].self /\ th'[u].cur = th[u].cur
                          /\ th'[u].dying = th[u].dying /\ th'[u].using = th[u].using
  BY <1>2, Moved DEF IInv
<1>4. db[d].native = "null" /\ db[d].aux = "live" /\ d \in alloc /\ \A u \in Thread : th[u].dying # d
  BY <1>1, SelfHeld DEF IInv, DbsOK, ThreadDb, Object
<1>5. Down(d)' /\ \A e \in Db \ {d} : db'[e] = db[e]
  <2>1. db'[d] = [db[d] EXCEPT !.native = "null", !.aux = "null"] /\ db[d] \in DbStruct
    BY <1>1, <1>2 DEF IInv, TypeOK
  <2>2. db'[d].native = "null" /\ db'[d].aux = "null"
    BY <2>1 DEF DbStruct
  <2>3. Down(d)'
    BY <1>3, <2>2 DEF Down
  <2>4. \A e \in Db \ {d} : db'[e] = db[e]
    BY <1>1, <1>2 DEF IInv, TypeOK
  <2>5. QED
    BY <2>3, <2>4
<1>6. MemorySafe'
  BY <1>4, <1>1 DEF OpenFails, MemorySafe, Deref
<1>7. CallsOK'
  BY <1>1, <1>2, <1>3 DEF IInv, CallsOK, CallOK, DbOf, Closing, Making
<1>8. /\ \A c \in Child : Parent(c)' = Parent(c)
      /\ \A o \in Object : Refs(o)' = Refs(o)
      /\ RefcountExact' /\ Exclusive' /\ Unowned' /\ AllocOK'
  BY <1>1, <1>2, <1>3, <1>4, <1>5, <1>7, QuietStep DEF Making
<1>9. DbsOK'
  <2>1. \A e \in Db : Up(e) => Up(e)'
    BY <1>4, <1>5 DEF Up
  <2>2. /\ \A e \in named' \cap Db : Up(e)'
        /\ \A c \in Child : Parent(c)' # Null => Up(Parent(c))'
    BY <1>2, <1>8, <2>1, OpenDbsStep DEF pyVars
  <2>3. \A u \in Thread : th[u].self = d => u = t
    BY <1>1, OpeningAlone
  <2>4. ASSUME NEW u \in Thread, u # t PROVE ThreadDb(u)'
    <3>1. th'[u] = th[u] /\ th[u].self # d /\ th[u].dying # d
      BY <1>3, <1>4, <2>3, <2>4
    <3>2. QED
      BY <1>5, <3>1, SameThreadDb DEF IInv, DbsOK
  <2>6. ThreadDb(t)'
    BY <1>1, <1>3, <1>5 DEF ThreadDb, Up, Down, Making
  <2>7. QED
    BY <2>2, <2>4, <2>6 DEF DbsOK
<1>10. SnapsOK' /\ ItersOK'
  BY <1>1, <1>2, <1>3, <1>8, ChildrenStep, HandlesAssumption DEF Object, Child
<1>11. QED
  BY <1>6, <1>7, <1>8, <1>9, <1>10 DEF IInv

LEMMA NativeCallInv ==
  ASSUME IInv, TypeOK', NEW t \in Thread, NativeCall(t)
  PROVE  IInv'
<1> DEFINE d == th[t].self
<1>1. th[t].pc = "native" /\ fault = "none" /\ d \in Db /\ th[t].cur = Null /\ th[t].dying = Null
  BY DEF NativeCall, At, IInv, TypeOK, ThreadOK
<1>2. Goto(t, "return") /\ UNCHANGED <<pyVars, db, snap, iter>>
  BY DEF NativeCall
<1>3. /\ th'[t].pc = "return"
      /\ \A u \in Thread : /\ u # t => th'[u] = th[u]
                          /\ th'[u].self = th[u].self /\ th'[u].cur = th[u].cur
                          /\ th'[u].dying = th[u].dying /\ th'[u].using = th[u].using
  BY <1>2, Moved DEF IInv
<1>4. Up(d)
  BY <1>1 DEF IInv, DbsOK, ThreadDb
<1>5. MemorySafe'
  BY <1>4 DEF NativeCall, MemorySafe, Deref, Up
<1>6. CallsOK'
  BY <1>1, <1>2, <1>3 DEF IInv, CallsOK, CallOK, DbOf, Closing, Making
<1>7. /\ \A c \in Child : Parent(c)' = Parent(c)
      /\ \A o \in Object : Refs(o)' = Refs(o)
      /\ RefcountExact' /\ Exclusive' /\ Unowned' /\ AllocOK'
  BY <1>1, <1>2, <1>3, <1>6, QuietStep DEF Making
<1>8. ThreadDb(t)'
  BY <1>2, <1>3, <1>4 DEF ThreadDb, Up, Making
<1>9. DbsOK'
  BY <1>2, <1>3, <1>7, <1>8, SameDbsStep DEF pyVars
<1>10. SnapsOK' /\ ItersOK'
  BY <1>1, <1>2, <1>3, <1>7, ChildrenStep, HandlesAssumption DEF Object, Child
<1>11. QED
  BY <1>5, <1>6, <1>7, <1>9, <1>10 DEF IInv

LEMMA EngineGetInv ==
  ASSUME IInv, TypeOK', NEW t \in Thread, EngineGet(t)
  PROVE  IInv'
<1>1. /\ th[t].pc = "get" /\ fault = "none" /\ th[t].self \in Db \cup Snap
      /\ th[t].cur = Null /\ th[t].dying = Null
  BY DEF EngineGet, At, IInv, TypeOK, ThreadOK
<1>2. /\ th' = [th EXCEPT ![t].pc = "return", ![t].using = Null]
      /\ UNCHANGED <<pyVars, db, snap, iter>>
  BY DEF EngineGet
<1>3. /\ th'[t].pc = "return"
      /\ \A u \in Thread : /\ u # t => th'[u] = th[u]
                          /\ th'[u].self = th[u].self /\ th'[u].cur = th[u].cur
                          /\ th'[u].dying = th[u].dying
  BY <1>2 DEF IInv, TypeOK, ThreadState
<1>4. th[t].using \in Db /\ (th[t].self \in Db => Up(th[t].self))
  BY <1>1, CallUp DEF IInv, DbsOK, ThreadDb
<1>5. MemorySafe'
  BY <1>4, HandlesAssumption DEF EngineGet, MemorySafe, Deref, PointerTo, Object
<1>6. CallsOK'
  <2>1. ASSUME NEW u \in Thread, u # t PROVE DbOf(th[u].self)' = DbOf(th[u].self)
    <3>1. th'[u] = th[u] /\ snap' = snap
      BY <1>2, <1>3, <2>1
    <3>2. QED
      BY <3>1 DEF DbOf
  <2>2. QED
    BY <1>1, <1>3, <2>1 DEF IInv, CallsOK, CallOK, Closing, Making
<1>7. /\ \A c \in Child : Parent(c)' = Parent(c)
      /\ \A o \in Object : Refs(o)' = Refs(o)
      /\ RefcountExact' /\ Exclusive' /\ Unowned' /\ AllocOK'
  BY <1>1, <1>2, <1>3, <1>6, QuietStep DEF Making
<1>8. ThreadDb(t)'
  BY <1>2, <1>3, <1>4 DEF ThreadDb, Up, Making
<1>9. DbsOK'
  BY <1>2, <1>3, <1>7, <1>8, SameDbsStep DEF pyVars
<1>10. SnapsOK' /\ ItersOK'
  BY <1>1, <1>2, <1>3, <1>7, ChildrenStep, HandlesAssumption DEF Object, Child
<1>11. QED
  BY <1>5, <1>6, <1>7, <1>9, <1>10 DEF IInv

----------------------------------------------------------------------------
(* The quiet actions on children *)

\* A step of thread t on the native iterator it makes or cleans.
LEMMA QuietIterInv ==
  ASSUME IInv, TypeOK', MemorySafe', NEW t \in Thread, th[t].cur \in Iter,
         UNCHANGED <<pyVars, db, snap>>, \A u \in Thread \ {t} : th'[u] = th[u],
         /\ th'[t].self = th[t].self /\ th'[t].cur = th[t].cur /\ th'[t].dying = th[t].dying
         /\ th'[t].pc \in Making <=> th[t].pc \in Making
         /\ th'[t].pc \notin {"open", "opened"},
         CallOK(t)', ThreadDb(t)', ThreadIter(t)',
         \A i \in Iter : /\ iter'[i].db = iter[i].db
                         /\ i # th[t].cur => iter'[i] = iter[i]
  PROVE  IInv'
<1>1. CallsOK'
  BY CallsStep
<1>2. \A u \in Thread : /\ th'[u].self = th[u].self /\ th'[u].cur = th[u].cur
                        /\ th'[u].dying = th[u].dying
                        /\ th'[u].pc \in {"open", "opened"} => th[u].pc \in {"open", "opened"}
                        /\ th'[u].pc \in Making <=> th[u].pc \in Making
  OBVIOUS
<1>3. (\A s \in Snap : snap'[s].db = snap[s].db) /\ (\A d \in Db : d \notin alloc => db'[d] = db[d])
  OBVIOUS
<1>4. /\ \A c \in Child : Parent(c)' = Parent(c)
      /\ \A o \in Object : Refs(o)' = Refs(o)
      /\ RefcountExact' /\ Exclusive' /\ Unowned' /\ AllocOK'
  BY <1>1, <1>2, <1>3, QuietStep
<1>5. DbsOK'
  BY <1>4, SameDbsStep DEF pyVars
<1>6. SnapsOK' /\ ItersOK'
  <2>1. \A s \in Snap : Refs(s)' # {} => Refs(s) # {}
    BY <1>4 DEF Object
  <2>2. \A j \in Iter \ {th[t].cur} : iter'[j] = iter[j]
    OBVIOUS
  <2>3. QED
    BY <2>1, <2>2, OneIterStep
<1>7. QED
  BY <1>1, <1>4, <1>5, <1>6 DEF IInv

LEMMA SeekInv ==
  ASSUME IInv, TypeOK', NEW t \in Thread, Seek(t)
  PROVE  IInv'
<1> DEFINE d == th[t].using
<1>1. /\ th[t].pc = "seek" /\ fault = "none" /\ th[t].self \in Db \cup Snap
      /\ th[t].cur \in Iter /\ th[t].dying = Null
  BY DEF Seek, At, IInv, TypeOK, ThreadOK
<1>2. d \in Db /\ d = DbOf(th[t].self) /\ Up(d) /\ d \notin {Null, Orphan}
  BY <1>1, CallUp, HandlesAssumption DEF Making, Object
<1>3. /\ UNCHANGED <<pyVars, db, snap>> /\ iter' = [iter EXCEPT ![th[t].cur].native = d]
      /\ \E label \in {"make", "discard"} :
           th' = [th EXCEPT ![t].pc = label, ![t].using = IF d \in Db THEN d ELSE Null]
  BY DEF Seek
<1>4. /\ th'[t].pc \in {"make", "discard"} /\ th'[t].using = d
      /\ th'[t].self = th[t].self /\ th'[t].cur = th[t].cur /\ th'[t].dying = th[t].dying
      /\ \A u \in Thread \ {t} : th'[u] = th[u]
  <2>1. PICK label \in {"make", "discard"} :
          th' = [th EXCEPT ![t].pc = label, ![t].using = d]
    BY <1>2, <1>3
  <2>2. QED
    BY <2>1 DEF IInv, TypeOK, ThreadState
<1>5. /\ iter'[th[t].cur].native = d /\ iter'[th[t].cur].db = iter[th[t].cur].db
      /\ \A i \in Iter : i # th[t].cur => iter'[i] = iter[i]
  BY <1>1, <1>3 DEF IInv, TypeOK, IterStruct
<1>6. MemorySafe'
  BY <1>2 DEF Seek, MemorySafe, Both, Deref, DbPointer, Up
<1>7. CallOK(t)'
  BY <1>1, <1>2, <1>3, <1>4 DEF CallOK, Closing, Making, DbOf
<1>8. ThreadDb(t)'
  BY <1>1, <1>2, <1>3, <1>4 DEF ThreadDb, Up, DbOf, Making
<1>9. ThreadIter(t)'
  BY <1>4, <1>5 DEF ThreadIter, Closing
<1>10. QED
  BY <1>1, <1>3, <1>4, <1>5, <1>6, <1>7, <1>8, <1>9, QuietIterInv DEF Making

LEMMA DiscardInv ==
  ASSUME IInv, TypeOK', NEW t \in Thread, Discard(t)
  PROVE  IInv'
<1>1. /\ th[t].pc = "discard" /\ fault = "none" /\ th[t].cur \in Iter
  BY DEF Discard, At, IInv, TypeOK, ThreadOK
<1>2. /\ UNCHANGED <<pyVars, db, snap, fault>> /\ Goto(t, "make")
      /\ iter' = [iter EXCEPT ![th[t].cur].native = Null]
  BY DEF Discard
<1>3. /\ th'[t].pc = "make"
      /\ \A u \in Thread : /\ u # t => th'[u] = th[u]
                          /\ th'[u].self = th[u].self /\ th'[u].cur = th[u].cur
                          /\ th'[u].dying = th[u].dying /\ th'[u].using = th[u].using
  BY <1>2, Moved DEF IInv
<1>4. /\ iter'[th[t].cur].native = Null /\ iter'[th[t].cur].db = iter[th[t].cur].db
      /\ \A i \in Iter : i # th[t].cur => iter'[i] = iter[i]
  BY <1>1, <1>2 DEF IInv, TypeOK, IterStruct
<1>5. CallOK(t)'
  BY <1>1, <1>2, <1>3 DEF IInv, CallsOK, CallOK, Closing, Making, DbOf
<1>6. ThreadDb(t)'
  BY <1>1, <1>2, <1>3 DEF IInv, DbsOK, ThreadDb, Up, Making
<1>7. ThreadIter(t)'
  BY <1>3, <1>4 DEF ThreadIter, Closing
<1>8. QED
  BY <1>1, <1>2, <1>3, <1>4, <1>5, <1>6, <1>7, QuietIterInv DEF Making, MemorySafe

LEMMA IterNewFailsInv ==
  ASSUME IInv, TypeOK', NEW t \in Thread, PyLevelDBIter_New_fails(t)
  PROVE  IInv'
<1>1. /\ th[t].pc = "make" /\ fault = "none" /\ th[t].cur \in Iter
  BY DEF PyLevelDBIter_New_fails, At, IInv, TypeOK, ThreadOK
<1>2. UNCHANGED <<pyVars, db, snap, iter, fault>> /\ Goto(t, "abandon")
  BY DEF PyLevelDBIter_New_fails
<1>3. /\ th'[t].pc = "abandon"
      /\ \A u \in Thread : /\ u # t => th'[u] = th[u]
                          /\ th'[u].self = th[u].self /\ th'[u].cur = th[u].cur
                          /\ th'[u].dying = th[u].dying /\ th'[u].using = th[u].using
  BY <1>2, Moved DEF IInv
<1>4. CallOK(t)'
  BY <1>1, <1>2, <1>3 DEF IInv, CallsOK, CallOK, Closing, Making, DbOf
<1>5. ThreadDb(t)'
  BY <1>1, <1>2, <1>3 DEF IInv, DbsOK, ThreadDb, Up, Making
<1>6. ThreadIter(t)'
  BY <1>1, <1>2, <1>3 DEF IInv, ItersOK, ThreadIter, Closing
<1>7. QED
  BY <1>1, <1>2, <1>3, <1>4, <1>5, <1>6, QuietIterInv DEF Making, MemorySafe

\* The child that thread t cleans or deallocates, as long as its database has
\* not been given back: the thread's alone, and linked to an open database.
LEMMA CurHeld ==
  ASSUME IInv, NEW t \in Thread, th[t].cur \in Child, th[t].dying = Null
  PROVE  /\ \A u \in Thread : th[u].cur = th[t].cur => u = t
         /\ Parent(th[t].cur) = IF th[t].cur \in Snap THEN snap[th[t].cur].db ELSE iter[th[t].cur].db
         /\ Parent(th[t].cur) # Null => Parent(th[t].cur) \in Db /\ Up(Parent(th[t].cur))
<1>1. th[t].cur # Null
  BY HandlesAssumption DEF Object, Child
<1>2. \A u \in Thread : th[u].cur = th[t].cur => u = t
  BY <1>1 DEF IInv, Exclusive
<1>3. ~ Detached(th[t].cur)
  BY <1>2 DEF Detached
<1>4. QED
  BY <1>2, <1>3, ParentHeld DEF Parent, IInv, DbsOK

LEMMA CleanInv ==
  ASSUME IInv, TypeOK', NEW t \in Thread, Clean(t)
  PROVE  IInv'
<1> DEFINE i == th[t].cur
<1>1. /\ th[t].pc = "clean" /\ fault = "none" /\ i \in Iter /\ i \in Child /\ i \notin Snap
      /\ th[t].self \in {Null, i} /\ th[t].dying = Null
  BY HandlesAssumption DEF Clean, At, IInv, TypeOK, ThreadOK, Child
<1>2. /\ UNCHANGED <<pyVars, db, snap>> /\ Goto(t, "unref")
      /\ iter' = [iter EXCEPT ![i].native = Null]
      /\ fault' = IF iter[i].db = Null THEN "none" ELSE Deref(ChildPointer(iter[i].native, iter[i].db))
  BY DEF Clean
<1>3. /\ th'[t].pc = "unref"
      /\ \A u \in Thread : /\ u # t => th'[u] = th[u]
                          /\ th'[u].self = th[u].self /\ th'[u].cur = th[u].cur
                          /\ th'[u].dying = th[u].dying /\ th'[u].using = th[u].using
  BY <1>2, Moved DEF IInv
<1>4. /\ iter'[i].native = Null /\ iter'[i].db = iter[i].db
      /\ \A j \in Iter : j # i => iter'[j] = iter[j]
  BY <1>1, <1>2 DEF IInv, TypeOK, IterStruct
<1>5. iter[i].native = iter[i].db
  BY <1>1 DEF IInv, ItersOK, ThreadIter
<1>6. MemorySafe'
  BY <1>2, <1>5 DEF MemorySafe, Deref, ChildPointer
<1>7. CallOK(t)'
  BY <1>1, <1>3 DEF CallOK, Closing, Making
<1>8. ThreadDb(t)'
  BY <1>3 DEF ThreadDb, Making
<1>9. ThreadIter(t)'
  BY <1>3, <1>4 DEF ThreadIter, Closing
<1>10. QED
  BY <1>1, <1>2, <1>3, <1>4, <1>6, <1>7, <1>8, <1>9, QuietIterInv DEF Making

LEMMA ReleaseSnapshotInv ==
  ASSUME IInv, TypeOK', NEW t \in Thread, ReleaseSnapshot(t)
  PROVE  IInv'
<1> DEFINE s == th[t].cur
<1>1. /\ th[t].pc = "release" /\ fault = "none" /\ s \in Snap /\ s \in Child
      /\ th[t].self = Null /\ th[t].dying = Null
  BY DEF ReleaseSnapshot, At, IInv, TypeOK, ThreadOK, Child
<1>2. /\ UNCHANGED <<pyVars, db, iter>> /\ Goto(t, "unsnap")
      /\ snap' = [snap EXCEPT ![s].native = Null] /\ fault' = Reach(s)
  BY DEF ReleaseSnapshot
<1>3. /\ th'[t].pc = "unsnap"
      /\ \A u \in Thread : /\ u # t => th'[u] = th[u]
                          /\ th'[u].self = th[u].self /\ th'[u].cur = th[u].cur
                          /\ th'[u].dying = th[u].dying /\ th'[u].using = th[u].using
  BY <1>2, Moved DEF IInv
<1>4. /\ snap'[s].native = Null /\ snap'[s].db = snap[s].db
      /\ \A r \in Snap : r # s => snap'[r] = snap[r]
  BY <1>1, <1>2 DEF IInv, TypeOK, SnapStruct
<1>5. snap[s].native = snap[s].db /\ snap[s].db # Null /\ Up(snap[s].db)
  BY <1>1, CurHeld DEF IInv, SnapsOK, ThreadSnap
<1>6. MemorySafe'
  <2>1. s \notin Db
    BY <1>1, HandlesAssumption
  <2>2. QED
    BY <1>1, <1>2, <1>5, <2>1 DEF MemorySafe, Reach, Both, Deref, DbPointer, DbOf, ChildPointer, Up
<1>7. CallsOK'
  <2>1. CallOK(t)'
    BY <1>1, <1>3 DEF CallOK, Closing, Making
  <2>2. \A r \in Snap : snap'[r].db = snap[r].db
    BY <1>4
  <2>3. QED
    BY <1>3, <2>1, <2>2, CallsStep
<1>8. /\ \A c \in Child : Parent(c)' = Parent(c)
      /\ \A o \in Object : Refs(o)' = Refs(o)
      /\ RefcountExact' /\ Exclusive' /\ Unowned' /\ AllocOK'
  BY <1>1, <1>2, <1>3, <1>4, <1>7, QuietStep DEF Making
<1>9. DbsOK'
  <2>1. ThreadDb(t)'
    BY <1>3 DEF ThreadDb, Making
  <2>2. QED
    BY <1>2, <1>3, <1>8, <2>1, SameDbsStep DEF pyVars
<1>10. SnapsOK' /\ ItersOK'
  <2>1. ThreadSnap(t)'
    BY <1>3, <1>4, <1>5, <1>1 DEF ThreadSnap
  <2>2. QED
    BY <1>1, <1>2, <1>3, <1>4, <1>8, <2>1, OneSnapStep DEF Object
<1>11. QED
  BY <1>6, <1>7, <1>8, <1>9, <1>10 DEF IInv

\* An iterator that has not been made leaves nothing behind.
LEMMA AbandonInv ==
  ASSUME IInv, TypeOK', NEW t \in Thread, Abandon(t)
  PROVE  IInv'
<1> DEFINE i == th[t].cur
<1>1. /\ th[t].pc = "abandon" /\ fault = "none" /\ i \in Iter /\ i # Null /\ i \notin Snap
      /\ th[t].self \in Db \cup Snap /\ th[t].dying = Null
  BY HandlesAssumption DEF Abandon, At, IInv, TypeOK, ThreadOK, Object
<1>2. /\ UNCHANGED <<pyVars, db, snap, fault>>
      /\ iter' = [iter EXCEPT ![i].native = Null]
      /\ th' = [th EXCEPT ![t] = [Idle EXCEPT !.pc = "return", !.self = th[t].self]]
  BY DEF Abandon
<1>3. /\ th'[t].pc = "return" /\ th'[t].self = th[t].self /\ th'[t].cur = Null /\ th'[t].dying = Null
      /\ \A u \in Thread : u # t => th'[u] = th[u]
  BY <1>2 DEF IInv, TypeOK, Idle
<1>4. /\ iter'[i].native = Null /\ \A j \in Iter : iter'[j].db = iter[j].db
      /\ \A j \in Iter : j # i => iter'[j] = iter[j]
  BY <1>1, <1>2 DEF IInv, TypeOK, IterStruct
<1>5. i \notin alloc /\ iter[i].db = Null
  BY <1>1 DEF IInv, AllocOK, ThreadAlloc, Making
<1>6. CallsOK'
  <2>1. CallOK(t)'
    BY <1>3 DEF CallOK, Closing, Making
  <2>2. QED
    BY <1>2, <1>3, <2>1, CallsStep
<1>7. /\ \A c \in Child : Parent(c)' = Parent(c)
      /\ \A o \in Object : Refs(o)' = Refs(o)
  <2>1. ASSUME NEW c \in Child PROVE Parent(c)' = Parent(c)
    <3>1. Detached(c)' <=> Detached(c)
      BY <1>1, <1>3 DEF Detached
    <3>2. QED
      BY <1>2, <1>4, <2>1, <3>1 DEF Parent, Child
  <2>2. ASSUME NEW o \in Object PROVE Refs(o)' = Refs(o)
    <3>1. \A x : Owns(x, o)' <=> Owns(x, o)
      BY <1>2, <1>3, <2>1 DEF Owns, pyVars
    <3>2. \A x : x \in Refs(o)' <=> x \in Refs(o)
      BY <1>6, <3>1, OwnersOf, OwnersOfNext DEF IInv
    <3>3. QED
      BY <3>2
  <2>3. QED
    BY <2>1, <2>2
<1>8. RefcountExact' /\ Exclusive' /\ Unowned' /\ AllocOK'
  <2>1. RefcountExact'
    BY <1>2, <1>7, RefcountStep DEF pyVars
  <2>2. Exclusive'
    BY <1>1, <1>3, ExclusiveStep, HandlesAssumption DEF Object, Child
  <2>3. Unowned'
    <3>1. ThreadOwn(t)'
      BY <1>3 DEF ThreadOwn
    <3>2. QED
      BY <1>3, <1>7, <3>1, OwnStep
  <2>4. AllocOK'
    <3>1. ThreadAlloc(t)'
      BY <1>3 DEF ThreadAlloc
    <3>2. QED
      BY <1>2, <1>3, <1>4, <1>7, <3>1, AllocStep DEF pyVars
  <2>5. QED
    BY <2>1, <2>2, <2>3, <2>4
<1>9. DbsOK'
  <2>1. ThreadDb(t)'
    BY <1>1, <1>2, <1>3 DEF IInv, DbsOK, ThreadDb, Up, Making
  <2>2. QED
    BY <1>2, <1>3, <1>7, <2>1, SameDbsStep DEF pyVars
<1>10. SnapsOK' /\ ItersOK'
  <2>1. \A s \in Snap : Refs(s)' = Refs(s)
    BY <1>7 DEF Object
  <2>2. \A u \in Thread \ {t} : ThreadSnap(u)' /\ ThreadIter(u)'
    BY <1>1, <1>2, <1>3, <1>4 DEF IInv, SnapsOK, ItersOK, ThreadSnap, ThreadIter, Exclusive
  <2>3. ThreadSnap(t)' /\ ThreadIter(t)'
    BY <1>3, HandlesAssumption DEF ThreadSnap, ThreadIter, Object
  <2>4. \A j \in Iter : (\A u \in Thread : th'[u].cur # j) => iter'[j].native = iter'[j].db
    BY <1>3, <1>4, <1>5 DEF IInv, ItersOK
  <2>5. \A s \in Snap : (\A u \in Thread : th'[u].cur # s) => \A u \in Thread : th[u].cur # s
    BY <1>1, <1>3
  <2>6. QED
    BY <1>2, <2>1, <2>2, <2>3, <2>4, <2>5 DEF IInv, SnapsOK, ItersOK
<1>11. QED
  BY <1>2, <1>1, <1>6, <1>7, <1>8, <1>9, <1>10 DEF IInv, MemorySafe

\* Steps that only look.
LEMMA StillInv ==
  ASSUME IInv, TypeOK', MemorySafe', UNCHANGED <<pyVars, db, snap, iter, th>>
  PROVE  IInv'
<1>1. CallsOK'
  BY DEF IInv, CallsOK, CallOK, DbOf
<1>2. /\ \A c \in Child : Parent(c)' = Parent(c)
      /\ \A o \in Object : Refs(o)' = Refs(o)
      /\ RefcountExact' /\ Exclusive' /\ Unowned' /\ AllocOK'
  BY <1>1, QuietStep
<1>3. DbsOK'
  BY <1>2 DEF IInv, DbsOK, ThreadDb, Up, Down, pyVars
<1>4. SnapsOK' /\ ItersOK'
  BY <1>2 DEF IInv, SnapsOK, ItersOK, ThreadSnap, ThreadIter, Object
<1>5. QED
  BY <1>1, <1>2, <1>3, <1>4 DEF IInv

LEMMA GetStatusInv ==
  ASSUME IInv, TypeOK', NEW t \in Thread, NEW d \in Db, PyLevelDB_GetStatus(t, d)
  PROVE  IInv'
<1>1. Up(d) /\ fault' = Deref(db[d].native) /\ UNCHANGED <<pyVars, db, snap, iter, th>>
  BY DEF PyLevelDB_GetStatus, IInv, DbsOK
<1>2. MemorySafe'
  BY <1>1 DEF MemorySafe, Deref, Up
<1>3. QED
  BY <1>1, <1>2, StillInv

\* An iterator whose next() may be called is nobody else's.
LEMMA IterHeld ==
  ASSUME IInv, Usage = {}, NEW i \in named \cap Iter, Unshared(i)
  PROVE  /\ \A u \in Thread : th[u].cur # i /\ th[u].self # i
         /\ iter[i].native = iter[i].db /\ Parent(i) = iter[i].db
         /\ iter[i].db # Null => iter[i].db \in Db /\ Up(iter[i].db)
         /\ IterPointer(i) = "none"
<1>1. \A u \in Thread : th[u].cur # i /\ th[u].self # i
  BY NamedHeld DEF Unshared
<1>2. iter[i].native = iter[i].db
  BY <1>1 DEF IInv, ItersOK
<1>3. Parent(i) = iter[i].db
  BY <1>1, HandlesAssumption DEF Parent, Detached
<1>4. ASSUME iter[i].db # Null PROVE iter[i].db \in Db /\ Up(iter[i].db)
  BY <1>3, <1>4, ParentHeld DEF Child, IInv, DbsOK
<1>5. IterPointer(i) = "none"
  BY <1>2, <1>4 DEF IterPointer, ChildPointer, Both, Deref, Up
<1>6. QED
  BY <1>1, <1>2, <1>3, <1>4, <1>5

LEMMA NextItemInv ==
  ASSUME IInv, TypeOK', Usage = {}, NEW t \in Thread, NEW i \in Iter, PyLevelDBIter_next_item(t, i)
  PROVE  IInv'
<1>1. /\ i \in named \cap Iter /\ Unshared(i) /\ fault' = IterPointer(i)
      /\ UNCHANGED <<pyVars, db, snap, iter, th>>
  BY DEF PyLevelDBIter_next_item
<1>2. MemorySafe'
  BY <1>1, IterHeld DEF MemorySafe
<1>3. QED
  BY <1>1, <1>2, StillInv

----------------------------------------------------------------------------
(* Closing *)

\* What nobody reads any more can be deleted.
LEMMA DyingAlone ==
  ASSUME IInv, NEW t \in Thread, th[t].pc \in Closing, th[t].dying \in Db
  PROVE  /\ Refs(th[t].dying) = {} /\ th[t].dying \notin named /\ th[t].dying \in alloc
         /\ \A u \in Thread : th[u].self # th[t].dying /\ (th[u].dying = th[t].dying => u = t)
         /\ \A c \in Child : Parent(c) # th[t].dying
         /\ \A u \in Thread : th[u].pc \in {"get"} \cup Making => th[u].using # th[t].dying
         /\ \A s \in Snap : snap[s].native # th[t].dying
         /\ \A i \in Iter : iter[i].native # th[t].dying
<1> DEFINE d == th[t].dying
<1>1. d # Null /\ d \in Object
  BY HandlesAssumption DEF Object
<1>2. Refs(d) = {} /\ d \in alloc
  BY <1>1 DEF IInv, Unowned, ThreadOwn, AllocOK, ThreadAlloc
<1>3. \A x : ~ Owns(x, d)
  BY <1>1, <1>2, OwnersOf DEF IInv
<1>4. \A u \in Thread : th[u].dying = d => u = t
  BY <1>1 DEF IInv, Exclusive
<1>5. ASSUME NEW u \in Thread, th[u].pc \in {"get"} \cup Making PROVE th[u].using # d
  <2>1. th[u].self \in Db \cup Snap /\ th[u].using = DbOf(th[u].self)
    BY <1>5, CallUp DEF IInv, TypeOK, ThreadOK, Making
  <2>2. CASE th[u].self \in Db
    BY <1>3, <2>1, <2>2 DEF DbOf, Owns
  <2>3. CASE th[u].self \in Snap /\ th[u].self \notin Db
    <3>1. Refs(th[u].self) # {}
      BY <2>3, SelfHeld DEF Object
    <3>2. Parent(th[u].self) = th[u].using
      BY <2>1, <2>3, <3>1, SnapHeld DEF DbOf
    <3>3. QED
      BY <1>3, <2>3, <3>2 DEF Owns, Child
  <2>4. QED
    BY <2>1, <2>2, <2>3
<1>6. ASSUME NEW c \in Child, NEW u \in Thread, th[u].cur = c, th[u].dying = Null
      PROVE  (IF c \in Snap THEN snap[c].db ELSE iter[c].db) # d
  BY <1>3, <1>6, CurHeld DEF Owns
<1>7. ASSUME NEW c \in Child, \A u \in Thread : th[u].cur # c
      PROVE  (IF c \in Snap THEN snap[c].db ELSE iter[c].db) # d
  <2>1. ~ Detached(c)
    BY <1>7 DEF Detached
  <2>2. QED
    BY <1>3, <2>1 DEF Owns, Parent
<1>8. ASSUME NEW s \in Snap PROVE snap[s].native # d
  <2>1. CASE \A u \in Thread : th[u].cur # s
    BY <1>7, <2>1 DEF IInv, SnapsOK, Child
  <2>2. ASSUME NEW u \in Thread, th[u].cur = s PROVE snap[s].native # d
    <3>1. CASE th[u].pc = "release"
      <4>1. snap[s].native = snap[s].db /\ th[u].dying = Null
        BY <2>2, <3>1 DEF IInv, SnapsOK, ThreadSnap, TypeOK, ThreadOK
      <4>2. QED
        BY <1>6, <2>2, <4>1 DEF Child
    <3>2. CASE th[u].pc # "release"
      BY <1>1, <2>2, <3>2 DEF IInv, SnapsOK, ThreadSnap
    <3>3. QED
      BY <3>1, <3>2
  <2>3. QED
    BY <2>1, <2>2
<1>9. ASSUME NEW i \in Iter PROVE iter[i].native # d
  <2>1. CASE \A u \in Thread : th[u].cur # i
    BY <1>7, <2>1, HandlesAssumption DEF IInv, ItersOK, Child
  <2>2. ASSUME NEW u \in Thread, th[u].cur = i PROVE iter[i].native # d
    <3>1. CASE th[u].pc = "clean"
      <4>1. iter[i].native = iter[i].db /\ th[u].dying = Null /\ i \notin Snap
        BY <2>2, <3>1, HandlesAssumption DEF IInv, ItersOK, ThreadIter, TypeOK, ThreadOK
      <4>2. QED
        BY <1>6, <2>2, <4>1 DEF Child
    <3>2. CASE th[u].pc \in Making
      BY <1>1, <1>5, <2>2, <3>2 DEF IInv, ItersOK, ThreadIter, Making
    <3>3. CASE th[u].pc \in {"unref"} \cup Closing
      BY <1>1, <2>2, <3>3 DEF IInv, ItersOK, ThreadIter
    <3>4. th[u].pc \in {"clean", "unref"} \cup Making \cup Closing
      <4>1. th[u] \in ThreadState /\ ThreadOK(th[u]) /\ CallOK(u) /\ th[u].cur \notin Snap \cup {Null}
        BY <2>2, HandlesAssumption DEF IInv, TypeOK, CallsOK, Object
      <4>2. QED
        BY <4>1 DEF ThreadState, Labels, ThreadOK, CallOK, Idle, Closing, Making
    <3>5. QED
      BY <3>1, <3>2, <3>3, <3>4
  <2>3. QED
    BY <2>1, <2>2
<1>10. QED
  BY <1>1, <1>2, <1>3, <1>4, <1>5, <1>8, <1>9 DEF Owns

\* The native part of closing: only the dying database changes.
LEMMA CloseStep ==
  ASSUME IInv, TypeOK', MemorySafe', NEW t \in Thread, th[t].pc \in {"close", "close_aux"},
         UNCHANGED <<pyVars, snap, iter>>, ThreadDb(t)',
         \A u \in Thread \ {t} : th'[u] = th[u],
         /\ th'[t].pc \in {"close_aux", "closed"} /\ th'[t].self = th[t].self
         /\ th'[t].cur = th[t].cur /\ th'[t].dying = th[t].dying,
         \A e \in Db : e # th[t].dying => db'[e] = db[e]
  PROVE  IInv'
<1> DEFINE d == th[t].dying
<1>1. th[t].pc \in Closing /\ d \in Db /\ d # Null
  BY HandlesAssumption DEF IInv, TypeOK, ThreadOK, Closing, Object
<1>2. /\ d \notin named /\ d \in alloc
      /\ \A u \in Thread : th[u].self # d /\ (th[u].dying = d => u = t)
      /\ \A c \in Child : Parent(c) # d
  BY <1>1, DyingAlone
<1>3. CallsOK'
  <2>1. CallOK(t)'
    BY <1>1 DEF IInv, CallsOK, CallOK, Closing, Making
  <2>2. QED
    BY <2>1, CallsStep
<1>4. /\ \A c \in Child : Parent(c)' = Parent(c)
      /\ \A o \in Object : Refs(o)' = Refs(o)
      /\ RefcountExact' /\ Exclusive' /\ Unowned' /\ AllocOK'
  <2>1. \A u \in Thread : /\ th'[u].self = th[u].self /\ th'[u].cur = th[u].cur
                          /\ th'[u].dying = th[u].dying
                          /\ th'[u].pc \in {"open", "opened"} => th[u].pc \in {"open", "opened"}
                          /\ th'[u].pc \in Making <=> th[u].pc \in Making
    BY DEF Making
  <2>2. \A e \in Db : e \notin alloc => db'[e] = db[e]
    BY <1>2
  <2>3. QED
    BY <1>3, <2>1, <2>2, QuietStep
<1>5. DbsOK'
  <2>1. \A e \in named' \cap Db : Up(e)'
    BY <1>2 DEF IInv, DbsOK, Up, pyVars
  <2>2. ASSUME NEW c \in Child, Parent(c)' # Null PROVE Up(Parent(c))'
    <3>1. Parent(c)' = Parent(c) /\ Parent(c) \in Db /\ Parent(c) # d /\ Up(Parent(c))
      BY <1>2, <1>4, <2>2, ParentHeld DEF IInv, DbsOK
    <3>2. QED
      BY <3>1 DEF Up
  <2>3. ASSUME NEW u \in Thread, u # t PROVE ThreadDb(u)'
    <3>1. th'[u] = th[u] /\ ThreadDb(u) /\ th[u].self # d /\ th[u].dying # d
      BY <1>2, <2>3 DEF IInv, DbsOK
    <3>2. QED
      BY <3>1, SameThreadDb DEF IInv
  <2>4. QED
    BY <2>1, <2>2, <2>3 DEF DbsOK
<1>6. SnapsOK' /\ ItersOK'
  <2>1. ThreadSnap(t)' /\ ThreadIter(t)'
    BY DEF IInv, SnapsOK, ItersOK, ThreadSnap, ThreadIter, Closing, Making
  <2>2. \A s \in Snap : Refs(s)' = Refs(s)
    BY <1>4 DEF Object
  <2>3. QED
    BY <2>1, <2>2, TurnStep
<1>7. QED
  BY <1>3, <1>4, <1>5, <1>6 DEF IInv

\* Deleting a native database orphans nothing and nobody.
LEMMA CloseNativeFields ==
  ASSUME IInv, NEW t \in Thread, CloseNative(t)
  PROVE  LET d == th[t].dying
         IN  /\ th[t].pc = "close" /\ d \in Db /\ (Up(d) \/ Down(d))
             /\ UNCHANGED <<pyVars, snap, iter>> /\ fault' = "none"
             /\ \A u \in Thread \ {t} : th'[u] = th[u]
             /\ th'[t].pc = "close_aux" /\ th'[t].self = th[t].self
             /\ th'[t].cur = th[t].cur /\ th'[t].dying = d
             /\ db'[d].native = (IF Up(d) THEN "dangling" ELSE "null") /\ db'[d].aux = db[d].aux
             /\ \A e \in Db : e # d => db'[e] = db[e]
<1> DEFINE d == th[t].dying
<1> DEFINE Lost(n) == IF n = d /\ db[d].native = "live" THEN Orphan ELSE n
<1> DEFINE Reads(u) == th[u].pc = "get" \/ (th[u].pc = "seek" /\ th[u].self \in Snap)
<1>1. th[t].pc = "close" /\ fault = "none" /\ d \in Db /\ d # Null
  BY HandlesAssumption DEF CloseNative, At, IInv, TypeOK, ThreadOK, Object
<1>2. /\ fault' = IF db[d].native = "dangling" THEN "dangling" ELSE "none"
      /\ db' = [db EXCEPT ![d].native = Deleted(@)]
      /\ snap' = [s \in Snap |-> [snap[s] EXCEPT !.native = Lost(@)]]
      /\ iter' = [i \in Iter |-> [iter[i] EXCEPT !.native = Lost(@)]]
      /\ th' = [u \in Thread |-> IF u = t THEN [th[u] EXCEPT !.pc = "close_aux"]
                  ELSE IF Reads(u) THEN [th[u] EXCEPT !.using = Lost(@)] ELSE th[u]]
      /\ UNCHANGED pyVars
  BY DEF CloseNative
<1>3. /\ \A u \in Thread : Reads(u) => th[u].using # d
      /\ \A s \in Snap : snap[s].native # d
      /\ \A i \in Iter : iter[i].native # d
  BY <1>1, DyingAlone DEF Closing, Making
<1>4. snap' = snap /\ iter' = iter
  <2>1. \A s \in Snap : snap[s] \in SnapStruct /\ Lost(snap[s].native) = snap[s].native
    BY <1>3 DEF IInv, TypeOK
  <2>2. \A i \in Iter : iter[i] \in IterStruct /\ Lost(iter[i].native) = iter[i].native
    BY <1>3 DEF IInv, TypeOK
  <2>3. \A s \in Snap : [snap[s] EXCEPT !.native = snap[s].native] = snap[s]
    BY <2>1 DEF SnapStruct
  <2>4. \A i \in Iter : [iter[i] EXCEPT !.native = iter[i].native] = iter[i]
    BY <2>2 DEF IterStruct
  <2> HIDE DEF Lost
  <2>5. snap' = [s \in Snap |-> snap[s]] /\ iter' = [i \in Iter |-> iter[i]]
    BY <1>2, <2>1, <2>2, <2>3, <2>4
  <2>6. QED
    BY <2>5 DEF IInv, TypeOK
<1>5. /\ \A u \in Thread \ {t} : th'[u] = th[u]
      /\ th'[t].pc = "close_aux" /\ th'[t].self = th[t].self
      /\ th'[t].cur = th[t].cur /\ th'[t].dying = d
  <2>1. ASSUME NEW u \in Thread, u # t PROVE th'[u] = th[u]
    <3>1. th[u] \in ThreadState
      BY DEF IInv, TypeOK
    <3>2. [th[u] EXCEPT !.using = th[u].using] = th[u]
      BY <3>1 DEF ThreadState
    <3>3. Reads(u) => Lost(th[u].using) = th[u].using
      BY <1>3
    <3> HIDE DEF Lost, Reads
    <3>4. QED
      BY <1>2, <2>1, <3>2, <3>3
  <2>2. th'[t] = [th[t] EXCEPT !.pc = "close_aux"] /\ th[t] \in ThreadState
    BY <1>2 DEF IInv, TypeOK
  <2>3. QED
    BY <2>1, <2>2 DEF ThreadState
<1>6. Up(d) \/ Down(d)
  BY <1>1 DEF IInv, DbsOK, ThreadDb
<1>7. /\ db'[d].native = (IF Up(d) THEN "dangling" ELSE "null") /\ db'[d].aux = db[d].aux
      /\ \A e \in Db : e # d => db'[e] = db[e]
  <2>1. db'[d] = [db[d] EXCEPT !.native = Deleted(db[d].native)] /\ db[d] \in DbStruct
    BY <1>1, <1>2 DEF IInv, TypeOK
  <2>2. Deleted(db[d].native) = IF Up(d) THEN "dangling" ELSE "null"
    BY <1>6 DEF Deleted, Up, Down
  <2>3. db'[d].native = Deleted(db[d].native) /\ db'[d].aux = db[d].aux
    BY <2>1 DEF DbStruct
  <2>4. \A e \in Db : e # d => db'[e] = db[e]
    BY <1>1, <1>2 DEF IInv, TypeOK
  <2>5. QED
    BY <2>2, <2>3, <2>4
<1>8. fault' = "none"
  BY <1>2, <1>6 DEF Up, Down
<1>9. QED
  BY <1>1, <1>2, <1>4, <1>5, <1>6, <1>7, <1>8

LEMMA CloseNativeInv ==
  ASSUME IInv, TypeOK', NEW t \in Thread, CloseNative(t)
  PROVE  IInv'
<1> DEFINE d == th[t].dying
<1>1. /\ th[t].pc = "close" /\ d \in Db /\ (Up(d) \/ Down(d))
      /\ UNCHANGED <<pyVars, snap, iter>> /\ fault' = "none"
      /\ \A u \in Thread \ {t} : th'[u] = th[u]
      /\ th'[t].pc = "close_aux" /\ th'[t].self = th[t].self
      /\ th'[t].cur = th[t].cur /\ th'[t].dying = d
      /\ db'[d].native = (IF Up(d) THEN "dangling" ELSE "null") /\ db'[d].aux = db[d].aux
      /\ \A e \in Db : e # d => db'[e] = db[e]
  BY CloseNativeFields
<1>2. ThreadDb(t)'
  BY <1>1 DEF ThreadDb, Up, Down, Making
<1>3. QED
  BY <1>1, <1>2, CloseStep DEF MemorySafe

LEMMA CloseAuxInv ==
  ASSUME IInv, TypeOK', NEW t \in Thread, CloseAux(t)
  PROVE  IInv'
<1> DEFINE d == th[t].dying
<1>1. th[t].pc = "close_aux" /\ fault = "none" /\ d \in Db
  BY DEF CloseAux, At, IInv, TypeOK, ThreadOK
<1>2. /\ fault' = IF db[d].aux = "dangling" THEN "dangling" ELSE "none"
      /\ db' = [db EXCEPT ![d].aux = Deleted(@)]
      /\ Goto(t, "closed") /\ UNCHANGED <<pyVars, snap, iter>>
  BY DEF CloseAux
<1>3. /\ th'[t].pc = "closed"
      /\ \A u \in Thread : /\ u # t => th'[u] = th[u]
                          /\ th'[u].self = th[u].self /\ th'[u].cur = th[u].cur
                          /\ th'[u].dying = th[u].dying /\ th'[u].using = th[u].using
  BY <1>2, Moved DEF IInv
<1>4. Down(d) \/ (db[d].native = "dangling" /\ db[d].aux = "live")
  BY <1>1 DEF IInv, DbsOK, ThreadDb
<1>5. /\ db'[d].aux = Deleted(db[d].aux) /\ db'[d].native = db[d].native
      /\ \A e \in Db : e # d => db'[e] = db[e]
  <2>1. db'[d] = [db[d] EXCEPT !.aux = Deleted(db[d].aux)] /\ db[d] \in DbStruct
    BY <1>1, <1>2 DEF IInv, TypeOK
  <2>2. db'[d].aux = Deleted(db[d].aux) /\ db'[d].native = db[d].native
    BY <2>1 DEF DbStruct
  <2>3. \A e \in Db : e # d => db'[e] = db[e]
    BY <1>1, <1>2 DEF IInv, TypeOK
  <2>4. QED
    BY <2>2, <2>3
<1>6. ThreadDb(t)'
  BY <1>3, <1>4, <1>5 DEF ThreadDb, Up, Down, Making, Deleted
<1>7. MemorySafe'
  BY <1>2, <1>4 DEF MemorySafe, Down
<1>8. QED
  BY <1>1, <1>2, <1>3, <1>5, <1>6, <1>7, CloseStep

----------------------------------------------------------------------------
(* Calls *)

\* Thread t calls a method of the object o: the call is one more owner.
LEMMA EnterInv ==
  ASSUME IInv, TypeOK', MemorySafe', NEW t \in Thread, th[t].pc = "idle", NEW o \in named,
         UNCHANGED <<alloc, named, snap, iter>>, rc' = [rc EXCEPT ![o] = @ + 1],
         \A e \in Db : db'[e].native = db[e].native /\ db'[e].aux = db[e].aux,
         \A e \in Db : e \notin alloc => db'[e] = db[e],
         \A u \in Thread \ {t} : th'[u] = th[u],
         th'[t].self = o, th'[t].dying = Null, th'[t].pc \notin {"open", "opened"},
         \A u \in Thread : /\ th'[t].cur # Null => th[u].cur # th'[t].cur
                           /\ o \in Iter => th[u].self # o,
         th'[t].cur # Null /\ th'[t].cur # o => Refs(th'[t].cur) = {},
         CallOK(t)', ThreadAlloc(t)', ThreadDb(t)', ThreadSnap(t)', ThreadIter(t)'
  PROVE  IInv'
<1>1. o \in Object /\ o \in Refs(o) /\ o \in alloc
  BY NamedHeld, OwnersOf DEF IInv, Owns
<1>2. th[t].self = Null /\ th[t].cur = Null /\ th[t].dying = Null /\ t \notin Object /\ Null \notin Object
  <2>1. th[t] = Idle
    BY DEF IInv, TypeOK, ThreadOK
  <2>2. QED
    BY <2>1, HandlesAssumption DEF Idle
<1>3. CallsOK'
  BY CallsStep
<1>4. \A c \in Child : Parent(c)' = Parent(c)
  BY <1>2 DEF Parent, Detached
<1>5. ASSUME NEW p \in Object, NEW x
      PROVE  x \in Refs(p)' <=> x \in Refs(p) \/ (p = o /\ x = t)
  <2>1. Owns(x, p)' <=> Owns(x, p) \/ (p = o /\ x = t)
    BY <1>2, <1>4, <1>5 DEF Owns
  <2>2. QED
    BY <1>3, <2>1, OwnersOf, OwnersOfNext DEF IInv
<1>6. \A p \in Object : p # o => Refs(p)' = Refs(p)
  BY <1>5
<1>7. RefcountExact'
  <2>1. t \notin Refs(o)
    BY <1>1, <1>2, OwnersOf DEF IInv, Owns, Child, Object
  <2>2. Cardinality(Refs(o)') = Cardinality(Refs(o)) + 1
    BY <1>1, <1>5, <2>1, RefsFinite, CountAdd
  <2>3. rc'[o] = rc[o] + 1 /\ rc[o] = Cardinality(Refs(o))
    BY <1>1 DEF IInv, TypeOK, RefcountExact
  <2>4. \A p \in Object : p # o => rc'[p] = rc[p]
    BY <1>1 DEF IInv, TypeOK
  <2>5. QED
    BY <1>6, <2>2, <2>3, <2>4, RefcountStep
<1>8. Exclusive'
  BY ExclusiveStep
<1>9. Unowned'
  <2>1. ThreadOwn(t)'
    <3>1. ASSUME th'[t].cur # Null, th'[t].cur # o PROVE Refs(th[t].cur)' = {}
      <4>1. th'[t].cur \in Object /\ Refs(th'[t].cur) = {}
        BY <3>1 DEF TypeOK, ThreadState, Object, Child
      <4>2. \A p \in Object : p = th'[t].cur => Refs(p)' = {}
        BY <1>6, <3>1, <4>1
      <4>3. QED
        BY <4>1, <4>2
    <3>2. QED
      BY <3>1 DEF ThreadOwn
  <2>2. \A u \in Thread \ {t} : ~ Claims(u, o)
    BY <1>1, Unclaimed, HandlesAssumption DEF Object
  <2>3. QED
    BY <1>6, <2>1, <2>2, OwnStep
<1>10. AllocOK'
  BY <1>1, <1>6, AllocStep
<1>11. DbsOK'
  BY <1>4, SameDbsStep
<1>12. SnapsOK' /\ ItersOK'
  <2>1. \A s \in Snap : Refs(s)' # {} => Refs(s) # {}
    BY <1>1, <1>6 DEF Object
  <2>2. QED
    BY <1>2, <2>1, TurnStep
<1>13. QED
  BY <1>3, <1>7, <1>8, <1>9, <1>10, <1>11, <1>12 DEF IInv

LEMMA MethodCallInv ==
  ASSUME IInv, TypeOK', NEW t \in Thread, NEW d \in Db, MethodCall(t, d)
  PROVE  IInv'
<1>1. /\ th[t].pc = "idle" /\ fault = "none" /\ d \in named /\ Up(d)
      /\ d \notin Snap /\ d \notin Iter /\ Null \notin Snap /\ Null \notin Iter
  BY HandlesAssumption DEF MethodCall, At, IInv, DbsOK, Object, Child
<1>2. /\ UNCHANGED <<alloc, named, db, snap, iter, fault>> /\ rc' = [rc EXCEPT ![d] = @ + 1]
      /\ th' = [th EXCEPT ![t] = [Idle EXCEPT !.pc = "native", !.self = d]]
  BY DEF MethodCall
<1>3. /\ \A u \in Thread \ {t} : th'[u] = th[u]
      /\ th'[t].pc = "native" /\ th'[t].self = d /\ th'[t].cur = Null /\ th'[t].dying = Null
  BY <1>2 DEF IInv, TypeOK, Idle
<1>4. CallOK(t)' /\ ThreadAlloc(t)' /\ ThreadSnap(t)' /\ ThreadIter(t)'
  BY <1>1, <1>3 DEF CallOK, ThreadAlloc, ThreadSnap, ThreadIter, Closing, Making
<1>5. ThreadDb(t)'
  BY <1>1, <1>2, <1>3 DEF ThreadDb, Up
<1>6. QED
  BY <1>1, <1>2, <1>3, <1>4, <1>5, EnterInv DEF MemorySafe

\* What a method called on a database or a snapshot in use works on is open.
LEMMA TargetUp ==
  ASSUME IInv, NEW o \in named \cap (Db \cup Snap)
  PROVE  DbOf(o) \in Db /\ Up(DbOf(o)) /\ Reach(o) = "none" /\ (o \in Db => DbOf(o) = o)
<1>1. CASE o \in Db
  <2>1. Up(o) /\ o # Null /\ o \notin Snap
    BY <1>1, HandlesAssumption DEF IInv, DbsOK, Object, Child
  <2>2. QED
    BY <1>1, <2>1 DEF DbOf, Reach, DbPointer, Deref, Both, Up
<1>2. CASE o \in Snap /\ o \notin Db
  <2>1. snap[o].db \in Db /\ snap[o].native = snap[o].db /\ Up(snap[o].db) /\ snap[o].db # Null
    BY <1>2, NamedHeld, SnapHeld, HandlesAssumption DEF Object
  <2>2. QED
    BY <1>2, <2>1 DEF DbOf, Reach, DbPointer, Deref, Both, Up, ChildPointer
<1>3. QED
  BY <1>1, <1>2

LEMMA GetInv ==
  ASSUME IInv, TypeOK', NEW t \in Thread, NEW o \in Db \cup Snap, PyLevelDB_Get(t, o)
  PROVE  IInv'
<1>1. /\ th[t].pc = "idle" /\ fault = "none" /\ o \in named
      /\ o \notin Iter /\ Null \notin Snap /\ Null \notin Iter
  BY HandlesAssumption DEF PyLevelDB_Get, At, Object, Child
<1>2. DbOf(o) \in Db /\ DbOf(o) # Null /\ Up(DbOf(o)) /\ Reach(o) = "none" /\ (o \in Db => DbOf(o) = o)
  BY <1>1, TargetUp, HandlesAssumption DEF Object
<1>3. /\ UNCHANGED <<alloc, named, db, snap, iter>> /\ rc' = [rc EXCEPT ![o] = @ + 1]
      /\ th' = [th EXCEPT ![t] = [Idle EXCEPT !.pc = "get", !.self = o, !.using = DbOf(o)]]
      /\ fault' = "none"
  BY <1>2 DEF PyLevelDB_Get
<1>4. /\ \A u \in Thread \ {t} : th'[u] = th[u]
      /\ th'[t].pc = "get" /\ th'[t].self = o /\ th'[t].cur = Null /\ th'[t].dying = Null
      /\ th'[t].using = DbOf(o)
  BY <1>3 DEF IInv, TypeOK, Idle
<1>5. CallOK(t)' /\ ThreadAlloc(t)' /\ ThreadSnap(t)' /\ ThreadIter(t)'
  BY <1>1, <1>2, <1>3, <1>4 DEF CallOK, ThreadAlloc, ThreadSnap, ThreadIter, Closing, Making, DbOf
<1>6. ThreadDb(t)'
  BY <1>2, <1>3, <1>4 DEF ThreadDb, Up
<1>7. QED
  BY <1>1, <1>3, <1>4, <1>5, <1>6, EnterInv DEF MemorySafe

LEMMA RangeIterInv ==
  ASSUME IInv, TypeOK', NEW t \in Thread, NEW o \in Db \cup Snap, NEW i \in Iter,
         PyLevelDB_RangeIter(t, o, i)
  PROVE  IInv'
<1>1. /\ th[t].pc = "idle" /\ fault = "none" /\ o \in named /\ i \notin alloc
      /\ \A u \in Thread : th[u].cur # i
      /\ o \notin Iter /\ i \notin Snap /\ i # Null
  BY HandlesAssumption DEF PyLevelDB_RangeIter, At, Object, Child
<1>2. DbOf(o) \in Db /\ Up(DbOf(o)) /\ Reach(o) = "none" /\ (o \in Db => DbOf(o) = o)
  BY <1>1, TargetUp
<1>3. /\ UNCHANGED <<alloc, named, db, snap, iter, fault>> /\ rc' = [rc EXCEPT ![o] = @ + 1]
      /\ th' = [th EXCEPT ![t] = [Idle EXCEPT !.pc = "seek", !.self = o, !.cur = i, !.using = DbOf(o)]]
  BY <1>2 DEF PyLevelDB_RangeIter
<1>4. /\ \A u \in Thread \ {t} : th'[u] = th[u]
      /\ th'[t].pc = "seek" /\ th'[t].self = o /\ th'[t].cur = i /\ th'[t].dying = Null
      /\ th'[t].using = DbOf(o)
  BY <1>3 DEF IInv, TypeOK, Idle
<1>5. Refs(i) = {} /\ iter[i].native = Null
  BY <1>1 DEF IInv, AllocOK, ItersOK, Object
<1>6. CallOK(t)' /\ ThreadAlloc(t)' /\ ThreadSnap(t)' /\ ThreadIter(t)'
  BY <1>1, <1>2, <1>3, <1>4, <1>5 DEF CallOK, ThreadAlloc, ThreadSnap, ThreadIter, Closing, Making, DbOf
<1>7. ThreadDb(t)'
  BY <1>2, <1>3, <1>4 DEF ThreadDb, Up
<1>8. /\ MemorySafe' /\ th'[t].pc \notin {"open", "opened"} /\ o \in named
      /\ \A u \in Thread : /\ th'[t].cur # Null => th[u].cur # th'[t].cur
                           /\ o \in Iter => th[u].self # o
      /\ th'[t].cur # Null /\ th'[t].cur # o => Refs(th'[t].cur) = {}
      /\ \A e \in Db : db'[e].native = db[e].native /\ db'[e].aux = db[e].aux
      /\ \A e \in Db : e \notin alloc => db'[e] = db[e]
  BY <1>1, <1>3, <1>4, <1>5 DEF MemorySafe
<1>9. QED
  BY <1>1, <1>3, <1>4, <1>6, <1>7, <1>8, EnterInv

\* Counting an iterator down says nothing of the native database.
LEMMA ForgetStep ==
  ASSUME IInv, NEW i \in Iter, iter[i].db # Null => iter[i].db \in alloc, db' = Forget(i)
  PROVE  /\ \A e \in Db : db'[e].native = db[e].native /\ db'[e].aux = db[e].aux
         /\ \A e \in Db : e \notin alloc => db'[e] = db[e]
<1>1. CASE iter[i].db = Null
  BY <1>1 DEF Forget
<1>2. CASE iter[i].db # Null
  <2>1. iter[i].db \in Db /\ db' = [db EXCEPT ![iter[i].db].n_iterators = @ - 1]
    BY <1>2 DEF Forget, IInv, TypeOK, IterStruct
  <2>2. \A e \in Db : db[e] \in DbStruct
    BY DEF IInv, TypeOK
  <2>3. \A e \in Db : e # iter[i].db => db'[e] = db[e]
    BY <2>1 DEF IInv, TypeOK
  <2>4. db'[iter[i].db].native = db[iter[i].db].native /\ db'[iter[i].db].aux = db[iter[i].db].aux
    BY <2>1, <2>2 DEF IInv, TypeOK, DbStruct
  <2>5. QED
    BY <1>2, <2>3, <2>4
<1>3. QED
  BY <1>1, <1>2

LEMMA NextEndInv ==
  ASSUME IInv, TypeOK', Usage = {}, NEW t \in Thread, NEW i \in Iter, PyLevelDBIter_next_end(t, i)
  PROVE  IInv'
<1>1. /\ th[t].pc = "idle" /\ i \in named /\ Unshared(i) /\ i \notin Db /\ i \notin Snap /\ i # Null
  BY HandlesAssumption DEF PyLevelDBIter_next_end, At, Object, Child
<1>2. /\ \A u \in Thread : th[u].cur # i /\ th[u].self # i
      /\ iter[i].native = iter[i].db /\ Parent(i) = iter[i].db
      /\ IterPointer(i) = "none"
  BY <1>1, IterHeld
<1>3. /\ UNCHANGED <<alloc, named, snap, iter>> /\ rc' = [rc EXCEPT ![i] = @ + 1]
      /\ db' = Forget(i) /\ fault' = "none"
      /\ th' = [th EXCEPT ![t] = [Idle EXCEPT !.pc = "clean", !.self = i, !.cur = i]]
  BY <1>2 DEF PyLevelDBIter_next_end
<1>4. /\ \A u \in Thread \ {t} : th'[u] = th[u]
      /\ th'[t].pc = "clean" /\ th'[t].self = i /\ th'[t].cur = i /\ th'[t].dying = Null
  BY <1>3 DEF IInv, TypeOK, Idle
<1>5. /\ \A e \in Db : db'[e].native = db[e].native /\ db'[e].aux = db[e].aux
      /\ \A e \in Db : e \notin alloc => db'[e] = db[e]
  BY <1>2, <1>3, ParentHeld, ForgetStep DEF Child
<1>6. CallOK(t)' /\ ThreadAlloc(t)' /\ ThreadSnap(t)' /\ ThreadIter(t)'
  BY <1>1, <1>2, <1>3, <1>4, NamedHeld DEF CallOK, ThreadAlloc, ThreadSnap, ThreadIter, Closing, Making
<1>7. ThreadDb(t)'
  BY <1>1, <1>4 DEF ThreadDb
<1>8. /\ MemorySafe' /\ th'[t].pc \notin {"open", "opened"} /\ i \in named
      /\ \A u \in Thread : /\ th'[t].cur # Null => th[u].cur # th'[t].cur
                           /\ i \in Iter => th[u].self # i
      /\ th'[t].cur # Null /\ th'[t].cur # i => Refs(th'[t].cur) = {}
  BY <1>1, <1>2, <1>3, <1>4 DEF MemorySafe
<1>9. QED
  BY <1>1, <1>3, <1>4, <1>5, <1>6, <1>7, <1>8, EnterInv

----------------------------------------------------------------------------
(* Giving a reference back *)

LEMMA DeallocFields ==
  ASSUME NEW o \in Object
  PROVE  /\ Dealloc(o).self = Null
         /\ o \in Db => Dealloc(o).pc = "close" /\ Dealloc(o).cur = Null /\ Dealloc(o).dying = o
         /\ o \in Iter => Dealloc(o).pc = "clean" /\ Dealloc(o).cur = o /\ Dealloc(o).dying = Null
         /\ o \in Snap /\ snap[o].db # Null =>
              Dealloc(o).pc = "release" /\ Dealloc(o).cur = o /\ Dealloc(o).dying = Null
BY HandlesAssumption DEF Dealloc, Idle, Object, Child

\* Thread t gives back the reference x to o, its own or the program's, and
\* deallocates o when it was the last one.
LEMMA DecRefInv ==
  ASSUME IInv, TypeOK', MemorySafe', NEW t \in Thread, NEW o \in Object, NEW x \in Refs(o),
         th[t].cur = Null, th[t].dying = Null, th[t].pc \notin {"open", "opened"},
         DecRef(t, o), UNCHANGED <<alloc, snap, iter>>,
         \/ x = t /\ th[t].self = o /\ named' = named
         \/ x = o /\ th[t].self = Null /\ named' = named \ {o},
         o \in Db => Up(o) \/ Down(o)
  PROVE  IInv'
<1>1. /\ rc' = [rc EXCEPT ![o] = @ - 1]
      /\ th' = [th EXCEPT ![t] = IF rc[o] = 1 THEN Dealloc(o) ELSE Idle]
      /\ db' = IF rc[o] = 1 /\ o \in Iter THEN Forget(o) ELSE db
  BY DEF DecRef
<1>2. /\ \A u \in Thread \ {t} : th'[u] = th[u]
      /\ rc[o] = 1 => th'[t] = Dealloc(o)
      /\ rc[o] # 1 => th'[t] = Idle
  BY <1>1 DEF IInv, TypeOK
<1>3. rc[o] = 1 => Refs(o) = {x}
  BY LastOwner DEF IInv
<1>4. t \notin Object /\ Null \notin Object /\ Null \notin Thread /\ o \in alloc
  BY HandlesAssumption DEF IInv, AllocOK
<1>5. ASSUME rc[o] = 1, NEW u \in Thread, th[u].self = o PROVE u = t /\ x = t
  <2>1. u \in Refs(o)
    BY <1>5, OwnersOf DEF IInv, Owns
  <2>2. u = x
    BY <1>3, <1>5, <2>1
  <2>3. u # o
    BY HandlesAssumption
  <2>4. QED
    BY <2>2, <2>3
<1>6. /\ \A u \in Thread : th[u].dying # o
      /\ rc[o] = 1 => \A u \in Thread : th[u].cur # o
  <2>1. ASSUME rc[o] = 1, NEW u \in Thread, th[u].cur = o PROVE FALSE
    <3>1. th[u].self = o
      BY <2>1, Protected
    <3>2. u = t
      BY <1>5, <2>1, <3>1
    <3>3. QED
      BY <1>4, <2>1, <3>2
  <2>2. QED
    BY <2>1, Protected
<1>7. o \in Snap => snap[o].db # Null /\ snap[o].native = snap[o].db /\ snap[o].db \in Db
  BY SnapHeld, HandlesAssumption DEF Object
<1>8. o \in Iter /\ rc[o] = 1 => iter[o].native = iter[o].db /\ Parent(o) = iter[o].db
  <2>1. o \in Iter => o \notin Snap
    BY HandlesAssumption
  <2>2. QED
    BY <1>6, <2>1 DEF IInv, ItersOK, Parent, Detached
<1>9. /\ th'[t].self = Null
      /\ rc[o] # 1 => th'[t].pc = "idle" /\ th'[t].cur = Null /\ th'[t].dying = Null
      /\ rc[o] = 1 /\ o \in Db => th'[t].pc = "close" /\ th'[t].cur = Null /\ th'[t].dying = o
      /\ rc[o] = 1 /\ o \in Iter => th'[t].pc = "clean" /\ th'[t].cur = o /\ th'[t].dying = Null
      /\ rc[o] = 1 /\ o \in Snap => th'[t].pc = "release" /\ th'[t].cur = o /\ th'[t].dying = Null
  BY <1>2, <1>7, DeallocFields DEF Idle
<1>10. /\ \A e \in Db : db'[e].native = db[e].native /\ db'[e].aux = db[e].aux
       /\ \A e \in Db : e \notin alloc => db'[e] = db[e]
  <2>1. CASE rc[o] = 1 /\ o \in Iter
    <3>1. iter[o].db # Null => iter[o].db \in alloc
      BY <1>8, <2>1, ParentHeld DEF Child
    <3>2. QED
      BY <1>1, <2>1, <3>1, ForgetStep
  <2>2. CASE ~ (rc[o] = 1 /\ o \in Iter)
    BY <1>1, <2>2
  <2>3. QED
    BY <2>1, <2>2
<1>11. CallsOK'
  <2>1. CallOK(t)'
    BY <1>2, <1>4, <1>9, HandlesAssumption DEF CallOK, Closing, Making, Object
  <2>2. QED
    BY <1>2, <2>1, CallsStep
<1>12. \A c \in Child : Parent(c)' = Parent(c)
  <2>1. ASSUME NEW c \in Child PROVE Detached(c)' <=> Detached(c)
    <3>1. th'[t].cur # c \/ th'[t].dying = Null
      BY <1>4, <1>9 DEF Object, Child
    <3>2. QED
      BY <1>2, <3>1 DEF Detached
  <2>2. QED
    BY <2>1 DEF Parent
<1>13. ASSUME NEW p \in Object, NEW y
       PROVE  y \in Refs(p)' <=> y \in Refs(p) /\ (p # o \/ y # x)
  <2>1. \A u \in Thread : th'[u].self = p <=> th[u].self = p /\ (p # o \/ u # x)
    BY <1>2, <1>4, <1>9, HandlesAssumption
  <2>2. p \in named' <=> p \in named /\ (p # o \/ p # x)
    BY <1>4
  <2>3. \A c \in Child : Parent(c) = p => p # o \/ c # x
    BY <1>4, HandlesAssumption DEF IInv, TypeOK, SnapStruct, IterStruct, Parent, Object, Child
  <2>4. Owns(y, p)' <=> Owns(y, p) /\ (p # o \/ y # x)
    BY <1>12, <2>1, <2>2, <2>3 DEF Owns
  <2>5. QED
    BY <1>11, <2>4, OwnersOf, OwnersOfNext DEF IInv
<1>14. \A p \in Object : p # o => Refs(p)' = Refs(p)
  BY <1>13
<1>15. rc[o] = 1 => Refs(o)' = {}
  BY <1>3, <1>13
<1>16. RefcountExact'
  <2>1. Cardinality(Refs(o)') = Cardinality(Refs(o)) - 1
    BY <1>13, RefsFinite, CountDel
  <2>2. rc'[o] = rc[o] - 1 /\ rc[o] = Cardinality(Refs(o))
    BY <1>1 DEF IInv, TypeOK, RefcountExact
  <2>3. \A p \in Object : p # o => rc'[p] = rc[p]
    BY <1>1 DEF IInv, TypeOK
  <2>4. QED
    BY <1>14, <2>1, <2>2, <2>3, RefcountStep
<1>17. Exclusive'
  <2>1. th'[t].cur \in {Null, o} /\ th'[t].dying \in {Null, o} /\ th'[t].self \notin Iter
        /\ (th'[t].cur = o => rc[o] = 1)
    BY <1>4, <1>9 DEF Object
  <2>2. QED
    BY <1>2, <1>6, <2>1, ExclusiveStep
<1>18. Unowned'
  <2>1. ThreadOwn(t)'
    <3>1. CASE rc[o] # 1
      BY <1>9, <3>1 DEF ThreadOwn
    <3>2. CASE rc[o] = 1
      <4>1. th'[t].cur \in {Null, o} /\ th'[t].dying \in {Null, o} /\ th'[t].pc \notin {"open", "opened"}
        BY <1>9, <3>2 DEF Object
      <4>2. QED
        BY <1>15, <3>2, <4>1 DEF ThreadOwn
    <3>3. QED
      BY <3>1, <3>2
  <2>2. \A u \in Thread \ {t} : ~ Claims(u, o)
    BY <1>4, Unclaimed, HandlesAssumption
  <2>3. QED
    BY <1>2, <1>14, <2>1, <2>2, OwnStep
<1>19. AllocOK'
  <2>1. ThreadAlloc(t)'
    BY <1>4, <1>9 DEF ThreadAlloc, Making, Object
  <2>2. QED
    BY <1>2, <1>4, <1>10, <1>14, <2>1, AllocStep
<1>20. DbsOK'
  <2>1. ThreadDb(t)'
    BY <1>4, <1>9, <1>10 DEF ThreadDb, Up, Down, Making, Object
  <2>2. \A e \in named' \cap Db : e \in named
    OBVIOUS
  <2>3. \A u \in Thread : u # t => /\ th'[u].self = th[u].self /\ th'[u].pc = th[u].pc
                                  /\ th'[u].dying = th[u].dying
    BY <1>2
  <2>4. QED
    BY <1>10, <1>12, <2>1, <2>2, <2>3, SameDbsStep
<1>21. SnapsOK' /\ ItersOK'
  <2>1. \A s \in Snap : Refs(s)' # {} => Refs(s) # {}
    BY <1>14 DEF Object
  <2>2. ThreadSnap(t)'
    BY <1>4, <1>7, <1>9 DEF ThreadSnap, Object
  <2>3. ThreadIter(t)'
    BY <1>4, <1>8, <1>9 DEF ThreadIter, Closing, Object
  <2>4. QED
    BY <1>2, <2>1, <2>2, <2>3, TurnStep
<1>22. QED
  BY <1>11, <1>16, <1>17, <1>18, <1>19, <1>20, <1>21 DEF IInv

LEMMA ReturnInv ==
  ASSUME IInv, TypeOK', NEW t \in Thread, Return(t)
  PROVE  IInv'
<1>1. /\ th[t].pc = "return" /\ fault = "none" /\ th[t].self \in Object
      /\ th[t].cur = Null /\ th[t].dying = Null
  BY DEF Return, At, IInv, TypeOK, ThreadOK, CallsOK, CallOK, Closing
<1>2. DecRef(t, th[t].self) /\ UNCHANGED <<alloc, named, snap, iter, fault>>
  BY DEF Return
<1>3. t \in Refs(th[t].self)
  BY <1>1, OwnersOf DEF IInv, Owns
<1>4. th[t].self \in Db => Up(th[t].self) \/ Down(th[t].self)
  BY <1>1 DEF IInv, DbsOK, ThreadDb
<1>5. QED
  BY <1>1, <1>2, <1>3, <1>4, DecRefInv DEF MemorySafe

LEMMA DropInv ==
  ASSUME IInv, TypeOK', NEW t \in Thread, NEW o \in Object, Drop(t, o)
  PROVE  IInv'
<1>1. /\ th[t].pc = "idle" /\ fault = "none" /\ o \in named
      /\ th[t].self = Null /\ th[t].cur = Null /\ th[t].dying = Null
  BY DEF Drop, At, IInv, TypeOK, ThreadOK, Idle
<1>2. DecRef(t, o) /\ named' = named \ {o} /\ UNCHANGED <<alloc, snap, iter, fault>>
  BY DEF Drop
<1>3. o \in Refs(o)
  BY <1>1, OwnersOf DEF IInv, Owns
<1>4. o \in Db => Up(o)
  BY <1>1 DEF IInv, DbsOK
<1>5. QED
  BY <1>1, <1>2, <1>3, <1>4, DecRefInv DEF MemorySafe

----------------------------------------------------------------------------
(* New objects *)

\* The constructor hands its reference to the program.
LEMMA OpenedInv ==
  ASSUME IInv, TypeOK', NEW t \in Thread, NEW d \in Db, d = th[t].self, Opened(t)
  PROVE  IInv'
<1>1. /\ th[t].pc = "opened" /\ fault = "none" /\ d \in Db /\ d \in Object
      /\ th[t].cur = Null /\ th[t].dying = Null
      /\ Null \notin Object /\ Null \notin Snap /\ Null \notin Iter
      /\ t \notin Object /\ d \notin Child /\ d \notin Thread
  BY HandlesAssumption DEF Opened, At, IInv, TypeOK, ThreadOK, CallsOK, CallOK, Closing, Object
<1>2. /\ named' = named \cup {d} /\ th' = [th EXCEPT ![t] = Idle]
      /\ UNCHANGED <<alloc, rc, db, snap, iter, fault>>
  BY DEF Opened
<1>3. /\ \A u \in Thread \ {t} : th'[u] = th[u]
      /\ th'[t].pc = "idle" /\ th'[t].self = Null /\ th'[t].cur = Null /\ th'[t].dying = Null
  BY <1>2 DEF IInv, TypeOK, Idle
<1>4. /\ Refs(d) = {t} /\ d \notin named /\ \A u \in Thread : th[u].self = d => u = t
  BY <1>1, OpeningAlone
<1>5. Up(d)
  BY <1>1 DEF IInv, DbsOK, ThreadDb
<1>6. CallsOK'
  <2>1. CallOK(t)'
    BY <1>3 DEF CallOK, Closing, Making
  <2>2. QED
    BY <1>2, <1>3, <2>1, CallsStep
<1>7. \A c \in Child : Parent(c)' = Parent(c)
  BY <1>1, <1>2, <1>3 DEF Parent, Detached, Child, Object
<1>8. ASSUME NEW p \in Object, NEW y
      PROVE  y \in Refs(p)' <=> (y \in Refs(p) /\ (p # d \/ y # t)) \/ (p = d /\ y = d)
  <2>1. Owns(y, p)' <=> (Owns(y, p) /\ (p # d \/ y # t)) \/ (p = d /\ y = d)
    BY <1>1, <1>2, <1>3, <1>4, <1>7, HandlesAssumption DEF Owns, Object, Child
  <2>2. QED
    BY <1>6, <2>1, OwnersOf, OwnersOfNext DEF IInv
<1>9. \A p \in Object : p # d => Refs(p)' = Refs(p)
  BY <1>8
<1>10. Refs(d)' = {d}
  BY <1>1, <1>4, <1>8
<1>11. RefcountExact'
  <2>1. Cardinality(Refs(d)') = 1 /\ Cardinality(Refs(d)) = 1
    BY <1>4, <1>10, FS_Singleton
  <2>2. QED
    BY <1>1, <1>2, <1>9, <2>1, RefcountStep DEF IInv, RefcountExact
<1>12. Exclusive'
  BY <1>1, <1>3, ExclusiveStep DEF Object
<1>13. Unowned'
  <2>1. ThreadOwn(t)'
    BY <1>3 DEF ThreadOwn
  <2>2. \A u \in Thread \ {t} : ~ Claims(u, d)
    BY <1>1, <1>4, Unclaimed
  <2>3. QED
    BY <1>3, <1>9, <2>1, <2>2, OwnStep
<1>14. AllocOK'
  <2>1. ThreadAlloc(t)'
    BY <1>3 DEF ThreadAlloc
  <2>2. d \in alloc
    BY <1>1, <1>4 DEF IInv, AllocOK
  <2>3. QED
    BY <1>2, <1>3, <1>9, <2>1, <2>2, AllocStep
<1>15. DbsOK'
  <2>1. ThreadDb(t)'
    BY <1>1, <1>3 DEF ThreadDb, Making, Object
  <2>2. Up(d)'
    BY <1>2, <1>5 DEF Up
  <2>3. \A e \in named' \cap Db : e \notin named => Up(e)'
    BY <1>2, <2>2
  <2>4. QED
    BY <1>2, <1>3, <1>7, <2>1, <2>3, SameDbsStep
<1>16. SnapsOK' /\ ItersOK'
  <2>1. \A s \in Snap : Refs(s)' # {} => Refs(s) # {}
    BY <1>1, <1>9 DEF Object, Child
  <2>2. ThreadSnap(t)' /\ ThreadIter(t)'
    BY <1>1, <1>3 DEF ThreadSnap, ThreadIter
  <2>3. QED
    BY <1>1, <1>2, <1>3, <2>1, <2>2, TurnStep
<1>17. QED
  BY <1>1, <1>2, <1>6, <1>11, <1>12, <1>13, <1>14, <1>15, <1>16 DEF IInv, MemorySafe

\* The memory of a database is taken into use.
LEMMA NewInv ==
  ASSUME IInv, TypeOK', NEW t \in Thread, NEW d \in Db, PyLevelDB_new(t, d)
  PROVE  IInv'
<1>1. /\ th[t].pc = "idle" /\ fault = "none" /\ d \notin alloc /\ d \in Object
      /\ th[t].self = Null /\ th[t].cur = Null /\ th[t].dying = Null
      /\ Null \notin Object /\ Null \notin Snap /\ Null \notin Iter
      /\ t \notin Object /\ d \notin Child /\ d \notin Thread
  BY HandlesAssumption DEF PyLevelDB_new, At, IInv, TypeOK, ThreadOK, Idle, Object
<1>2. /\ alloc' = alloc \cup {d} /\ rc' = [rc EXCEPT ![d] = 1]
      /\ db' = [db EXCEPT ![d] = [NewDb EXCEPT !.aux = "live"]]
      /\ th' = [th EXCEPT ![t] = [Idle EXCEPT !.pc = "open", !.self = d]]
      /\ UNCHANGED <<named, snap, iter, fault>>
  BY DEF PyLevelDB_new
<1>3. /\ \A u \in Thread \ {t} : th'[u] = th[u]
      /\ th'[t].pc = "open" /\ th'[t].self = d /\ th'[t].cur = Null /\ th'[t].dying = Null
  BY <1>2 DEF IInv, TypeOK, Idle
<1>4. /\ db'[d].native = "null" /\ db'[d].aux = "live"
      /\ \A e \in Db : e # d => db'[e] = db[e]
  BY <1>2 DEF IInv, TypeOK, NewDb
<1>5. /\ Refs(d) = {} /\ d \notin named /\ \A u \in Thread : th[u].self # d /\ th[u].dying # d
      /\ \A c \in Child : Parent(c) # d
  <2>1. Refs(d) = {}
    BY <1>1 DEF IInv, AllocOK
  <2>2. \A x : ~ Owns(x, d)
    BY <1>1, <2>1, OwnersOf DEF IInv
  <2>3. \A u \in Thread : th[u].dying # d
    BY <1>1 DEF IInv, AllocOK, ThreadAlloc
  <2>4. QED
    BY <2>1, <2>2, <2>3 DEF Owns
<1>6. CallsOK'
  <2>1. CallOK(t)'
    BY <1>3 DEF CallOK, Closing, Making
  <2>2. QED
    BY <1>2, <1>3, <2>1, CallsStep
<1>7. \A c \in Child : Parent(c)' = Parent(c)
  BY <1>1, <1>2, <1>3 DEF Parent, Detached, Child, Object
<1>8. ASSUME NEW p \in Object, NEW y
      PROVE  y \in Refs(p)' <=> y \in Refs(p) \/ (p = d /\ y = t)
  <2>1. Owns(y, p)' <=> Owns(y, p) \/ (p = d /\ y = t)
    BY <1>1, <1>2, <1>3, <1>7 DEF Owns
  <2>2. QED
    BY <1>6, <2>1, OwnersOf, OwnersOfNext DEF IInv
<1>9. \A p \in Object : p # d => Refs(p)' = Refs(p)
  BY <1>8
<1>10. Refs(d)' = {t}
  BY <1>1, <1>5, <1>8
<1>11. RefcountExact'
  <2>1. Cardinality(Refs(d)') = 1
    BY <1>10, FS_Singleton
  <2>2. rc'[d] = 1 /\ \A p \in Object : p # d => rc'[p] = rc[p]
    BY <1>1, <1>2 DEF IInv, TypeOK
  <2>3. QED
    BY <1>9, <2>1, <2>2, RefcountStep
<1>12. Exclusive'
  BY <1>1, <1>3, ExclusiveStep DEF Object, Child
<1>13. Unowned'
  <2>1. ThreadOwn(t)'
    <3>1. \A p \in Object : p = d => Refs(p)' = {t}
      BY <1>10
    <3>2. QED
      BY <1>1, <1>3, <3>1 DEF ThreadOwn
  <2>2. \A u \in Thread \ {t} : ~ Claims(u, d)
    BY <1>1, <1>5 DEF IInv, TypeOK, ThreadState, Claims
  <2>3. QED
    BY <1>3, <1>9, <2>1, <2>2, OwnStep
<1>14. AllocOK'
  <2>1. \A p \in Object : Refs(p)' # {} => p \in alloc'
    BY <1>2, <1>9 DEF IInv, AllocOK
  <2>2. ASSUME NEW u \in Thread PROVE ThreadAlloc(u)'
    <3>1. CASE u = t
      BY <1>3, <3>1 DEF ThreadAlloc
    <3>2. CASE u # t
      <4>1. th'[u] = th[u] /\ ThreadAlloc(u) /\ th[u].cur # d
        BY <1>1, <1>3, <3>2 DEF IInv, AllocOK, TypeOK, ThreadState, Object
      <4>2. \A x : x \in alloc' <=> x \in alloc \/ x = d
        BY <1>2
      <4>3. QED
        BY <4>1, <4>2 DEF ThreadAlloc
    <3>3. QED
      BY <3>1, <3>2
  <2>3. \A e \in Db : e \notin alloc' => db'[e] = NewDb
    BY <1>2, <1>4 DEF IInv, AllocOK
  <2>4. QED
    BY <1>2, <2>1, <2>2, <2>3 DEF IInv, AllocOK
<1>15. DbsOK'
  <2>1. \A e \in named' \cap Db : Up(e)'
    BY <1>2, <1>4, <1>5 DEF IInv, DbsOK, Up
  <2>2. ASSUME NEW c \in Child, Parent(c)' # Null PROVE Up(Parent(c))'
    <3>1. Parent(c)' = Parent(c) /\ Parent(c) \in Db /\ Parent(c) # d /\ Up(Parent(c))
      BY <1>5, <1>7, <2>2, ParentHeld DEF IInv, DbsOK
    <3>2. QED
      BY <1>4, <3>1 DEF Up
  <2>3. ASSUME NEW u \in Thread PROVE ThreadDb(u)'
    <3>1. CASE u = t
      BY <1>3, <1>4, <3>1 DEF ThreadDb, Making
    <3>2. CASE u # t
      <4>1. th'[u] = th[u] /\ ThreadDb(u) /\ th[u].self # d /\ th[u].dying # d
        BY <1>3, <1>5, <3>2 DEF IInv, DbsOK
      <4>2. (th[u].pc = "open" => th[u].self \in Db) /\ (th[u].pc \in Closing => th[u].dying \in Db)
        BY DEF IInv, TypeOK, ThreadOK, Closing
      <4>3. QED
        BY <1>4, <4>1, <4>2 DEF ThreadDb, Up, Down, Closing
    <3>3. QED
      BY <3>1, <3>2
  <2>4. QED
    BY <2>1, <2>2, <2>3 DEF DbsOK
<1>16. SnapsOK' /\ ItersOK'
  <2>1. \A s \in Snap : Refs(s)' # {} => Refs(s) # {}
    BY <1>1, <1>9 DEF Object, Child
  <2>2. ThreadSnap(t)' /\ ThreadIter(t)'
    BY <1>1, <1>3 DEF ThreadSnap, ThreadIter
  <2>3. QED
    BY <1>1, <1>2, <1>3, <2>1, <2>2, TurnStep
<1>17. QED
  BY <1>1, <1>2, <1>6, <1>11, <1>12, <1>13, <1>14, <1>15, <1>16 DEF IInv, MemorySafe

\* A new child c, named by the program, that refers to the database d or to none.
LEMMA NewChildStep ==
  ASSUME IInv, CallsOK', NEW c \in Child, c \notin alloc, NEW d \in Db \cup {Null}, d # Null => Refs(d) # {},
         named' = named \cup {c}, Parent(c)' = d, \A b \in Child : b # c => Parent(b)' = Parent(b),
         \A u \in Thread : th'[u].self = th[u].self,
         rc'[c] = 1, d # Null => rc'[d] = rc[d] + 1,
         \A o \in Object : o # c /\ o # d => rc'[o] = rc[o]
  PROVE  /\ \A o \in Object : o # c /\ o # d => Refs(o)' = Refs(o)
         /\ Refs(c) = {} /\ Refs(c)' = {c}
         /\ RefcountExact'
<1>1. c \in Object /\ c \notin Thread /\ c # d /\ c # Null /\ Null \notin Object /\ Null \notin Child
  BY HandlesAssumption DEF Object, Child
<1>2. Refs(c) = {} /\ Parent(c) = Null
  BY <1>1 DEF IInv, AllocOK, Parent, Child
<1>3. \A x : ~ Owns(x, c)
  BY <1>1, <1>2, OwnersOf DEF IInv
<1>4. ASSUME NEW p \in Object, NEW y
      PROVE  y \in Refs(p)' <=> y \in Refs(p) \/ (y = c /\ (p = c \/ p = d))
  <2>1. Owns(y, p)' <=> Owns(y, p) \/ (y = c /\ (p = c \/ p = d))
    BY <1>1, <1>2, <1>3 DEF Owns
  <2>2. QED
    BY <2>1, OwnersOf, OwnersOfNext DEF IInv
<1>5. \A o \in Object : o # c /\ o # d => Refs(o)' = Refs(o)
  BY <1>4
<1>6. Refs(c)' = {c}
  BY <1>1, <1>2, <1>4
<1>7. ASSUME d # Null PROVE rc'[d] = Cardinality(Refs(d)')
  <2>1. d \in Object
    BY <1>7 DEF Object
  <2>2. c \notin Refs(d)
    BY <1>1, <1>2, <1>7, <2>1, OwnersOf DEF IInv, Owns
  <2>3. Cardinality(Refs(d)') = Cardinality(Refs(d)) + 1
    BY <1>4, <2>1, <2>2, RefsFinite, CountAdd
  <2>4. QED
    BY <1>7, <2>1, <2>3 DEF IInv, RefcountExact
<1>8. RefcountExact'
  <2>1. rc'[c] = Cardinality(Refs(c)')
    BY <1>6, FS_Singleton
  <2>2. QED
    BY <1>1, <1>5, <1>7, <2>1, RefcountStep
<1>9. QED
  BY <1>2, <1>5, <1>6, <1>8

LEMMA SnapshotNewInv ==
  ASSUME IInv, TypeOK', NEW t \in Thread, NEW d \in Db, NEW s \in Snap, PyLevelDBSnapshot_New(t, d, s)
  PROVE  IInv'
<1>1. /\ fault = "none" /\ d \in named /\ s \notin alloc /\ s \in Child /\ d # s /\ d # Null
      /\ s \in Object /\ d \in Object /\ s \notin Db /\ s \notin Iter /\ s # Null
  BY HandlesAssumption DEF PyLevelDBSnapshot_New, At, Object, Child
<1>2. /\ fault' = Deref(db[d].native)
      /\ alloc' = alloc \cup {s} /\ named' = named \cup {s}
      /\ rc' = [rc EXCEPT ![s] = 1, ![d] = @ + 1]
      /\ snap' = [snap EXCEPT ![s] = [db |-> d, native |-> d]]
      /\ db' = [db EXCEPT ![d].n_snapshots = @ + 1]
      /\ UNCHANGED <<iter, th>>
  BY DEF PyLevelDBSnapshot_New
<1>3. Up(d) /\ d \in Refs(d) /\ d \in alloc /\ d \notin Thread
  BY <1>1, NamedHeld, OwnersOf, HandlesAssumption DEF IInv, DbsOK, Owns
<1>4. /\ snap'[s].db = d /\ snap'[s].native = d
      /\ \A r \in Snap : r # s => snap'[r] = snap[r]
  BY <1>2 DEF IInv, TypeOK
<1>5. /\ \A e \in Db : db'[e].native = db[e].native /\ db'[e].aux = db[e].aux
      /\ \A e \in Db : e # d => db'[e] = db[e]
  <2>1. db'[d] = [db[d] EXCEPT !.n_snapshots = @ + 1] /\ db[d] \in DbStruct
    BY <1>2 DEF IInv, TypeOK
  <2>2. db'[d].native = db[d].native /\ db'[d].aux = db[d].aux
    BY <2>1 DEF DbStruct
  <2>3. \A e \in Db : e # d => db'[e] = db[e]
    BY <1>2 DEF IInv, TypeOK
  <2>4. QED
    BY <2>2, <2>3
<1>6. \A u \in Thread : th'[u] = th[u] /\ th[u].cur # s /\ th[u].self # s /\ th[u].dying # s
  <2>1. ASSUME NEW u \in Thread, th[u].cur = s PROVE FALSE
    <3>1. th[u].pc \in Making
      BY <1>1, <2>1 DEF IInv, AllocOK, ThreadAlloc
    <3>2. th[u].cur \in Iter
      BY <3>1 DEF IInv, TypeOK, ThreadOK, Making
    <3>3. QED
      BY <1>1, <2>1, <3>2
  <2>2. \A u \in Thread : th[u].self # s
    BY <1>1, SelfHeld
  <2>3. QED
    BY <1>1, <1>2, <2>1, <2>2 DEF IInv, TypeOK, ThreadState
<1>7. CallsOK'
  <2>1. CallOK(t)'
    <3>1. CallOK(t) /\ th'[t] = th[t]
      BY <1>2 DEF IInv, CallsOK
    <3>2. ASSUME th[t].pc \in {"get"} \cup Making PROVE DbOf(th[t].self)' = DbOf(th[t].self)
      <4>1. th[t].self \in Db \cup Snap
        BY <3>2 DEF IInv, TypeOK, ThreadOK, Making
      <4>2. QED
        BY <1>4, <1>6, <4>1 DEF DbOf
    <3>3. QED
      BY <3>1, <3>2 DEF CallOK
  <2>2. QED
    BY <1>4, <1>6, <2>1, CallsStep
<1>8. /\ Parent(s)' = d
      /\ \A b \in Child : b # s => Parent(b)' = Parent(b)
  BY <1>2, <1>4, <1>6 DEF Parent, Detached, Child
<1>9. /\ \A o \in Object : o # s /\ o # d => Refs(o)' = Refs(o)
      /\ Refs(s) = {} /\ Refs(s)' = {s} /\ RefcountExact'
  <2>1. rc'[s] = 1 /\ rc'[d] = rc[d] + 1 /\ \A o \in Object : o # s /\ o # d => rc'[o] = rc[o]
    BY <1>1, <1>2 DEF IInv, TypeOK
  <2>2. d \in Db \cup {Null} /\ Refs(d) # {} /\ named' = named \cup {s}
    BY <1>2, <1>3
  <2>3. \A u \in Thread : th'[u].self = th[u].self
    BY <1>6
  <2>4. QED
    BY <1>1, <1>7, <1>8, <2>1, <2>2, <2>3, NewChildStep
<1>10. MemorySafe'
  BY <1>2, <1>3 DEF MemorySafe, Deref, Up
<1>11. Exclusive'
  BY <1>2 DEF IInv, Exclusive
<1>12. Unowned'
  <2>1. \A u \in Thread : ~ Claims(u, s)
    BY <1>6 DEF Claims
  <2>2. \A u \in Thread : ~ Claims(u, d)
    BY <1>1, <1>3, Unclaimed
  <2>3. ThreadOwn(t)'
    <3>1. ThreadOwn(t) /\ th' = th
      BY <1>2 DEF IInv, Unowned
    <3>2. \A o \in Object : Claims(t, o) => Refs(o)' = Refs(o)
      BY <1>9, <2>1, <2>2
    <3>3. /\ th[t].dying # Null => th[t].dying \in Object /\ Claims(t, th[t].dying)
          /\ th[t].cur # Null /\ th[t].cur # th[t].self => th[t].cur \in Object /\ Claims(t, th[t].cur)
          /\ th[t].pc \in {"open", "opened"} => th[t].self \in Object /\ Claims(t, th[t].self)
      BY DEF IInv, TypeOK, ThreadState, ThreadOK, Claims, Object, Child
    <3>4. QED
      BY <3>1, <3>2, <3>3 DEF ThreadOwn
  <2>4. QED
    BY <1>6, <1>9, <2>1, <2>2, <2>3, OwnStep
<1>13. AllocOK'
  <2>1. \A x : x \in alloc' <=> x \in alloc \/ x = s
    BY <1>2
  <2>2. \A p \in Object : Refs(p)' # {} => p \in alloc'
    BY <1>3, <1>9, <2>1 DEF IInv, AllocOK
  <2>3. \A u \in Thread : ThreadAlloc(u)'
    BY <1>6, <2>1 DEF IInv, AllocOK, ThreadAlloc
  <2>4. \A e \in Db : e \notin alloc' => db'[e] = NewDb
    BY <1>3, <1>5, <2>1 DEF IInv, AllocOK
  <2>5. QED
    BY <1>2, <1>4, <2>1, <2>2, <2>3, <2>4 DEF IInv, AllocOK
<1>14. DbsOK'
  <2>1. ThreadDb(t)'
    <3>1. th' = th /\ ThreadDb(t) /\ (th[t].pc = "open" => th[t].self \in Db)
          /\ (th[t].pc \in Closing => th[t].dying \in Db)
      BY <1>2 DEF IInv, DbsOK, TypeOK, ThreadOK, Closing
    <3>2. QED
      BY <1>5, <3>1 DEF ThreadDb, Up, Down, Closing
  <2>2. Up(d)'
    BY <1>3, <1>5 DEF Up
  <2>3. \A e \in named' \cap Db : e \notin named => Up(e)'
    BY <1>1, <1>2
  <2>4. \A c \in Child : Parent(c)' # Null /\ Parent(c)' # Parent(c) => Up(Parent(c))'
    BY <1>8, <2>2
  <2>5. QED
    BY <1>5, <1>6, <2>1, <2>3, <2>4, SameDbsStep
<1>15. SnapsOK' /\ ItersOK'
  <2>1. \A r \in Snap : r # s => Refs(r)' = Refs(r)
    BY <1>9, HandlesAssumption DEF Object, Child
  <2>2. \A r \in Snap : Refs(r)' # {} => snap'[r].db # Null
    BY <1>1, <1>4, <2>1 DEF IInv, SnapsOK
  <2>3. \A r \in Snap : (\A u \in Thread : th'[u].cur # r) => snap'[r].native = snap'[r].db
    BY <1>4, <1>6 DEF IInv, SnapsOK
  <2>4. \A u \in Thread : ThreadSnap(u)'
    BY <1>4, <1>6 DEF IInv, SnapsOK, ThreadSnap
  <2>5. ItersOK'
    BY <1>2 DEF IInv, ItersOK, ThreadIter
  <2>6. QED
    BY <2>2, <2>3, <2>4, <2>5 DEF SnapsOK
<1>16. QED
  BY <1>7, <1>9, <1>10, <1>11, <1>12, <1>13, <1>14, <1>15 DEF IInv

\* The iterator that thread t has made becomes a Python object.
LEMMA IterNewInv ==
  ASSUME IInv, TypeOK', NEW t \in Thread, NEW i \in Iter, i = th[t].cur, NEW d, d = IterRef(t),
         PyLevelDBIter_New(t)
  PROVE  IInv'
<1>1. /\ th[t].pc = "make" /\ fault = "none" /\ th[t].self \in Db \cup Snap /\ th[t].dying = Null
      /\ i \in Child /\ i \in Object /\ i \notin Db /\ i \notin Snap /\ i # Null
  BY HandlesAssumption DEF PyLevelDBIter_New, At, IInv, TypeOK, ThreadOK, Object, Child
<1>2. /\ alloc' = alloc \cup {i} /\ named' = named \cup {i}
      /\ iter' = [iter EXCEPT ![i].db = d]
      /\ \/ d = Null /\ rc' = [rc EXCEPT ![i] = 1] /\ UNCHANGED db
         \/ d # Null /\ rc' = [rc EXCEPT ![i] = 1, ![d] = @ + 1]
                     /\ db' = [db EXCEPT ![d].n_iterators = @ + 1]
      /\ th' = [th EXCEPT ![t] = [Idle EXCEPT !.pc = "return", !.self = th[t].self]]
      /\ UNCHANGED <<snap, fault>>
  BY DEF PyLevelDBIter_New, CountIter
<1>3. /\ \A u \in Thread \ {t} : th'[u] = th[u]
      /\ th'[t].pc = "return" /\ th'[t].self = th[t].self /\ th'[t].cur = Null /\ th'[t].dying = Null
  BY <1>2 DEF IInv, TypeOK, Idle
<1>4. /\ th[t].using \in Db /\ th[t].using = DbOf(th[t].self) /\ Up(th[t].using)
  BY <1>1, CallUp DEF Making
<1>5. iter[i].native = d /\ d \in Db \cup {Null} /\ (d # Null => d = th[t].using)
  BY <1>1, <1>4 DEF IInv, ItersOK, ThreadIter, IterRef
<1>6. d # Null => Up(d) /\ d \in alloc /\ \A u \in Thread \ {t} : ~ Claims(u, d)
  <2>1. ASSUME d # Null PROVE \E x \in Refs(d) : x = t \/ x \notin Thread
    <3>1. CASE th[t].self \in Db
      BY <1>4, <1>5, <2>1, <3>1, OwnersOf DEF IInv, DbOf, Owns, Object
    <3>2. CASE th[t].self \in Snap /\ th[t].self \notin Db
      <4>1. Refs(th[t].self) # {}
        BY <3>2, SelfHeld DEF Object
      <4>2. Parent(th[t].self) = d
        BY <1>4, <1>5, <2>1, <3>2, <4>1, SnapHeld DEF DbOf
      <4>3. th[t].self \in Refs(d)
        BY <1>5, <2>1, <3>2, <4>2, OwnersOf DEF IInv, Owns, Object, Child
      <4>4. QED
        BY <3>2, <4>3, HandlesAssumption DEF Object
    <3>3. QED
      BY <1>1, <3>1, <3>2
  <2>2. ASSUME d # Null PROVE d \in Object /\ Refs(d) # {} /\ Up(d)
    BY <1>4, <1>5, <2>1, <2>2 DEF Object
  <2>3. QED
    BY <2>1, <2>2, Protected, Unclaimed
<1>7. i \notin alloc /\ \A u \in Thread : (u # t => th[u].cur # i) /\ th[u].self # i /\ th[u].dying # i
  <2>1. i \notin alloc /\ \A u \in Thread : u # t => th[u].cur # i
    BY <1>1 DEF IInv, AllocOK, ThreadAlloc, Exclusive, Making
  <2>2. \A u \in Thread : th[u].self # i
    BY <1>1, <2>1, SelfHeld
  <2>3. QED
    BY <1>1, <2>1, <2>2 DEF IInv, TypeOK, ThreadState
<1>8. /\ iter'[i].db = d /\ iter'[i].native = d
      /\ \A j \in Iter : j # i => iter'[j] = iter[j]
  BY <1>2, <1>5 DEF IInv, TypeOK, IterStruct
<1>9. /\ \A e \in Db : db'[e].native = db[e].native /\ db'[e].aux = db[e].aux
      /\ \A e \in Db : e # d => db'[e] = db[e]
  <2>1. CASE d = Null
    BY <1>2, <2>1
  <2>2. CASE d # Null
    <3>1. d \in Db /\ db' = [db EXCEPT ![d].n_iterators = @ + 1]
      BY <1>2, <1>5, <2>2
    <3>2. db'[d] = [db[d] EXCEPT !.n_iterators = @ + 1] /\ db[d] \in DbStruct
      BY <3>1 DEF IInv, TypeOK
    <3>3. db'[d].native = db[d].native /\ db'[d].aux = db[d].aux
      BY <3>2 DEF DbStruct
    <3>4. \A e \in Db : e # d => db'[e] = db[e]
      BY <3>1 DEF IInv, TypeOK
    <3>5. QED
      BY <3>3, <3>4
  <2>3. QED
    BY <2>1, <2>2
<1>10. CallsOK'
  <2>1. CallOK(t)'
    BY <1>3 DEF CallOK, Closing, Making
  <2>2. QED
    BY <1>2, <1>3, <2>1, CallsStep
<1>11. /\ Parent(i)' = d
       /\ \A b \in Child : b # i => Parent(b)' = Parent(b)
  <2>1. \A b \in Child : Detached(b)' <=> Detached(b)
    BY <1>1, <1>3 DEF Detached
  <2>2. ~ Detached(i)
    BY <1>1, <1>7 DEF Detached
  <2>3. QED
    BY <1>1, <1>2, <1>8, <2>1, <2>2 DEF Parent, Child
<1>12. /\ \A o \in Object : o # i /\ o # d => Refs(o)' = Refs(o)
       /\ Refs(i) = {} /\ Refs(i)' = {i} /\ RefcountExact'
  <2>1. rc'[i] = 1 /\ (d # Null => rc'[d] = rc[d] + 1)
        /\ \A o \in Object : o # i /\ o # d => rc'[o] = rc[o]
    BY <1>1, <1>2, <1>5 DEF IInv, TypeOK, Object
  <2>2. d # Null => Refs(d) # {}
    <3>1. CASE th[t].self \in Db
      BY <1>4, <1>5, <3>1, SelfHeld DEF DbOf, Object
    <3>2. CASE th[t].self \in Snap /\ th[t].self \notin Db
      <4>1. Refs(th[t].self) # {}
        BY <3>2, SelfHeld DEF Object
      <4>2. Parent(th[t].self) = th[t].using
        BY <1>4, <3>2, <4>1, SnapHeld DEF DbOf
      <4>3. QED
        BY <1>5, <3>2, <4>2, ParentHeld DEF Child
    <3>3. QED
      BY <1>1, <3>1, <3>2
  <2>3. \A u \in Thread : th'[u].self = th[u].self
    BY <1>3
  <2>4. QED
    BY <1>1, <1>2, <1>5, <1>7, <1>10, <1>11, <2>1, <2>2, <2>3, NewChildStep
<1>13. Exclusive'
  BY <1>1, <1>3, ExclusiveStep, HandlesAssumption DEF Object, Child
<1>14. Unowned'
  <2>1. \A u \in Thread \ {t} : ~ Claims(u, i)
    BY <1>7 DEF Claims
  <2>2. ThreadOwn(t)'
    BY <1>3 DEF ThreadOwn
  <2>3. \A o \in Object : Refs(o)' = Refs(o) \/ \A u \in Thread \ {t} : ~ Claims(u, o)
    BY <1>5, <1>6, <1>12, <2>1, HandlesAssumption
  <2>4. QED
    BY <1>3, <2>2, <2>3, OwnStep
<1>15. AllocOK'
  <2>1. \A x : x \in alloc' <=> x \in alloc \/ x = i
    BY <1>2
  <2>2. \A p \in Object : Refs(p)' # {} => p \in alloc'
    BY <1>5, <1>6, <1>12, <2>1, HandlesAssumption DEF IInv, AllocOK
  <2>3. ASSUME NEW u \in Thread PROVE ThreadAlloc(u)'
    <3>1. CASE u = t
      BY <1>3, <3>1 DEF ThreadAlloc
    <3>2. CASE u # t
      <4>1. th'[u] = th[u] /\ ThreadAlloc(u) /\ th[u].cur # i /\ th[u].dying # i
        BY <1>3, <1>7, <3>2 DEF IInv, AllocOK
      <4>2. QED
        BY <2>1, <4>1 DEF ThreadAlloc
    <3>3. QED
      BY <3>1, <3>2
  <2>4. \A e \in Db : e \notin alloc' => db'[e] = NewDb
    BY <1>5, <1>6, <1>9, <2>1, HandlesAssumption DEF IInv, AllocOK, Object
  <2>5. \A j \in Iter : j \notin alloc' => iter'[j].db = Null
    BY <1>8, <2>1 DEF IInv, AllocOK
  <2>6. \A s \in Snap : s \notin alloc' => snap'[s].db = Null
    BY <1>2, <2>1 DEF IInv, AllocOK
  <2>7. QED
    BY <2>2, <2>3, <2>4, <2>5, <2>6 DEF AllocOK
<1>16. DbsOK'
  <2>1. ThreadDb(t)'
    <3>1. th[t].self \in Db => Up(th[t].self)
      BY <1>4 DEF DbOf
    <3>2. QED
      BY <1>3, <1>9, <3>1 DEF ThreadDb, Up, Making
  <2>2. d # Null => Up(d)'
    BY <1>5, <1>6, <1>9 DEF Up
  <2>3. \A e \in named' \cap Db : e \notin named => Up(e)'
    BY <1>1, <1>2
  <2>4. \A c \in Child : Parent(c)' # Null /\ Parent(c)' # Parent(c) => Up(Parent(c))'
    BY <1>11, <2>2
  <2>5. \A u \in Thread : u # t => /\ th'[u].self = th[u].self /\ th'[u].pc = th[u].pc
                                  /\ th'[u].dying = th[u].dying
    BY <1>3
  <2>6. QED
    BY <1>9, <2>1, <2>3, <2>4, <2>5, SameDbsStep
<1>17. SnapsOK' /\ ItersOK'
  <2>1. \A s \in Snap : Refs(s)' = Refs(s)
    BY <1>1, <1>5, <1>12, HandlesAssumption DEF Object, Child
  <2>2. \A u \in Thread \ {t} : ThreadSnap(u)' /\ ThreadIter(u)'
    <3>1. ASSUME NEW u \in Thread \ {t} PROVE ThreadSnap(u)' /\ ThreadIter(u)'
      <4>1. th'[u] = th[u] /\ ThreadSnap(u) /\ ThreadIter(u)
        BY <1>3 DEF IInv, SnapsOK, ItersOK
      <4>2. ThreadSnap(u)'
        BY <1>2, <4>1 DEF ThreadSnap
      <4>3. ThreadIter(u)'
        BY <1>2, <1>7, <1>8, <4>1 DEF ThreadIter
      <4>4. QED
        BY <4>2, <4>3
    <3>2. QED
      BY <3>1
  <2>3. ThreadSnap(t)' /\ ThreadIter(t)'
    BY <1>3, HandlesAssumption DEF ThreadSnap, ThreadIter, Object
  <2>4. \A j \in Iter : (\A u \in Thread : th'[u].cur # j) => iter'[j].native = iter'[j].db
    BY <1>3, <1>8 DEF IInv, ItersOK
  <2>5. \A s \in Snap : (\A u \in Thread : th'[u].cur # s) => \A u \in Thread : th[u].cur # s
    BY <1>1, <1>3
  <2>6. QED
    BY <1>2, <2>1, <2>2, <2>3, <2>4, <2>5 DEF IInv, SnapsOK, ItersOK
<1>18. QED
  BY <1>1, <1>2, <1>10, <1>12, <1>13, <1>14, <1>15, <1>16, <1>17 DEF IInv, MemorySafe

----------------------------------------------------------------------------
(* Giving a database back *)

LEMMA FinishFields ==
  ASSUME TypeOK, NEW t \in Thread, NEW c, c = th[t].cur, NEW gone, Finish(t, gone)
  PROVE  /\ \A u \in Thread \ {t} : th'[u] = th[u]
         /\ th'[t].self = th[t].self /\ th'[t].cur = Null /\ th'[t].dying = Null
         /\ th'[t].pc = IF th[t].self = Null THEN "idle" ELSE "return"
         /\ \A x : x \in alloc' <=> x \in alloc /\ x \notin gone /\ (th[t].self = Null => x # c)
         /\ \A i \in Iter : /\ iter'[i].native = iter[i].native
                            /\ iter'[i].db = IF i = c THEN Null ELSE iter[i].db
         /\ \A s \in Snap : /\ snap'[s].native = snap[s].native
                            /\ snap'[s].db = IF s = c THEN Null ELSE snap[s].db
<1>1. /\ alloc' = alloc \ (gone \cup (IF th[t].self = Null THEN {c} ELSE {}))
      /\ iter' = [i \in Iter |-> IF i = c THEN [iter[i] EXCEPT !.db = Null] ELSE iter[i]]
      /\ snap' = [s \in Snap |-> IF s = c THEN [snap[s] EXCEPT !.db = Null] ELSE snap[s]]
      /\ th' = [th EXCEPT ![t] = IF th[t].self = Null THEN Idle
                                 ELSE [Idle EXCEPT !.pc = "return", !.self = th[t].self]]
  BY DEF Finish
<1>2. /\ \A u \in Thread \ {t} : th'[u] = th[u]
      /\ th'[t].self = th[t].self /\ th'[t].cur = Null /\ th'[t].dying = Null
      /\ th'[t].pc = IF th[t].self = Null THEN "idle" ELSE "return"
  BY <1>1 DEF TypeOK, Idle
<1>3. ASSUME NEW i \in Iter
      PROVE  iter'[i].native = iter[i].native /\ iter'[i].db = IF i = c THEN Null ELSE iter[i].db
  BY <1>1 DEF TypeOK, IterStruct
<1>4. ASSUME NEW s \in Snap
      PROVE  snap'[s].native = snap[s].native /\ snap'[s].db = IF s = c THEN Null ELSE snap[s].db
  BY <1>1 DEF TypeOK, SnapStruct
<1>5. \A x : x \in alloc' <=> x \in alloc /\ x \notin gone /\ (th[t].self = Null => x # c)
  BY <1>1
<1>6. QED
  BY <1>2, <1>3, <1>4, <1>5

\* Thread t is done with the child c, which gives up its database d, and with
\* the databases gone.
LEMMA FinishInv ==
  ASSUME IInv, TypeOK', MemorySafe', NEW t \in Thread, th[t].pc \in {"unref", "unsnap", "closed"},
         NEW c \in Child \cup {Null}, c = th[t].cur, NEW gone \in SUBSET Db, Finish(t, gone), named' = named,
         c \in Snap => snap[c].native = Null, c \in Iter => iter[c].native = Null,
         th[t].self # Null => th[t].self = c /\ c \in Iter,
         \A g \in gone : g = th[t].dying /\ db'[g] = NewDb,
         \A e \in Db \ gone : db'[e] = db[e] \/
            (e \in alloc /\ db'[e].native = db[e].native /\ db'[e].aux = db[e].aux),
         NEW d \in Db \cup {Null}, c \in Child => Parent(c) = d, c = Null => d = Null,
         d # Null => rc'[d] = rc[d] - 1, \A o \in Object : o # d => rc'[o] = rc[o]
  PROVE  IInv'
<1>1. /\ \A u \in Thread \ {t} : th'[u] = th[u]
      /\ th'[t].self = th[t].self /\ th'[t].cur = Null /\ th'[t].dying = Null
      /\ th'[t].pc = IF th[t].self = Null THEN "idle" ELSE "return"
      /\ \A x : x \in alloc' <=> x \in alloc /\ x \notin gone /\ (th[t].self = Null => x # c)
      /\ \A i \in Iter : /\ iter'[i].native = iter[i].native
                         /\ iter'[i].db = IF i = c THEN Null ELSE iter[i].db
      /\ \A s \in Snap : /\ snap'[s].native = snap[s].native
                         /\ snap'[s].db = IF s = c THEN Null ELSE snap[s].db
  BY FinishFields DEF IInv
<1>2. /\ Null \notin Object /\ c \notin Thread /\ c \notin Db /\ Null \notin Child
      /\ (c \in Iter => c \notin Snap) /\ (c # d \/ c = Null)
  BY HandlesAssumption DEF Object, Child
<1>3. /\ \A u \in Thread : u # t /\ c # Null => th[u].cur # c
      /\ th[t].self = Null /\ c # Null => Refs(c) = {}
  BY DEF IInv, Exclusive, Unowned, ThreadOwn
<1>4. \A g \in gone : /\ Refs(g) = {} /\ g \notin named /\ \A b \in Child : Parent(b) # g
                      /\ \A u \in Thread : th[u].self # g /\ (u # t => th[u].dying # g)
  <2>1. ASSUME NEW g \in gone PROVE th[t].pc \in Closing /\ g = th[t].dying /\ g \in Db
    BY <1>2 DEF IInv, CallsOK, CallOK, Object
  <2>2. QED
    BY <2>1, DyingAlone
<1>5. ASSUME NEW s \in Snap, s = c PROVE \A u \in Thread : th[u].self # s
  BY <1>2, <1>5, SelfHeld DEF Object
<1>6. CallsOK'
  <2>1. CallOK(t)'
    BY <1>1 DEF CallOK, Closing, Making
  <2>2. QED
    BY <1>1, <1>5, <2>1, CallsStep
<1>7. /\ c \in Child => Parent(c)' = Null
      /\ \A b \in Child : b # c => Parent(b)' = Parent(b)
  <2>1. \A b \in Child : b # c => (Detached(b)' <=> Detached(b))
    BY <1>1, <1>2 DEF Detached
  <2>2. QED
    BY <1>1, <2>1 DEF Parent, Child
<1>8. ASSUME NEW p \in Object, NEW y
      PROVE  y \in Refs(p)' <=> y \in Refs(p) /\ (p # d \/ y # c)
  <2>1. \A b \in Child : Parent(b)' = p <=> Parent(b) = p /\ (p # d \/ b # c)
    BY <1>2, <1>7
  <2>2. \A u \in Thread : th'[u].self = th[u].self /\ u # c
    BY <1>1, <1>2
  <2>3. p = d => p # c
    BY <1>2
  <2>4. Owns(y, p)' <=> Owns(y, p) /\ (p # d \/ y # c)
    BY <2>1, <2>2, <2>3 DEF Owns
  <2>5. QED
    BY <1>6, <2>4, OwnersOf, OwnersOfNext DEF IInv
<1>9. \A p \in Object : p # d => Refs(p)' = Refs(p)
  BY <1>8
<1>10. d # Null => d \in Object /\ c \in Refs(d)
  BY OwnersOf DEF IInv, Owns, Object
<1>11. RefcountExact'
  <2>1. ASSUME d # Null PROVE rc'[d] = Cardinality(Refs(d)')
    <3>1. Cardinality(Refs(d)') = Cardinality(Refs(d)) - 1
      BY <1>8, <1>10, <2>1, RefsFinite, CountDel
    <3>2. QED
      BY <1>10, <2>1, <3>1 DEF IInv, RefcountExact
  <2>2. QED
    BY <1>2, <1>9, <2>1, RefcountStep
<1>12. Exclusive'
  <2>1. \A u \in Thread \ {t} : th[t].self \in Iter => th[t].self # th[u].self
    BY DEF IInv, Exclusive
  <2>2. QED
    BY <1>1, <2>1, ExclusiveStep
<1>13. Unowned'
  <2>1. ThreadOwn(t)'
    BY <1>1 DEF ThreadOwn
  <2>2. d # Null => \A u \in Thread \ {t} : ~ Claims(u, d)
    BY <1>2, <1>10, Unclaimed
  <2>3. \A o \in Object : Refs(o)' = Refs(o) \/ \A u \in Thread \ {t} : ~ Claims(u, o)
    BY <1>2, <1>9, <2>2
  <2>4. QED
    BY <1>1, <2>1, <2>3, OwnStep
<1>14. AllocOK'
  <2>1. \A p \in Object : Refs(p)' # {} => p \in alloc'
    <3>1. ASSUME NEW p \in Object, Refs(p)' # {} PROVE p \in alloc'
      <4>1. Refs(p) # {}
        BY <1>8, <3>1
      <4>2. p \in alloc /\ p \notin gone /\ (th[t].self = Null => p # c)
        BY <1>2, <1>3, <1>4, <4>1 DEF IInv, AllocOK
      <4>3. QED
        BY <1>1, <4>2
    <3>2. QED
      BY <3>1
  <2>2. ASSUME NEW u \in Thread PROVE ThreadAlloc(u)'
    <3>1. CASE u = t
      BY <1>1, <3>1 DEF ThreadAlloc
    <3>2. CASE u # t
      <4>1. th'[u] = th[u] /\ ThreadAlloc(u)
        BY <1>1, <3>2 DEF IInv, AllocOK
      <4>2. th[u].dying # Null => th[u].dying \notin gone /\ th[u].dying # c
        BY <1>2, <1>4, <3>2 DEF IInv, TypeOK, ThreadState
      <4>3. th[u].cur # Null => th[u].cur \notin gone /\ th[u].cur # c
        BY <1>3, <3>2, HandlesAssumption DEF IInv, TypeOK, ThreadState
      <4>4. QED
        BY <1>1, <4>1, <4>2, <4>3 DEF ThreadAlloc
    <3>3. QED
      BY <3>1, <3>2
  <2>3. \A e \in Db : e \notin alloc' => db'[e] = NewDb
    BY <1>1, <1>2 DEF IInv, AllocOK
  <2>4. \A i \in Iter : i \notin alloc' => iter'[i].db = Null
    BY <1>1, <1>2, HandlesAssumption DEF IInv, AllocOK, Child
  <2>5. \A s \in Snap : s \notin alloc' => snap'[s].db = Null
    BY <1>1, <1>2, HandlesAssumption DEF IInv, AllocOK, Child
  <2>6. QED
    BY <2>1, <2>2, <2>3, <2>4, <2>5 DEF AllocOK
<1>15. DbsOK'
  <2>1. \A e \in Db \ gone : db'[e].native = db[e].native /\ db'[e].aux = db[e].aux
    OBVIOUS
  <2>2. \A e \in named' \cap Db : Up(e)'
    BY <1>4, <2>1 DEF IInv, DbsOK, Up
  <2>3. ASSUME NEW b \in Child, Parent(b)' # Null PROVE Up(Parent(b))'
    <3>1. Parent(b)' = Parent(b) /\ Parent(b) \in Db /\ Parent(b) \notin gone /\ Up(Parent(b))
      BY <1>4, <1>7, <2>3, ParentHeld DEF IInv, DbsOK
    <3>2. QED
      BY <2>1, <3>1 DEF Up
  <2>4. ASSUME NEW u \in Thread PROVE ThreadDb(u)'
    <3>1. CASE u = t
      <4>1. th[t].self \notin Db
        BY <1>2, HandlesAssumption DEF Object
      <4>2. QED
        BY <1>1, <3>1, <4>1 DEF ThreadDb, Making
    <3>2. CASE u # t
      <4>1. th'[u] = th[u] /\ ThreadDb(u) /\ th[u].self \notin gone /\ th[u].dying \notin gone
        BY <1>1, <1>4, <3>2 DEF IInv, DbsOK
      <4>2. (th[u].pc = "open" => th[u].self \in Db) /\ (th[u].pc \in Closing => th[u].dying \in Db)
        BY DEF IInv, TypeOK, ThreadOK, Closing
      <4>3. QED
        BY <2>1, <4>1, <4>2 DEF ThreadDb, Up, Down, Closing
    <3>3. QED
      BY <3>1, <3>2
  <2>5. QED
    BY <2>2, <2>3, <2>4 DEF DbsOK
<1>16. SnapsOK' /\ ItersOK'
  <2>1. \A s \in Snap : Refs(s)' # {} => s # c /\ Refs(s) # {}
    <3>1. \A s \in Snap : s \in Object /\ s # d
      BY <1>2, HandlesAssumption DEF Object, Child
    <3>2. \A s \in Snap : Refs(s)' = Refs(s)
      BY <1>9, <3>1
    <3>3. QED
      BY <1>2, <1>3, <3>1, <3>2
  <2>2. \A s \in Snap : Refs(s)' # {} => snap'[s].db # Null
    BY <1>1, <2>1 DEF IInv, SnapsOK
  <2>3. \A s \in Snap : (\A u \in Thread : th'[u].cur # s) => snap'[s].native = snap'[s].db
    BY <1>1 DEF IInv, SnapsOK
  <2>4. \A i \in Iter : (\A u \in Thread : th'[u].cur # i) => iter'[i].native = iter'[i].db
    BY <1>1 DEF IInv, ItersOK
  <2>5. ASSUME NEW u \in Thread, u # t PROVE ThreadSnap(u)' /\ ThreadIter(u)'
    <3>1. th'[u] = th[u] /\ ThreadSnap(u) /\ ThreadIter(u) /\ (th[u].cur # Null => th[u].cur # c)
      BY <1>1, <1>3, <2>5 DEF IInv, SnapsOK, ItersOK
    <3>2. th[u].cur \in Child => th[u].cur # Null
      BY <1>2
    <3>3. QED
      BY <1>1, <3>1, <3>2 DEF ThreadSnap, ThreadIter, Child
  <2>6. ThreadSnap(t)' /\ ThreadIter(t)'
    BY <1>1, <1>2 DEF ThreadSnap, ThreadIter, Child
  <2>7. QED
    BY <2>2, <2>3, <2>4, <2>5, <2>6 DEF SnapsOK, ItersOK
<1>17. QED
  BY <1>6, <1>11, <1>12, <1>13, <1>14, <1>15, <1>16 DEF IInv

\* The memory of a closed database is freed.
LEMMA DbDeallocInv ==
  ASSUME IInv, TypeOK', NEW t \in Thread, NEW d \in Db, d = th[t].dying, PyLevelDB_dealloc(t)
  PROVE  IInv'
<1> DEFINE c == th[t].cur
<1>1. /\ th[t].pc = "closed" /\ fault = "none" /\ th[t].self \notin Db \cup Snap
      /\ db' = [db EXCEPT ![d] = NewDb] /\ Finish(t, {d}) /\ UNCHANGED <<rc, named, fault>>
  BY DEF PyLevelDB_dealloc, At
<1>2. /\ Null \notin Object /\ Null \notin Child /\ Null \notin Db
      /\ c \in Child \cup {Null} /\ th[t].self \in Object \cup {Null} /\ d # Null
  BY HandlesAssumption DEF IInv, TypeOK, ThreadState, Object, Child
<1>3. th[t].self # Null => th[t].self = c /\ c \in Iter
  BY <1>1, <1>2 DEF IInv, TypeOK, ThreadOK, Object
<1>4. (c \in Snap => snap[c].native = Null) /\ (c \in Iter => iter[c].native = Null)
  BY <1>1 DEF IInv, SnapsOK, ItersOK, ThreadSnap, ThreadIter, Closing
<1>5. c \in Child => Parent(c) = Null
  BY <1>2 DEF Parent, Detached
<1>6. db'[d] = NewDb /\ \A e \in Db \ {d} : db'[e] = db[e]
  BY <1>1 DEF IInv, TypeOK
<1>7. MemorySafe'
  BY <1>1 DEF MemorySafe
<1>8. /\ {d} \in SUBSET Db /\ named' = named /\ \A o \in Object : rc'[o] = rc[o]
      /\ \A g \in {d} : g = th[t].dying /\ db'[g] = NewDb
  BY <1>1, <1>6
<1>9. QED
  BY <1>1, <1>2, <1>3, <1>4, <1>5, <1>6, <1>7, <1>8, FinishInv

\* Thread t gives back the database d of the child c, and closes d when c had
\* the last reference to it.
LEMMA ReleaseInv ==
  ASSUME IInv, TypeOK', MemorySafe', NEW t \in Thread, th[t].pc \in {"unref", "unsnap"},
         NEW c \in Child, c = th[t].cur, NEW d \in Db \cup {Null},
         d = IF c \in Snap THEN snap[c].db ELSE iter[c].db, ReleaseParent(t, d), named' = named,
         \A e \in Db : db'[e] = db[e] \/
            (e \in alloc /\ db'[e].native = db[e].native /\ db'[e].aux = db[e].aux)
  PROVE  IInv'
<1>1. /\ th[t].dying = Null /\ th[t].self \in {Null, c} /\ (th[t].self # Null => c \in Iter)
      /\ th[t].pc = "unsnap" => c \in Snap
      /\ th[t].pc = "unref" => c \in Iter
  BY DEF IInv, TypeOK, ThreadOK
<1>2. /\ Null \notin Object /\ Null \notin Db /\ c \notin Thread /\ c \in Object /\ c \notin Db
      /\ c # Null /\ c # d /\ Null \notin Child /\ c \in Snap \cup Iter /\ Snap \cap Iter = {}
  BY HandlesAssumption DEF Object, Child
<1>3. /\ \A u \in Thread : th[u].cur = c => u = t
      /\ Parent(c) = d /\ (d # Null => Up(d))
  BY <1>1, CurHeld
<1>4. (c \in Snap => snap[c].native = Null /\ snap[c].db # Null) /\ (c \in Iter => iter[c].native = Null)
  BY <1>1, <1>2 DEF IInv, SnapsOK, ItersOK, ThreadSnap, ThreadIter
<1>5. CASE ~ (d # Null /\ rc[d] = 1)
  <2>1. Finish(t, {}) /\ rc' = IF d = Null THEN rc ELSE [rc EXCEPT ![d] = @ - 1]
    BY <1>5 DEF ReleaseParent
  <2>2. (d # Null => rc'[d] = rc[d] - 1) /\ \A o \in Object : o # d => rc'[o] = rc[o]
    BY <2>1 DEF IInv, TypeOK, Object
  <2>3. {} \in SUBSET Db /\ \A e \in Db \ {} : db'[e] = db[e] \/
            (e \in alloc /\ db'[e].native = db[e].native /\ db'[e].aux = db[e].aux)
    OBVIOUS
  <2>4. th[t].self # Null => th[t].self = c /\ c \in Iter
    BY <1>1
  <2>5. c \in Child \cup {Null} /\ c # Null
    BY <1>2
  <2>6. /\ th[t].pc \in {"unref", "unsnap", "closed"} /\ named' = named
        /\ c \in Snap => snap[c].native = Null
        /\ c \in Iter => iter[c].native = Null
        /\ c \in Child => Parent(c) = d
        /\ c = Null => d = Null
    BY <1>3, <1>4, <2>5
  <2>7. ASSUME NEW gone \in SUBSET Db, gone = {} PROVE IInv'
    <3>1. /\ Finish(t, gone) /\ th[t].pc \in {"unref", "unsnap", "closed"} /\ named' = named
          /\ \A g \in gone : g = th[t].dying /\ db'[g] = NewDb
          /\ \A e \in Db \ gone : db'[e] = db[e] \/
                (e \in alloc /\ db'[e].native = db[e].native /\ db'[e].aux = db[e].aux)
      BY <2>1, <2>3, <2>6, <2>7
    <3>2. /\ c \in Snap => snap[c].native = Null
          /\ c \in Iter => iter[c].native = Null
          /\ th[t].self # Null => th[t].self = c /\ c \in Iter
          /\ c \in Child => Parent(c) = d
          /\ c = Null => d = Null
          /\ d # Null => rc'[d] = rc[d] - 1
          /\ \A o \in Object : o # d => rc'[o] = rc[o]
      BY <2>2, <2>4, <2>6
    <3>3. QED
      BY <2>5, <3>1, <3>2, FinishInv, SMTT(60)
  <2>8. QED
    BY <2>3, <2>7
<1>6. CASE d # Null /\ rc[d] = 1
  <2>1. /\ rc' = [rc EXCEPT ![d] = 0] /\ th' = [th EXCEPT ![t].pc = "close", ![t].dying = d]
        /\ UNCHANGED <<alloc, iter, snap>>
    BY <1>6 DEF ReleaseParent
  <2>2. /\ \A u \in Thread \ {t} : th'[u] = th[u]
        /\ th'[t].pc = "close" /\ th'[t].self = th[t].self /\ th'[t].cur = c /\ th'[t].dying = d
    <3>1. th \in [Thread -> ThreadState]
      BY DEF IInv, TypeOK
    <3>2. QED
      BY <2>1, <3>1 DEF ThreadState
  <2>3. d \in Db /\ d \in Object /\ d \in alloc /\ c \in Refs(d) /\ \A u \in Thread : th[u].dying # d
    <3>1. d \in Db /\ d \in Object
      BY <1>6 DEF Object
    <3>2. c \in Refs(d)
      BY <1>3, <3>1, OwnersOf DEF IInv, Owns
    <3>3. QED
      BY <3>1, <3>2, Protected
  <2>4. Refs(d) = {c}
    BY <1>6, <2>3, LastOwner DEF IInv
  <2>5. CallsOK'
    <3>1. CallOK(t)'
      BY <1>1, <1>2, <2>2 DEF CallOK, Closing, Making, Object
    <3>2. QED
      BY <2>1, <2>2, <3>1, CallsStep
  <2>6. /\ Parent(c)' = Null
        /\ \A b \in Child : b # c => Parent(b)' = Parent(b)
    <3>1. \A b \in Child : b # c => (Detached(b)' <=> Detached(b))
      BY <2>2 DEF Detached
    <3>2. Detached(c)'
      BY <1>6, <2>2 DEF Detached
    <3>3. QED
      BY <2>1, <3>1, <3>2 DEF Parent
  <2>7. ASSUME NEW p \in Object, NEW y
        PROVE  y \in Refs(p)' <=> y \in Refs(p) /\ (p # d \/ y # c)
    <3>1. \A b \in Child : Parent(b)' = p <=> Parent(b) = p /\ (p # d \/ b # c)
      BY <1>2, <1>3, <2>6
    <3>2. \A u \in Thread : th'[u].self = th[u].self /\ u # c
      BY <1>2, <2>2
    <3>3. Owns(y, p)' <=> Owns(y, p) /\ (p # d \/ y # c)
      BY <1>2, <3>1, <3>2 DEF Owns
    <3>4. QED
      BY <2>5, <3>3, OwnersOf, OwnersOfNext DEF IInv
  <2>8. \A p \in Object : p # d => Refs(p)' = Refs(p)
    BY <2>7
  <2>9. Refs(d)' = {}
    BY <2>3, <2>4, <2>7
  <2>10. RefcountExact'
    <3>1. rc'[d] = 0 /\ \A p \in Object : p # d => rc'[p] = rc[p]
      BY <2>1, <2>3 DEF IInv, TypeOK
    <3>2. rc'[d] = Cardinality(Refs(d)')
      BY <2>9, <3>1, FS_EmptySet
    <3>3. QED
      BY <2>8, <3>1, <3>2, RefcountStep
  <2>11. Exclusive'
    <3>1. \A u \in Thread \ {t} : th[t].self \in Iter => th[t].self # th[u].self
      BY DEF IInv, Exclusive
    <3>2. \A u \in Thread \ {t} : c # th[u].cur /\ d # th[u].dying
      BY <1>3, <2>3
    <3>3. \A u \in Thread \ {t} : /\ th'[t].cur # Null => th'[t].cur # th[u].cur
                                  /\ th'[t].dying # Null => th'[t].dying # th[u].dying
                                  /\ th'[t].self \in Iter => th'[t].self # th[u].self
      BY <2>2, <3>1, <3>2
    <3>4. QED
      BY <2>2, <3>3, ExclusiveStep
  <2>12. Unowned'
    <3>1. ThreadOwn(t)'
      <4>1. th[t].self # c => Refs(c)' = {}
        BY <1>2, <2>8 DEF IInv, Unowned, ThreadOwn
      <4>2. QED
        BY <2>2, <2>9, <4>1 DEF ThreadOwn
    <3>2. \A u \in Thread \ {t} : ~ Claims(u, d)
      BY <1>2, <2>3, Unclaimed
    <3>3. QED
      BY <2>2, <2>8, <3>1, <3>2, OwnStep
  <2>13. AllocOK'
    <3>1. c \in alloc
      BY <1>1, <1>2 DEF IInv, AllocOK, ThreadAlloc, Making
    <3>2. ThreadAlloc(t)'
      <4>1. alloc' = alloc /\ th'[t].cur = c /\ th'[t].dying = d /\ th'[t].pc \notin Making
        BY <2>1, <2>2 DEF Making
      <4>2. QED
        BY <2>3, <3>1, <4>1 DEF ThreadAlloc
    <3>3. \A o \in Object : Refs(o)' # {} => Refs(o) # {} \/ o \in alloc
      BY <2>7
    <3>4. QED
      BY <2>1, <2>2, <3>2, <3>3, AllocStep
  <2>14. DbsOK'
    <3>1. \A e \in Db : db'[e].native = db[e].native /\ db'[e].aux = db[e].aux
      OBVIOUS
    <3>2. ThreadDb(t)'
      BY <1>1, <1>2, <1>3, <1>6, <2>2, <2>3, <3>1 DEF ThreadDb, Up, Down, Making
    <3>3. \A u \in Thread : u # t => /\ th'[u].self = th[u].self /\ th'[u].pc = th[u].pc
                                    /\ th'[u].dying = th[u].dying
      BY <2>2
    <3>4. \A b \in Child : Parent(b)' # Null => Parent(b)' = Parent(b)
      BY <2>6
    <3>5. QED
      BY <3>1, <3>2, <3>3, <3>4, SameDbsStep
  <2>15. SnapsOK' /\ ItersOK'
    <3>1. \A s \in Snap : Refs(s)' # {} => Refs(s) # {}
      BY <2>7 DEF Object
    <3>2. ThreadSnap(t)' /\ ThreadIter(t)'
      BY <1>2, <1>4, <2>1, <2>2 DEF ThreadSnap, ThreadIter, Closing, Making
    <3>3. QED
      BY <2>1, <2>2, <3>1, <3>2, TurnStep
  <2>16. QED
    BY <2>5, <2>10, <2>11, <2>12, <2>13, <2>14, <2>15 DEF IInv
<1>7. QED
  BY <1>5, <1>6

LEMMA IterCleanInv ==
  ASSUME IInv, TypeOK', NEW t \in Thread, PyLevelDBIter_clean(t)
  PROVE  IInv'
<1> DEFINE c == th[t].cur
<1>1. /\ th[t].pc = "unref" /\ c \in Iter /\ c \in Child /\ c \notin Snap
      /\ iter[c].db \in Db \cup {Null}
  BY HandlesAssumption DEF PyLevelDBIter_clean, At, IInv, TypeOK, ThreadOK, IterStruct, Child
<1>2. ReleaseParent(t, iter[c].db) /\ UNCHANGED <<named, db, fault>>
  BY DEF PyLevelDBIter_clean
<1>3. MemorySafe'
  BY <1>2 DEF IInv, MemorySafe
<1>4. QED
  BY <1>1, <1>2, <1>3, ReleaseInv

LEMMA SnapshotDeallocInv ==
  ASSUME IInv, TypeOK', NEW t \in Thread, PyLevelDBSnapshot_dealloc(t)
  PROVE  IInv'
<1> DEFINE c == th[t].cur
<1> DEFINE d == snap[c].db
<1>1. /\ th[t].pc = "unsnap" /\ c \in Snap /\ c \in Child /\ th[t].dying = Null
  BY DEF PyLevelDBSnapshot_dealloc, At, IInv, TypeOK, ThreadOK, Child
<1>2. d # Null /\ d \in Db
  BY <1>1 DEF IInv, TypeOK, SnapsOK, ThreadSnap, SnapStruct
<1>3. /\ db' = [db EXCEPT ![d].n_snapshots = @ - 1] /\ fault' = "none"
      /\ ReleaseParent(t, d) /\ named' = named
  BY <1>2 DEF PyLevelDBSnapshot_dealloc
<1>4. d \in alloc
  BY <1>1, <1>2, CurHeld, ParentHeld
<1>5. \A e \in Db : db'[e] = db[e] \/
            (e \in alloc /\ db'[e].native = db[e].native /\ db'[e].aux = db[e].aux)
  <2>1. db'[d] = [db[d] EXCEPT !.n_snapshots = @ - 1] /\ db[d] \in DbStruct
    BY <1>2, <1>3 DEF IInv, TypeOK
  <2>2. db'[d].native = db[d].native /\ db'[d].aux = db[d].aux
    BY <2>1 DEF DbStruct
  <2>3. \A e \in Db : e # d => db'[e] = db[e]
    BY <1>2, <1>3 DEF IInv, TypeOK
  <2>4. QED
    BY <1>4, <2>2, <2>3
<1>6. MemorySafe'
  BY <1>3 DEF MemorySafe
<1>7. QED
  BY <1>1, <1>2, <1>3, <1>5, <1>6, ReleaseInv

----------------------------------------------------------------------------
(* The theorems *)

LEMMA InvInit == Init => IInv
<1> SUFFICES ASSUME Init PROVE IInv
  OBVIOUS
<1>1. TypeOK /\ MemorySafe
  BY TypeInit DEF Init, MemorySafe
<1>2. /\ \A t \in Thread : th[t].pc = "idle" /\ th[t].self = Null /\ th[t].cur = Null /\ th[t].dying = Null
      /\ \A s \in Snap : snap[s].db = Null /\ snap[s].native = Null
      /\ \A i \in Iter : iter[i].db = Null /\ iter[i].native = Null
      /\ \A d \in Db : db[d] = NewDb
      /\ alloc = {} /\ named = {} /\ \A o \in Object : rc[o] = 0
  BY DEF Init, Idle
<1>3. Null \notin Object /\ Null \notin Snap /\ Null \notin Iter
  BY HandlesAssumption DEF Object
<1>4. CallsOK /\ Exclusive
  BY <1>2, <1>3 DEF CallsOK, CallOK, Exclusive, Closing, Making
<1>5. \A c \in Child : Parent(c) = Null
  BY <1>2 DEF Parent, Child
<1>6. ASSUME NEW o \in Object PROVE Refs(o) = {}
  <2>1. \A x : ~ Owns(x, o)
    BY <1>2, <1>3, <1>5 DEF Owns
  <2>2. QED
    BY <1>4, <2>1, OwnersOf
<1>7. RefcountExact
  BY <1>2, <1>6, FS_EmptySet DEF RefcountExact
<1>8. Unowned /\ AllocOK
  BY <1>2, <1>6 DEF Unowned, ThreadOwn, AllocOK, ThreadAlloc
<1>9. DbsOK
  BY <1>2, <1>5 DEF DbsOK, ThreadDb, Making
<1>10. SnapsOK /\ ItersOK
  BY <1>2, <1>3, <1>6 DEF SnapsOK, ItersOK, ThreadSnap, ThreadIter, Object
<1>11. QED
  BY <1>1, <1>4, <1>7, <1>8, <1>9, <1>10 DEF IInv

LEMMA StepInv ==
  ASSUME IInv, TypeOK', Usage = {}, NEW t \in Thread, Step(t)
  PROVE  IInv'
<1>1. CASE OpenOk(t)
  BY <1>1, OpenOkInv
<1>2. CASE OpenFails(t)
  BY <1>2, OpenFailsInv
<1>3. CASE Opened(t)
  <2>1. th[t].self \in Db
    BY <1>3 DEF Opened, At, IInv, TypeOK, ThreadOK
  <2>2. QED
    BY <1>3, <2>1, OpenedInv
<1>4. CASE PyLevelDB_init(t)
  <2>1. th[t].pc \in Closing /\ th[t].self \in Db
    BY <1>4 DEF PyLevelDB_init, At, IInv, TypeOK, ThreadOK, Closing
  <2>2. QED
    BY <2>1 DEF IInv, CallsOK, CallOK
<1>5. CASE NativeCall(t)
  BY <1>5, NativeCallInv
<1>6. CASE EngineGet(t)
  BY <1>6, EngineGetInv
<1>7. CASE Return(t)
  BY <1>7, ReturnInv
<1>8. CASE PyLevelDBSnapshot_init(t)
  <2>1. th[t].pc \in Closing /\ th[t].self \in Snap
    BY <1>8 DEF PyLevelDBSnapshot_init, At, Closing
  <2>2. QED
    BY <2>1 DEF IInv, CallsOK, CallOK
<1>9. CASE ReleaseSnapshot(t)
  BY <1>9, ReleaseSnapshotInv
<1>10. CASE PyLevelDBSnapshot_dealloc(t)
  BY <1>10, SnapshotDeallocInv
<1>11. CASE Seek(t)
  BY <1>11, SeekInv
<1>12. CASE Discard(t)
  BY <1>12, DiscardInv
<1>13. CASE PyLevelDBIter_New(t)
  <2>1. th[t].cur \in Iter
    BY <1>13 DEF PyLevelDBIter_New, At, IInv, TypeOK, ThreadOK
  <2>2. QED
    BY <1>13, <2>1, IterNewInv
<1>14. CASE PyLevelDBIter_New_fails(t)
  BY <1>14, IterNewFailsInv
<1>15. CASE Abandon(t)
  BY <1>15, AbandonInv
<1>16. CASE Clean(t)
  BY <1>16, CleanInv
<1>17. CASE PyLevelDBIter_clean(t)
  BY <1>17, IterCleanInv
<1>18. CASE CloseNative(t)
  BY <1>18, CloseNativeInv
<1>19. CASE CloseAux(t)
  BY <1>19, CloseAuxInv
<1>20. CASE PyLevelDB_dealloc(t)
  <2>1. th[t].dying \in Db
    BY <1>20 DEF PyLevelDB_dealloc, At, IInv, TypeOK, ThreadOK
  <2>2. QED
    BY <1>20, <2>1, DbDeallocInv
<1>21. QED
  BY <1>1, <1>2, <1>3, <1>4, <1>5, <1>6, <1>7, <1>8, <1>9, <1>10, <1>11, <1>12, <1>13, <1>14,
     <1>15, <1>16, <1>17, <1>18, <1>19, <1>20 DEF Step

LEMMA CallInv ==
  ASSUME IInv, TypeOK', Usage = {}, NEW t \in Thread, Call(t)
  PROVE  IInv'
<1>1. CASE \E d \in Db : PyLevelDB_new(t, d)
  BY <1>1, NewInv
<1>2. CASE \E d \in Db : PyLevelDB_reinit(t, d)
  BY <1>2 DEF PyLevelDB_reinit
<1>3. CASE \E d \in Db : PyLevelDB_GetStatus(t, d)
  BY <1>3, GetStatusInv
<1>4. CASE \E d \in Db : MethodCall(t, d)
  BY <1>4, MethodCallInv
<1>5. CASE \E o \in Db \cup Snap : PyLevelDB_Get(t, o)
  BY <1>5, GetInv
<1>6. CASE \E o \in Db \cup Snap, i \in Iter : PyLevelDB_RangeIter(t, o, i)
  BY <1>6, RangeIterInv
<1>7. CASE \E o \in Object : Drop(t, o)
  BY <1>7, DropInv
<1>8. CASE \E s \in Snap : PyLevelDBSnapshot_init_fails(t, s)
  BY <1>8 DEF PyLevelDBSnapshot_init_fails
<1>9. CASE \E s \in Snap, d \in Db : PyLevelDBSnapshot_New(t, d, s)
  BY <1>9, SnapshotNewInv
<1>10. CASE \E s \in Snap, d \in Db \cup {Null} :
              PyLevelDBSnapshot_reinit(t, s, d) \/ PyLevelDBSnapshot_reinit_closes(t, s, d)
  BY <1>10 DEF PyLevelDBSnapshot_reinit, PyLevelDBSnapshot_reinit_closes, CanReset
<1>11. CASE \E i \in Iter : PyLevelDBIter_next_item(t, i)
  BY <1>11, NextItemInv
<1>12. CASE \E i \in Iter : PyLevelDBIter_next_end(t, i)
  BY <1>12, NextEndInv
<1>13. QED
  BY <1>1, <1>2, <1>3, <1>4, <1>5, <1>6, <1>7, <1>8, <1>9, <1>10, <1>11, <1>12 DEF Call

\* The extension keeps its books: for a program without unusual use, with any
\* number of threads and objects, the invariant of module HandlesInv holds.
THEOREM InvCorrect == ASSUME Usage = {} PROVE Spec => []IInv
<1>1. IInv /\ [Next]_vars => IInv'
  <2> SUFFICES ASSUME IInv, [Next]_vars PROVE IInv'
    OBVIOUS
  <2>1. TypeOK'
    BY TypeStep DEF IInv
  <2>2. CASE Next
    BY <2>1, <2>2, StepInv, CallInv DEF Next
  <2>3. CASE UNCHANGED vars
    <3>1. UNCHANGED <<pyVars, db, snap, iter, th>> /\ MemorySafe'
      BY <2>3 DEF vars, pyVars, IInv, MemorySafe
    <3>2. QED
      BY <2>1, <3>1, StillInv
  <2>4. QED
    BY <2>2, <2>3
<1>2. QED
  BY InvInit, <1>1, PTL DEF Spec
============================================================================

------------------------------ MODULE Handles ------------------------------
(***************************************************************************)
(* Lifetime of the Python objects of the leveldb extension (LevelDB,       *)
(* Snapshot and the range iterator) and of the native LevelDB objects they *)
(* wrap, under several Python threads.                                     *)
(*                                                                         *)
(* Grain of atomicity: code that runs with the GIL held is one action; each *)
(* Py_BEGIN_ALLOW_THREADS ... Py_END_ALLOW_THREADS block is an action of   *)
(* its own, entered and left at the labels of th[t].pc.  Python code       *)
(* between two calls is the label "idle".  The comparator is the bytewise  *)
(* one: it never runs Python code, so it never gives the GIL away.         *)
(*                                                                         *)
(* What a native call computes is not modelled here, only which native     *)
(* object it touches and whether that object still exists.                 *)
(***************************************************************************)
EXTENDS Integers, FiniteSets

CONSTANTS
  Thread,   \* Python threads
  Db,       \* PyLevelDB objects (memory slots, reused after they are freed)
  Snap,     \* PyLevelDBSnapshot objects
  Iter,     \* PyLevelDBIter objects
  Null,     \* the null pointer
  Orphan,   \* a native iterator or snapshot whose native database is gone
  Usage     \* unusual but legal uses the Python program makes of the API

Object == Db \cup Snap \cup Iter
Child  == Snap \cup Iter

\* "reinit":       calls db.__init__(...) on an object that exists already
\* "shared_iter":  several threads call next() on one iterator at a time
\* "bad_snapshot": calls leveldb.Snapshot(...) with arguments it rejects
\* "snap_reinit":  calls snapshot.__init__(...) on an object that exists already
\* "shared_snap":  does so while other threads are in calls on that snapshot
UsageKinds == {"reinit", "shared_iter", "bad_snapshot", "snap_reinit", "shared_snap"}

ASSUME HandlesAssumption ==
  /\ Thread \cap Object = {}
  /\ Db \cap Child = {} /\ Snap \cap Iter = {}
  /\ {Null, Orphan} \cap (Thread \cup Object) = {} /\ Null # Orphan
  /\ IsFiniteSet(Thread) /\ IsFiniteSet(Db) /\ IsFiniteSet(Snap) /\ IsFiniteSet(Iter)
  /\ Usage \subseteq UsageKinds

VARIABLES
  alloc,    \* Python objects whose memory is allocated
  rc,       \* ob_refcnt of every Python object
  named,    \* objects the Python program itself holds a reference to
  db,       \* the PyLevelDB structs
  snap,     \* the PyLevelDBSnapshot structs, and the native snapshot behind each
  iter,     \* the PyLevelDBIter structs, and the native iterator behind each
  th,       \* what each thread is doing
  fault     \* the first use of a null or dangling pointer, if there was one

pyVars == <<alloc, rc, named>>
vars   == <<alloc, rc, named, db, snap, iter, th, fault>>

\* A native pointer field of PyLevelDB; "dangling" is deleted but not nulled.
Pointer == {"null", "live", "dangling"}

\* aux stands for _options, _cache and _comparator, which the code always
\* allocates together and deletes together.
DbStruct == [native: Pointer, aux: Pointer, n_snapshots: Int, n_iterators: Int]

\* db is the field db (for iterators also ref, iterator and bound, which are
\* set and cleared in the same GIL-held section).  native is the database the
\* native object was made by, Null when no native object exists.
SnapStruct == [db: Db \cup {Null}, native: Db \cup {Null, Orphan}]
IterStruct == [db: Db \cup {Null}, native: Db \cup {Null, Orphan}]

Labels == {"idle", "open", "opened", "native", "get", "return", "seek", "discard", "make",
           "abandon", "clean", "unref", "release", "unsnap", "close", "close_aux", "closed"}

\* self:  object a method runs on; the call owns a reference to it
\* cur:   iterator or snapshot being made, cleaned or deallocated
\* dying: LevelDB object being closed
\* using: LevelDB object the call has read from self or from its arguments;
\*        Orphan once the native object it has read with it is gone
ThreadState == [pc: Labels, self: Object \cup {Null}, cur: Child \cup {Null},
                dying: Db \cup {Null}, using: Db \cup {Null, Orphan}]

Idle == [pc |-> "idle", self |-> Null, cur |-> Null, dying |-> Null, using |-> Null]

NewDb == [native |-> "null", aux |-> "null", n_snapshots |-> 0, n_iterators |-> 0]

\* What the fields of a thread's state are at each label.
ThreadOK(u) ==
  /\ u.pc = "idle" => u = Idle
  /\ u.pc \in {"open", "opened"} => u.self \in Db /\ u.cur = Null /\ u.dying \in {Null, u.self}
  /\ u.pc = "native" => u.self \in Db /\ u.cur = Null /\ u.dying = Null
  /\ u.pc = "get" => u.self \in Db \cup Snap /\ u.cur = Null /\ u.dying = Null
  /\ u.pc = "return" => u.self \in Object /\ u.cur = Null /\ u.dying \in {Null, u.self}
  /\ u.pc \in {"seek", "discard", "make", "abandon"} =>
       u.self \in Db \cup Snap /\ u.cur \in Iter /\ u.dying = Null
  /\ u.pc \in {"discard", "make", "abandon"} => u.using # Orphan
  /\ u.pc \in {"clean", "unref"} => u.cur \in Iter /\ u.self \in {Null, u.cur} /\ u.dying = Null
  /\ u.pc \in {"release", "unsnap"} => u.cur \in Snap /\ u.self = Null /\ u.dying = Null
  /\ u.pc \in {"close", "close_aux", "closed"} =>
       /\ u.dying \in Db
       /\ \/ u.self = Null
          \/ u.self = u.cur /\ u.cur \in Iter
          \/ u.self = u.cur /\ u.cur \in Snap /\ u.using # Orphan
          \/ u.self = u.dying /\ u.cur = Null

\* The type invariant.  It holds whatever use the program makes of the API.
TypeOK ==
  /\ alloc \subseteq Object
  /\ rc \in [Object -> Int]
  /\ named \subseteq Object
  /\ db \in [Db -> DbStruct]
  /\ snap \in [Snap -> SnapStruct]
  /\ iter \in [Iter -> IterStruct]
  /\ th \in [Thread -> ThreadState]
  /\ \A t \in Thread : ThreadOK(th[t])
  /\ fault \in {"none", "null", "dangling"}

Init ==
  /\ alloc = {} /\ named = {}
  /\ rc = [o \in Object |-> 0]
  /\ db = [d \in Db |-> NewDb]
  /\ snap = [s \in Snap |-> [db |-> Null, native |-> Null]]
  /\ iter = [i \in Iter |-> [db |-> Null, native |-> Null]]
  /\ th = [t \in Thread |-> Idle]
  /\ fault = "none"

----------------------------------------------------------------------------
(* Helpers *)

\* Dereferencing a native pointer, or a native object made by a database.
Deref(p) == IF p = "live" THEN "none" ELSE p

\* The first of two dereferences that goes wrong, if one does.
Both(first, second) == IF first # "none" THEN first ELSE second

\* The pointer to a native child, which is null only together with the field
\* db: good if the child was made by the database d and still exists.
ChildPointer(native, d) == IF native = d /\ d # Null THEN "live" ELSE "dangling"

\* A pointer to the native database n.
PointerTo(n) == IF n = Null THEN "null" ELSE IF n = Orphan THEN "dangling" ELSE "live"

\* delete p: harmless on null, leaves the pointer dangling until it is nulled.
Deleted(p) == IF p = "live" THEN "dangling" ELSE p

\* The LevelDB object a method called on o works on: self, or self->db.
DbOf(o) == IF o \in Db THEN o ELSE snap[o].db

DbPointer(d) == IF d = Null THEN "null" ELSE db[d].native

\* The database of a method called on o, and for a snapshot its snapshot too.
Reach(o) ==
  Both(Deref(DbPointer(DbOf(o))),
       IF o \in Snap THEN Deref(ChildPointer(snap[o].native, snap[o].db)) ELSE "none")

\* Thread t is about to do what follows the label.  A program that has used a
\* bad pointer does nothing that can be relied on: it stops here.
At(t, label) == fault = "none" /\ th[t].pc = label

Goto(t, label) == th' = [th EXCEPT ![t].pc = label]

\* Mutant of Forget: n_iterators is never decremented.
Forget_KeepsCount(i) == db

\* PyLevelDBIter_clean's first statement: the database forgets the iterator.
Forget(i) ==
  IF iter[i].db = Null THEN db ELSE [db EXCEPT ![iter[i].db].n_iterators = @ - 1]

\* Mutant of Dealloc: the native snapshot is not released, only forgotten.
Dealloc_NoRelease(o) ==
  CASE o \in Db   -> [Idle EXCEPT !.pc = "close", !.dying = o]
    [] o \in Iter -> [Idle EXCEPT !.pc = "clean", !.cur = o]
    [] o \in Snap -> [Idle EXCEPT !.pc = "unsnap", !.cur = o]

\* The first GIL-free section of the tp_dealloc of o.
Dealloc(o) ==
  CASE o \in Db   -> [Idle EXCEPT !.pc = "close", !.dying = o]
    [] o \in Iter -> [Idle EXCEPT !.pc = "clean", !.cur = o]
    [] o \in Snap -> [Idle EXCEPT !.pc = IF snap[o].db = Null THEN "unsnap" ELSE "release",
                                  !.cur = o]

\* Py_DECREF(o) by thread t as it returns to Python code.
DecRef(t, o) ==
  /\ rc' = [rc EXCEPT ![o] = @ - 1]
  /\ th' = [th EXCEPT ![t] = IF rc[o] = 1 THEN Dealloc(o) ELSE Idle]
  /\ db' = IF rc[o] = 1 /\ o \in Iter THEN Forget(o) ELSE db

\* The child that thread t cleans is done with its parent (and the object gone
\* is freed): its pointers are nulled; unless a method call is still using it,
\* the child is freed as well.
Finish(t, gone) ==
  LET c == th[t].cur
      self == th[t].self
  IN  /\ alloc' = alloc \ (gone \cup (IF self = Null THEN {c} ELSE {}))
      /\ iter' = [i \in Iter |-> IF i = c THEN [iter[i] EXCEPT !.db = Null] ELSE iter[i]]
      /\ snap' = [s \in Snap |-> IF s = c THEN [snap[s] EXCEPT !.db = Null] ELSE snap[s]]
      /\ th' = [th EXCEPT ![t] = IF self = Null THEN Idle
                                 ELSE [Idle EXCEPT !.pc = "return", !.self = self]]

\* Mutant of ReleaseParent: no Py_XDECREF.
ReleaseParent_Keeps(t, d) == rc' = rc /\ Finish(t, {})

\* Py_XDECREF(parent) inside the cleanup of th[t].cur.
ReleaseParent(t, d) ==
  IF d # Null /\ rc[d] = 1
    THEN /\ rc' = [rc EXCEPT ![d] = 0]
         /\ th' = [th EXCEPT ![t].pc = "close", ![t].dying = d]
         /\ UNCHANGED <<alloc, iter, snap>>
    ELSE /\ rc' = IF d = Null THEN rc ELSE [rc EXCEPT ![d] = @ - 1]
         /\ Finish(t, {})

----------------------------------------------------------------------------
(* Opening *)

\* LevelDB(...): tp_new, then tp_init up to the GIL-free section.  Arguments
\* that tp_init rejects leave no object behind and are not an action.
PyLevelDB_new(t, d) ==
  /\ At(t, "idle") /\ d \notin alloc
  /\ alloc' = alloc \cup {d}
  /\ rc' = [rc EXCEPT ![d] = 1]
  /\ db' = [db EXCEPT ![d] = [NewDb EXCEPT !.aux = "live"]]
  /\ th' = [th EXCEPT ![t] = [Idle EXCEPT !.pc = "open", !.self = d]]
  /\ UNCHANGED <<named, snap, iter, fault>>

\* DB::Open succeeds.  dying = self marks a call of __init__ on an old object.
OpenOk(t) ==
  /\ At(t, "open")
  /\ db' = [db EXCEPT ![th[t].self].native = "live"]
  /\ fault' = Deref(db[th[t].self].aux)
  /\ Goto(t, IF th[t].dying = Null THEN "opened" ELSE "return")
  /\ UNCHANGED <<pyVars, snap, iter>>

\* Mutant of OpenFails: what has been deleted is not nulled.
OpenFails_KeepsAux(t) ==
  /\ At(t, "open")
  /\ db' = [db EXCEPT ![th[t].self] = [@ EXCEPT !.native = "null", !.aux = "dangling"]]
  /\ fault' = Deref(db[th[t].self].aux)
  /\ Goto(t, "return")
  /\ UNCHANGED <<pyVars, snap, iter>>

\* DB::Open fails: everything is deleted and nulled again, __init__ raises.
OpenFails(t) ==
  /\ At(t, "open")
  /\ db' = [db EXCEPT ![th[t].self] = [@ EXCEPT !.native = "null", !.aux = "null"]]
  /\ fault' = Deref(db[th[t].self].aux)
  /\ Goto(t, "return")
  /\ UNCHANGED <<pyVars, snap, iter>>

\* The constructor returns the new object to the program.
Opened(t) ==
  /\ At(t, "opened")
  /\ named' = named \cup {th[t].self}
  /\ th' = [th EXCEPT ![t] = Idle]
  /\ UNCHANGED <<alloc, rc, db, snap, iter, fault>>

\* db.__init__(...) on an existing object: close it first, if it is open.
PyLevelDB_reinit(t, d) ==
  /\ "reinit" \in Usage
  /\ At(t, "idle") /\ d \in named \cap Db
  /\ rc' = [rc EXCEPT ![d] = @ + 1]
  /\ th' = [th EXCEPT ![t] = [Idle EXCEPT !.self = d, !.dying = d,
               !.pc = IF db[d].native = "null" /\ db[d].aux = "null" THEN "closed" ELSE "close"]]
  /\ UNCHANGED <<alloc, named, db, snap, iter, fault>>

\* The rest of that __init__: null the fields, read the arguments, which may
\* be rejected, and go on to open the database.
PyLevelDB_init(t) ==
  /\ At(t, "closed") /\ th[t].dying = th[t].self
  /\ \/ /\ db' = [db EXCEPT ![th[t].self] = [@ EXCEPT !.native = "null", !.aux = "null"]]
        /\ Goto(t, "return")
     \/ /\ db' = [db EXCEPT ![th[t].self] = [@ EXCEPT !.native = "null", !.aux = "live"]]
        /\ Goto(t, "open")
  /\ UNCHANGED <<pyVars, snap, iter, fault>>

----------------------------------------------------------------------------
(* Methods *)

\* Put, Delete, Write and CompactRange read self->_db without the GIL.
MethodCall(t, d) ==
  /\ At(t, "idle") /\ d \in named \cap Db
  /\ rc' = [rc EXCEPT ![d] = @ + 1]
  /\ th' = [th EXCEPT ![t] = [Idle EXCEPT !.pc = "native", !.self = d]]
  /\ UNCHANGED <<alloc, named, db, snap, iter, fault>>

NativeCall(t) ==
  /\ At(t, "native")
  /\ fault' = Deref(db[th[t].self].native)
  /\ Goto(t, "return")
  /\ UNCHANGED <<pyVars, db, snap, iter>>

\* snapshot.__init__() is not under way on o.
Settled(o) ==
  \/ o \notin Snap \/ "shared_snap" \in Usage
  \/ \A u \in Thread : th[u].self = o => th[u].dying = Null

\* Get, on a database or a snapshot, reads the native pointers with the GIL
\* held and uses them without.
PyLevelDB_Get(t, o) ==
  /\ At(t, "idle") /\ o \in named \cap (Db \cup Snap) /\ Settled(o)
  /\ rc' = [rc EXCEPT ![o] = @ + 1]
  /\ fault' = IF DbOf(o) = Null THEN "null" ELSE "none"
  /\ th' = [th EXCEPT ![t] = [Idle EXCEPT !.pc = "get", !.self = o,
               !.using = IF Reach(o) = "none" THEN DbOf(o)
                         ELSE IF Reach(o) = "null" THEN Null ELSE Orphan]]
  /\ UNCHANGED <<alloc, named, db, snap, iter>>

EngineGet(t) ==
  /\ At(t, "get")
  /\ fault' = Deref(PointerTo(th[t].using))
  /\ th' = [th EXCEPT ![t].pc = "return", ![t].using = Null]
  /\ UNCHANGED <<pyVars, db, snap, iter>>

\* The method takes the GIL back and returns; the call gives self back.
Return(t) ==
  /\ At(t, "return")
  /\ DecRef(t, th[t].self)
  /\ UNCHANGED <<alloc, named, snap, iter, fault>>

\* The program drops its reference: del x, or x goes out of scope.
Drop(t, o) ==
  /\ At(t, "idle") /\ o \in named
  /\ named' = named \ {o}
  /\ DecRef(t, o)
  /\ UNCHANGED <<alloc, snap, iter, fault>>

\* GetStats runs with the GIL held throughout.
PyLevelDB_GetStatus(t, d) ==
  /\ At(t, "idle") /\ d \in named \cap Db
  /\ fault' = Deref(db[d].native)
  /\ UNCHANGED <<pyVars, db, snap, iter, th>>

----------------------------------------------------------------------------
(* Snapshots *)

\* Mutant of PyLevelDBSnapshot_New: no Py_INCREF(db).
PyLevelDBSnapshot_New_Borrows(t, d, s) ==
  /\ At(t, "idle") /\ d \in named \cap Db /\ s \notin alloc
  /\ fault' = Deref(db[d].native)
  /\ alloc' = alloc \cup {s}
  /\ named' = named \cup {s}
  /\ rc' = [rc EXCEPT ![s] = 1]
  /\ snap' = [snap EXCEPT ![s] = [db |-> d, native |-> d]]
  /\ db' = [db EXCEPT ![d].n_snapshots = @ + 1]
  /\ UNCHANGED <<iter, th>>

\* db.CreateSnapshot() and leveldb.Snapshot(db): GIL held throughout.
PyLevelDBSnapshot_New(t, d, s) ==
  /\ At(t, "idle") /\ d \in named \cap Db /\ s \notin alloc
  /\ fault' = Deref(db[d].native)
  /\ alloc' = alloc \cup {s}
  /\ named' = named \cup {s}
  /\ rc' = [rc EXCEPT ![s] = 1, ![d] = @ + 1]
  /\ snap' = [snap EXCEPT ![s] = [db |-> d, native |-> d]]
  /\ db' = [db EXCEPT ![d].n_snapshots = @ + 1]
  /\ UNCHANGED <<iter, th>>

\* leveldb.Snapshot(...) with bad arguments: the new object has no database
\* and is deallocated at once.
PyLevelDBSnapshot_init_fails(t, s) ==
  /\ "bad_snapshot" \in Usage
  /\ At(t, "idle") /\ s \notin alloc
  /\ alloc' = alloc \cup {s}
  /\ th' = [th EXCEPT ![t] = Dealloc(s)]
  /\ UNCHANGED <<rc, named, db, snap, iter, fault>>

\* snapshot.__init__(d) on the existing object s; d = Null stands for
\* arguments it rejects, which leaves a snapshot without a database.
CanReset(t, s, d) ==
  /\ "snap_reinit" \in Usage
  /\ At(t, "idle") /\ s \in named \cap Snap /\ d \in (named \cap Db) \cup {Null}
  /\ "shared_snap" \in Usage \/ \A u \in Thread : th[u].self # s

\* ReleaseSnapshot: calls that have read the native snapshot of s lose it.
WithoutSnapshot(s) ==
  [u \in Thread |-> IF th[u].self = s /\ th[u].pc \in {"get", "seek"}
                      THEN [th[u] EXCEPT !.using = Orphan] ELSE th[u]]

OneIf(P) == IF P THEN 1 ELSE 0

\* The old database, if there is one, has other owners: GIL held throughout.
PyLevelDBSnapshot_reinit(t, s, d) ==
  /\ CanReset(t, s, d)
  /\ LET old == snap[s].db
     IN  /\ old # Null => rc[old] # 1
         /\ fault' = Both(IF old = Null THEN "none" ELSE Reach(s),
                          IF d = Null THEN "none" ELSE Deref(db[d].native))
         /\ rc' = [o \in Object |-> rc[o] + OneIf(o = d) - OneIf(o = old)]
         /\ db' = [b \in Db |-> [db[b] EXCEPT !.n_snapshots = @ + OneIf(b = d) - OneIf(b = old)]]
  /\ snap' = [snap EXCEPT ![s] = [db |-> d, native |-> d]]
  /\ th' = WithoutSnapshot(s)
  /\ UNCHANGED <<alloc, named, iter>>

\* s owns the last reference to the old database, and closes it ...
PyLevelDBSnapshot_reinit_closes(t, s, d) ==
  /\ CanReset(t, s, d)
  /\ LET old == snap[s].db
     IN  /\ old # Null /\ rc[old] = 1
         /\ fault' = Reach(s)
         /\ rc' = [o \in Object |-> rc[o] + OneIf(o = s) + OneIf(o = d) - OneIf(o = old)]
         /\ db' = [db EXCEPT ![old].n_snapshots = @ - 1]
         /\ th' = [WithoutSnapshot(s) EXCEPT ![t] = [Idle EXCEPT
                      !.pc = "close", !.self = s, !.cur = s, !.dying = old, !.using = d]]
  /\ snap' = [snap EXCEPT ![s].native = Null]
  /\ UNCHANGED <<alloc, named, iter>>

\* ... before it takes the new one.
PyLevelDBSnapshot_init(t) ==
  /\ At(t, "closed") /\ th[t].self \in Snap
  /\ LET d == th[t].using
     IN  /\ fault' = IF d = Null THEN "none" ELSE Deref(db[d].native)
         /\ db' = [b \in Db |-> IF b = th[t].dying THEN NewDb
                                ELSE [db[b] EXCEPT !.n_snapshots = @ + OneIf(b = d)]]
         /\ snap' = [snap EXCEPT ![th[t].self] = [db |-> d, native |-> d]]
  /\ alloc' = alloc \ {th[t].dying}
  /\ th' = [th EXCEPT ![t] = [Idle EXCEPT !.pc = "return", !.self = th[t].self]]
  /\ UNCHANGED <<rc, named, iter>>

\* PyLevelDBSnapshot_dealloc, its GIL-free section.
ReleaseSnapshot(t) ==
  /\ At(t, "release")
  /\ fault' = Reach(th[t].cur)
  /\ snap' = [snap EXCEPT ![th[t].cur].native = Null]
  /\ Goto(t, "unsnap")
  /\ UNCHANGED <<pyVars, db, iter>>

\* The rest of it: count down, give the database back, free.
PyLevelDBSnapshot_dealloc(t) ==
  /\ At(t, "unsnap")
  /\ LET d == snap[th[t].cur].db
     IN  /\ db' = IF d = Null THEN db ELSE [db EXCEPT ![d].n_snapshots = @ - 1]
         /\ fault' = IF d = Null THEN "null" ELSE "none"
         /\ ReleaseParent(t, d)
  /\ UNCHANGED named

----------------------------------------------------------------------------
(* Range iterators *)

\* RangeIter on a database or a snapshot, up to its GIL-free section: it reads
\* snapshot->db and the native snapshot, but not yet db->_db.  The slot i the
\* Python iterator will take is chosen here.
PyLevelDB_RangeIter(t, o, i) ==
  /\ At(t, "idle") /\ o \in named \cap (Db \cup Snap) /\ Settled(o)
  /\ i \notin alloc /\ \A u \in Thread : th[u].cur # i
  /\ rc' = [rc EXCEPT ![o] = @ + 1]
  /\ th' = [th EXCEPT ![t] = [Idle EXCEPT !.pc = "seek", !.self = o, !.cur = i,
               !.using = IF o \in Snap /\ Reach(o) = "dangling" THEN Orphan ELSE DbOf(o)]]
  /\ UNCHANGED <<alloc, named, db, snap, iter, fault>>

\* NewIterator and the seek, which compares keys through self->_options.  An
\* iterator that is not Valid() is thrown away.
Seek(t) ==
  /\ At(t, "seek")
  /\ LET d == th[t].using
     IN  /\ fault' = IF d = Orphan THEN "dangling"
                     ELSE Both(Deref(DbPointer(d)), IF d = Null THEN "null" ELSE Deref(db[d].aux))
         /\ iter' = [iter EXCEPT ![th[t].cur].native = d]
         /\ \E label \in {"make", "discard"} :
              th' = [th EXCEPT ![t].pc = label, ![t].using = IF d \in Db THEN d ELSE Null]
  /\ UNCHANGED <<pyVars, db, snap>>

\* delete iter of an empty range, without the GIL; an empty iterator follows.
Discard(t) ==
  /\ At(t, "discard")
  /\ iter' = [iter EXCEPT ![th[t].cur].native = Null]
  /\ Goto(t, "make")
  /\ UNCHANGED <<pyVars, db, snap, fault>>

\* Mutant of IterRef: the object RangeIter was called on, also a snapshot.
IterRef_Self(t) == IF iter[th[t].cur].native = Null THEN Null ELSE th[t].self

\* The object a new range iterator refers to: nothing when the range is empty,
\* else the LevelDB object, also when the range was asked of a snapshot.
IterRef(t) == IF iter[th[t].cur].native = Null THEN Null ELSE th[t].using

\* Mutant of CountIter: no Py_XINCREF(ref).
CountIter_Borrows(i, d) == [rc EXCEPT ![i] = 1]

\* The reference counts after the iterator i of database d has been made.
CountIter(i, d) == [rc EXCEPT ![i] = 1, ![d] = @ + 1]

\* The Python iterator takes over the native one.
PyLevelDBIter_New(t) ==
  /\ At(t, "make")
  /\ LET i == th[t].cur
         d == IterRef(t)
     IN  /\ alloc' = alloc \cup {i}
         /\ named' = named \cup {i}
         /\ iter' = [iter EXCEPT ![i].db = d]
         /\ \/ d = Null /\ rc' = [rc EXCEPT ![i] = 1] /\ UNCHANGED db
            \/ d # Null /\ rc' = CountIter(i, d) /\ db' = [db EXCEPT ![d].n_iterators = @ + 1]
  /\ th' = [th EXCEPT ![t] = [Idle EXCEPT !.pc = "return", !.self = th[t].self]]
  /\ UNCHANGED <<snap, fault>>

\* PyObject_GC_New finds no memory ...
PyLevelDBIter_New_fails(t) ==
  /\ At(t, "make")
  /\ Goto(t, "abandon")
  /\ UNCHANGED <<pyVars, db, snap, iter, fault>>

\* Mutant of Abandon: the native iterator is not deleted.
Abandon_Leaks(t) ==
  /\ At(t, "abandon")
  /\ th' = [th EXCEPT ![t] = [Idle EXCEPT !.pc = "return", !.self = th[t].self]]
  /\ UNCHANGED <<pyVars, db, snap, iter, fault>>

\* ... and the native iterator is deleted without the GIL.
Abandon(t) ==
  /\ At(t, "abandon")
  /\ iter' = [iter EXCEPT ![th[t].cur].native = Null]
  /\ th' = [th EXCEPT ![t] = [Idle EXCEPT !.pc = "return", !.self = th[t].self]]
  /\ UNCHANGED <<pyVars, db, snap, fault>>

\* What next() reads of the native iterator and of the comparator.
IterPointer(i) ==
  IF iter[i].db = Null THEN "none"
  ELSE Both(Deref(ChildPointer(iter[i].native, iter[i].db)), Deref(db[iter[i].db].aux))

\* No other thread is inside a call of next() on i.
Unshared(i) == "shared_iter" \in Usage \/ \A t \in Thread : th[t].self # i

\* next() returns an item: the GIL is held throughout.
PyLevelDBIter_next_item(t, i) ==
  /\ At(t, "idle") /\ i \in named \cap Iter /\ Unshared(i)
  /\ iter[i].db # Null
  /\ fault' = IterPointer(i)
  /\ UNCHANGED <<pyVars, db, snap, iter, th>>

\* next() finds the end of the range, or an iterator already cleaned, and
\* starts to clean it.
PyLevelDBIter_next_end(t, i) ==
  /\ At(t, "idle") /\ i \in named \cap Iter /\ Unshared(i)
  /\ fault' = IterPointer(i)
  /\ rc' = [rc EXCEPT ![i] = @ + 1]
  /\ db' = Forget(i)
  /\ th' = [th EXCEPT ![t] = [Idle EXCEPT !.pc = "clean", !.self = i, !.cur = i]]
  /\ UNCHANGED <<alloc, named, snap, iter>>

\* PyLevelDBIter_clean, its GIL-free section: delete iterator and bound.
Clean(t) ==
  /\ At(t, "clean")
  /\ LET i == th[t].cur
     IN  /\ fault' = IF iter[i].db = Null THEN "none"
                     ELSE Deref(ChildPointer(iter[i].native, iter[i].db))
         /\ iter' = [iter EXCEPT ![i].native = Null]
  /\ Goto(t, "unref")
  /\ UNCHANGED <<pyVars, db, snap>>

\* The rest of it: give the database back, null the fields; tp_dealloc also
\* frees the object.
PyLevelDBIter_clean(t) ==
  /\ At(t, "unref")
  /\ ReleaseParent(t, iter[th[t].cur].db)
  /\ UNCHANGED <<named, db, fault>>

----------------------------------------------------------------------------
(* Closing: PyLevelDB_dealloc, and the first part of a repeated __init__ *)

\* Mutant of CloseNative: options, cache and comparator are deleted first.
CloseNative_AuxFirst(t) ==
  /\ At(t, "close")
  /\ fault' = "none"
  /\ db' = [db EXCEPT ![th[t].dying].aux = Deleted(@)]
  /\ Goto(t, "close_aux")
  /\ UNCHANGED <<pyVars, snap, iter>>

\* delete _db, without the GIL.  Native children it still has are orphaned, and
\* so are the calls that have read _db, or a snapshot of it, already.
CloseNative(t) ==
  /\ At(t, "close")
  /\ LET d == th[t].dying
         Lost(n) == IF n = d /\ db[d].native = "live" THEN Orphan ELSE n
         Reads(u) == th[u].pc = "get" \/ (th[u].pc = "seek" /\ th[u].self \in Snap)
     IN  /\ fault' = IF db[d].native = "dangling" THEN "dangling" ELSE "none"
         /\ db' = [db EXCEPT ![d].native = Deleted(@)]
         /\ snap' = [s \in Snap |-> [snap[s] EXCEPT !.native = Lost(@)]]
         /\ iter' = [i \in Iter |-> [iter[i] EXCEPT !.native = Lost(@)]]
         /\ th' = [u \in Thread |-> IF u = t THEN [th[u] EXCEPT !.pc = "close_aux"]
                     ELSE IF Reads(u) THEN [th[u] EXCEPT !.using = Lost(@)] ELSE th[u]]
  /\ UNCHANGED pyVars

\* delete _options, _cache and _comparator, still without the GIL.
CloseAux(t) ==
  /\ At(t, "close_aux")
  /\ fault' = IF db[th[t].dying].aux = "dangling" THEN "dangling" ELSE "none"
  /\ db' = [db EXCEPT ![th[t].dying].aux = Deleted(@)]
  /\ Goto(t, "closed")
  /\ UNCHANGED <<pyVars, snap, iter>>

\* Free the LevelDB object and go back to whoever gave up the last reference.
PyLevelDB_dealloc(t) ==
  /\ At(t, "closed") /\ th[t].self \notin Db \cup Snap
  /\ db' = [db EXCEPT ![th[t].dying] = NewDb]
  /\ Finish(t, {th[t].dying})
  /\ UNCHANGED <<rc, named, fault>>

----------------------------------------------------------------------------
\* A step of a thread that is inside the extension: it never waits.
Step(t) ==
  \/ OpenOk(t) \/ OpenFails(t) \/ Opened(t) \/ PyLevelDB_init(t)
  \/ NativeCall(t) \/ EngineGet(t) \/ Return(t)
  \/ PyLevelDBSnapshot_init(t) \/ ReleaseSnapshot(t) \/ PyLevelDBSnapshot_dealloc(t)
  \/ Seek(t) \/ Discard(t) \/ PyLevelDBIter_New(t) \/ PyLevelDBIter_New_fails(t) \/ Abandon(t)
  \/ Clean(t) \/ PyLevelDBIter_clean(t)
  \/ CloseNative(t) \/ CloseAux(t) \/ PyLevelDB_dealloc(t)

\* What the Python program may do next on an idle thread.
Call(t) ==
  \/ \E d \in Db : \/ PyLevelDB_new(t, d) \/ PyLevelDB_reinit(t, d) \/ PyLevelDB_GetStatus(t, d)
                  \/ MethodCall(t, d)
  \/ \E o \in Db \cup Snap : PyLevelDB_Get(t, o) \/ \E i \in Iter : PyLevelDB_RangeIter(t, o, i)
  \/ \E o \in Object : Drop(t, o)
  \/ \E s \in Snap : \/ PyLevelDBSnapshot_init_fails(t, s)
                    \/ (\E d \in Db : PyLevelDBSnapshot_New(t, d, s))
                    \/ \E d \in Db \cup {Null} : \/ PyLevelDBSnapshot_reinit(t, s, d)
                                              \/ PyLevelDBSnapshot_reinit_closes(t, s, d)
  \/ \E i \in Iter : PyLevelDBIter_next_item(t, i) \/ PyLevelDBIter_next_end(t, i)

Next == \E t \in Thread : Step(t) \/ Call(t)

Spec == Init /\ [][Next]_vars

\* Native calls return and the GIL reaches every thread that waits for it.
FairSpec == Spec /\ \A t \in Thread : WF_vars(Step(t))

----------------------------------------------------------------------------
(* Properties *)

\* No null or dangling pointer is ever dereferenced or deleted, nor a reference
\* given back through one.
MemorySafe == fault = "none"

\* Thread t is cleaning the child c and has given back c's reference to its
\* database, although the pointer is not nulled yet.
Detached(c) == \E t \in Thread : th[t].cur = c /\ th[t].dying # Null

\* The database that the child c owns a reference to.
Parent(c) == IF Detached(c) THEN Null ELSE IF c \in Snap THEN snap[c].db ELSE iter[c].db

\* The argument of the snapshot.__init__() that thread t is in, if it is.
ArgumentOf(t) == IF th[t].self \in Snap /\ th[t].dying # Null THEN th[t].using ELSE Null

\* Everything that owns a reference to o: the program, calls, children.
Refs(o) ==
  (named \cap {o}) \cup {t \in Thread : th[t].self = o \/ ArgumentOf(t) = o}
  \cup {c \in Child : Parent(c) = o}

\* ob_refcnt counts the owners of an object, whatever calls, cleanups and
\* deallocations are under way.
RefcountExact == \A o \in Object : rc[o] = Cardinality(Refs(o))

\* n_snapshots and n_iterators of a LevelDB object are the numbers of open
\* snapshots and iterators associated with it (leveldb_ext.h:36-40).
CountersExact ==
  \A d \in Db : d \in alloc =>
    /\ db[d].n_snapshots = Cardinality({s \in Snap : Parent(s) = d})
    /\ db[d].n_iterators =
         Cardinality({i \in Iter : iter[i].db = d /\ \A t \in Thread : th[t].cur # i})

\* A native iterator or snapshot lives strictly inside the life of the native
\* database it was made by, and that inside the life of the comparator, cache
\* and options it was opened with.
ChildrenInsideDb ==
  /\ \A s \in Snap : snap[s].native # Null => DbPointer(snap[s].native) = "live"
  /\ \A i \in Iter : iter[i].native # Null => DbPointer(iter[i].native) = "live"
  /\ \A d \in Db : db[d].native = "live" => db[d].aux = "live"

\* Every native object has a Python object, or a call under way, to delete it.
NoLeak ==
  /\ \A d \in Db : db[d].native = "live" => d \in alloc
  /\ \A s \in Snap : snap[s].native # Null => s \in alloc /\ snap[s].db = snap[s].native
  /\ \A i \in Iter : iter[i].native # Null =>
       \/ i \in alloc /\ iter[i].db = iter[i].native
       \/ \E t \in Thread : th[t].cur = i /\ th[t].self # Null

\* The native objects are used as the library asks (module Lifetime).
Native == INSTANCE Lifetime WITH
  open  <- {d \in Db : db[d].native = "live"},
  owner <- [c \in Child |-> IF c \in Snap THEN snap[c].native ELSE iter[c].native]
ImplementsLifetime == Native!Spec

\* Once the program has dropped all its references for good, every native
\* database is closed (so that its directory can be opened again), unless the
\* program has run into undefined behaviour.
ClosesWhenDropped ==
  <>[](named = {} /\ fault = "none") => <>[](\A d \in Db : db[d].native # "live")

\* "empty, do cleanup (idempotent)" (leveldb_object.cc:1296): a call that starts
\* to clean an iterator that is already being cleaned has nothing left to count.
CleanupIdempotent ==
  [][\A t, u \in Thread, i \in Iter :
       th[u].cur = i /\ th[t].cur # i /\ th'[t].cur = i => db' = db]_vars
============================================================================

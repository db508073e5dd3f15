------------------------------ MODULE GilMutex ------------------------------
(***************************************************************************)
(* The two locks a call goes through: the GIL of the Python interpreter    *)
(* and the mutex inside the LevelDB library, taken by the program's        *)
(* threads and by the library's background thread while a database is      *)
(* opened, used and closed.                                                *)
(*                                                                         *)
(* A database opened with a Python comparator calls back: whichever thread *)
(* compares two keys has to take the GIL first, and the interpreter may    *)
(* hand the GIL to another thread in the middle of the comparison.         *)
(*                                                                         *)
(* The library is external.  A call into it may ask for its mutex and      *)
(* compare keys, with and without the mutex, up to MaxWork times in all; a *)
(* thread that asks for the mutex stays where it is until it has it.       *)
(* GetSnapshot, ReleaseSnapshot and GetProperty always take the mutex and  *)
(* compare nothing.  Moving an iterator may take it, too: LevelDB 1.19,    *)
(* the first to have the option max_file_size, samples reads under the     *)
(* mutex.  Deleting a database waits for the background thread.  DestroyDB *)
(* and RepairDB work on a directory that is not open and have nothing to   *)
(* do with the mutex of an open database.                                  *)
(***************************************************************************)
EXTENDS Naturals

CONSTANTS
  Thread,     \* threads of the Python program
  Background, \* the library's thread
  Nobody,     \* the holder of a free lock
  MaxWork     \* bound: lock operations and comparisons of one call

\* A PythonComparatorWrapper, or the library's own comparator.
Comparator == {"python", "bytewise"}

ASSUME GilMutexAssumption ==
  /\ Background \notin Thread /\ Nobody \notin Thread \cup {Background}
  /\ MaxWork \in Nat \ {0}

VARIABLES
  gil,    \* who holds the GIL
  mutex,  \* who holds the library's mutex
  pc,     \* where each thread is
  back,   \* where a thread goes on after the wait or the comparison it is in
  work,   \* what is left to do of each call into the library
  db,     \* "closed", "opening", "opened", "open", "failed", "closing", "deleted"
  comparator, \* self->_comparator, "none" if there is none
  users   \* threads in a call on the database, which has a reference to it

vars == <<gil, mutex, pc, back, work, db, comparator, users>>

Actor == Thread \cup {Background}

\* In the library without the GIL, with the GIL, in next(), in DestroyDB or
\* RepairDB, in RepairDB with a Python comparator; in Compare.  "locking" is
\* the wait for the mutex.
Inside  == {"native", "held", "next", "tool", "repair"}
Compare == {"ensure", "python", "resume", "release"}

Init ==
  /\ gil = Nobody /\ mutex = Nobody
  /\ pc = [t \in Actor |-> "idle"]
  /\ back = [t \in Actor |-> "idle"]
  /\ work = [t \in Actor |-> 0]
  /\ db = "closed" /\ comparator = "none" /\ users = {}

At(t, label)   == pc[t] = label
Goto(t, label) == pc' = [pc EXCEPT ![t] = label]

----------------------------------------------------------------------------
(* Calls of the program.  A thread that is idle runs Python code; it holds *)
(* the GIL whenever nobody else does.                                      *)

Start(t, label) ==
  /\ At(t, "idle") /\ gil = Nobody
  /\ Goto(t, label)
  /\ work' = [work EXCEPT ![t] = MaxWork]

\* A call on the open database.
Use(t, label) == db = "open" /\ Start(t, label) /\ users' = users \cup {t}

\* LevelDB(): the comparator is made under the GIL, DB::Open runs without.
PyLevelDB_init(t) ==
  /\ db = "closed" /\ Start(t, "native")
  /\ db' = "opening" /\ users' = users \cup {t}
  /\ comparator' \in Comparator
  /\ UNCHANGED <<gil, mutex, back>>

pyleveldb_destroy_db(t) ==
  /\ Start(t, "tool")
  /\ UNCHANGED <<gil, mutex, back, db, comparator, users>>

\* The comparator is made under the GIL, and never deleted.
pyleveldb_repair_db(t) ==
  /\ \E c \in Comparator : Start(t, IF c = "python" THEN "repair" ELSE "tool")
  /\ UNCHANGED <<gil, mutex, back, db, comparator, users>>

\* Put, Get, Delete, Write, RangeIter, CompactRange, the deletion of an
\* iterator, the release of a dropped snapshot.
NativeCall(t) ==
  /\ Use(t, "native")
  /\ UNCHANGED <<gil, mutex, back, db, comparator>>

\* CreateSnapshot, Snapshot(db), GetStats: the GIL is kept, and the library
\* begins with its mutex.
HeldCall(t) ==
  /\ Use(t, "locking") /\ back' = [back EXCEPT ![t] = "held"]
  /\ gil' = t
  /\ UNCHANGED <<mutex, db, comparator>>

\* next() compares the key with the bound and moves the native iterator, and
\* keeps the GIL, too.
PyLevelDBIter_next(t) ==
  /\ Use(t, "next")
  /\ gil' = t
  /\ UNCHANGED <<mutex, back, db, comparator>>

\* Past the bound or the last key: the native iterator is deleted without the
\* GIL.
PyLevelDBIter_clean(t) ==
  /\ At(t, "next") /\ mutex # t
  /\ gil' = Nobody
  /\ Goto(t, "native")
  /\ work' = [work EXCEPT ![t] = MaxWork]
  /\ UNCHANGED <<mutex, back, db, comparator, users>>

\* Mutant of PyLevelDB_dealloc: the comparator is deleted before the database.
PyLevelDB_dealloc_ComparatorFirst(t) ==
  /\ db = "open" /\ users = {} /\ Start(t, "close")
  /\ db' = "closing" /\ comparator' = "none"
  /\ UNCHANGED <<gil, mutex, back, users>>

\* Mutant of PyLevelDB_dealloc: the GIL is kept while the database is deleted.
PyLevelDB_dealloc_KeepsGil(t) ==
  /\ db = "open" /\ users = {} /\ Start(t, "close")
  /\ gil' = t /\ db' = "closing"
  /\ UNCHANGED <<mutex, back, comparator, users>>

\* The last reference goes away, as module Handles describes: the rest runs
\* without the GIL.
PyLevelDB_dealloc(t) ==
  /\ db = "open" /\ users = {} /\ Start(t, "close")
  /\ db' = "closing"
  /\ UNCHANGED <<gil, mutex, back, comparator, users>>

\* delete self->_db.
CloseNative(t) ==
  /\ At(t, "close") /\ mutex = Nobody /\ At(Background, "idle")
  /\ db' = "deleted"
  /\ Goto(t, "close_aux")
  /\ work' = [work EXCEPT ![t] = 0]
  /\ UNCHANGED <<gil, mutex, back, comparator, users>>

\* delete self->_comparator: its destructor decrements Python reference counts.
\* A database that could not be opened has no user any more.
CloseAux(t) ==
  /\ At(t, "close_aux")
  /\ comparator' = "none" /\ db' = "closed" /\ users' = users \ {t}
  /\ Goto(t, "return")
  /\ UNCHANGED <<gil, mutex, back, work>>

\* Py_END_ALLOW_THREADS.
EndAllowThreads(t) ==
  /\ At(t, "return") /\ gil = Nobody
  /\ gil' = t
  /\ Goto(t, "finish")
  /\ UNCHANGED <<mutex, back, work, db, comparator, users>>

\* The rest of the call, under the GIL, and the return.  The program has a new
\* database from here on.
Finish(t) ==
  /\ At(t, "finish")
  /\ gil' = Nobody /\ users' = users \ {t}
  /\ db' = IF db = "opened" /\ t \in users THEN "open" ELSE db
  /\ Goto(t, "idle")
  /\ UNCHANGED <<mutex, back, work, comparator>>

----------------------------------------------------------------------------
(* The library *)

Spend(t) == work[t] > 0 /\ work' = [work EXCEPT ![t] = @ - 1]

\* The background thread begins a compaction.
Compact ==
  /\ At(Background, "idle") /\ db \in {"opened", "open"}
  /\ Goto(Background, "native")
  /\ work' = [work EXCEPT ![Background] = MaxWork]
  /\ UNCHANGED <<gil, mutex, back, db, comparator, users>>

\* t needs the mutex, and waits for it.
Want(t) ==
  /\ pc[t] \in {"native", "held", "next"} /\ mutex # t
  /\ Spend(t)
  /\ Goto(t, "locking") /\ back' = [back EXCEPT ![t] = pc[t]]
  /\ UNCHANGED <<gil, mutex, db, comparator, users>>

Lock(t) ==
  /\ At(t, "locking") /\ mutex = Nobody
  /\ mutex' = t
  /\ Goto(t, back[t]) /\ back' = [back EXCEPT ![t] = "idle"]
  /\ UNCHANGED <<gil, work, db, comparator, users>>

Unlock(t) ==
  /\ pc[t] \in {"native", "held", "next"} /\ mutex = t
  /\ mutex' = Nobody
  /\ UNCHANGED <<gil, pc, back, work, db, comparator, users>>

\* The comparator that t uses: DestroyDB always has the bytewise one.
Calls(t) == CASE At(t, "tool") -> "bytewise"
              [] At(t, "repair") -> "python"
              [] OTHER -> comparator

\* Mutant of CompareKeys: where the comparison came from is forgotten.
CompareKeys_Forgets(t) ==
  /\ pc[t] \in {"native", "next", "tool", "repair"} /\ Spend(t)
  /\ IF Calls(t) = "python" THEN Goto(t, "ensure") ELSE UNCHANGED pc
  /\ UNCHANGED <<gil, mutex, back, db, comparator, users>>

\* Two keys are compared; the bytewise comparator just does it.
CompareKeys(t) ==
  /\ pc[t] \in {"native", "next", "tool", "repair"} /\ Spend(t)
  /\ IF Calls(t) = "python"
       THEN Goto(t, "ensure") /\ back' = [back EXCEPT ![t] = pc[t]]
       ELSE UNCHANGED <<pc, back>>
  /\ UNCHANGED <<gil, mutex, db, comparator, users>>

\* Mutant of OpenFails: the comparator made for the database stays behind.
OpenFails_Leaks(t) ==
  /\ At(t, "native") /\ mutex # t /\ db = "opening"
  /\ db' = "closed"
  /\ Goto(t, "return")
  /\ work' = [work EXCEPT ![t] = 0]
  /\ UNCHANGED <<gil, mutex, back, comparator, users>>

\* DB::Open fails: what was made for the database goes away, without the GIL.
OpenFails(t) ==
  /\ At(t, "native") /\ mutex # t /\ db = "opening"
  /\ db' = "failed"
  /\ Goto(t, "close_aux")
  /\ work' = [work EXCEPT ![t] = 0]
  /\ UNCHANGED <<gil, mutex, back, comparator, users>>

\* The library is done.
Leave(t) ==
  /\ pc[t] \in Inside /\ mutex # t
  /\ Goto(t, IF t = Background THEN "idle" ELSE IF gil = t THEN "finish" ELSE "return")
  /\ db' = IF db = "opening" /\ At(t, "native") THEN "opened" ELSE db
  /\ work' = [work EXCEPT ![t] = 0]
  /\ UNCHANGED <<gil, mutex, back, comparator, users>>

----------------------------------------------------------------------------
(* PythonComparatorWrapper::Compare *)

\* PyGILState_Ensure; a thread that has the GIL already goes on.
Ensure(t) ==
  /\ At(t, "ensure") /\ gil \in {Nobody, t}
  /\ gil' = t
  /\ Goto(t, "python")
  /\ UNCHANGED <<mutex, back, work, db, comparator, users>>

\* The interpreter lets another thread run in the middle of the comparison.
Switch(t) ==
  /\ At(t, "python")
  /\ gil' = Nobody
  /\ Goto(t, "resume")
  /\ UNCHANGED <<mutex, back, work, db, comparator, users>>

Resume(t) ==
  /\ At(t, "resume") /\ gil = Nobody
  /\ gil' = t
  /\ Goto(t, "release")
  /\ UNCHANGED <<mutex, back, work, db, comparator, users>>

\* Mutant of Release: the GIL is given up although next() runs under it.
Release_Always(t) ==
  /\ pc[t] \in {"python", "release"}
  /\ gil' = Nobody
  /\ Goto(t, back[t]) /\ back' = [back EXCEPT ![t] = "idle"]
  /\ UNCHANGED <<mutex, work, db, comparator, users>>

\* Mutant of Release: a comparison that failed is tried again.
Release_Retries(t) ==
  /\ pc[t] \in {"python", "release"}
  /\ gil' = IF back[t] = "next" THEN t ELSE Nobody
  /\ Goto(t, "ensure")
  /\ UNCHANGED <<mutex, back, work, db, comparator, users>>

\* PyGILState_Release: gives the GIL up if Ensure took it.
Release(t) ==
  /\ pc[t] \in {"python", "release"}
  /\ gil' = IF back[t] = "next" THEN t ELSE Nobody
  /\ Goto(t, back[t]) /\ back' = [back EXCEPT ![t] = "idle"]
  /\ UNCHANGED <<mutex, work, db, comparator, users>>

----------------------------------------------------------------------------
\* What a thread does once it is in a call or in the library.
Proceed(t) ==
  \/ Want(t) \/ Unlock(t) \/ CompareKeys(t) \/ Leave(t) \/ PyLevelDBIter_clean(t)
  \/ Switch(t) \/ Release(t)
  \/ OpenFails(t) \/ CloseNative(t) \/ CloseAux(t) \/ Finish(t)

\* What a thread may have to wait for a lock for.
Acquire(t) == Lock(t) \/ Ensure(t) \/ Resume(t) \/ EndAllowThreads(t)

Begin(t) ==
  \/ PyLevelDB_init(t) \/ NativeCall(t) \/ HeldCall(t)
  \/ PyLevelDBIter_next(t) \/ PyLevelDB_dealloc(t)
  \/ pyleveldb_destroy_db(t) \/ pyleveldb_repair_db(t)

Next ==
  \/ Compact
  \/ \E t \in Thread : Begin(t)
  \/ \E t \in Actor : Proceed(t) \/ Acquire(t)

\* A thread that can go on does; one that finds the lock it waits for free again
\* and again gets it.
Fairness == \A t \in Actor : SF_vars(Proceed(t) \/ Acquire(t))

Spec == Init /\ [][Next]_vars /\ Fairness

----------------------------------------------------------------------------
(* Properties *)

\* The type invariant; a comparison, and a wait, knows where it came from.
TypeOK ==
  /\ gil \in Actor \cup {Nobody} /\ mutex \in Actor \cup {Nobody}
  /\ pc \in [Actor -> {"idle", "locking", "close", "close_aux", "return", "finish"}
                       \cup Inside \cup Compare]
  /\ back \in [Actor -> {"idle"} \cup Inside]
  /\ \A t \in Actor : pc[t] \in Compare \cup {"locking"} => back[t] \in Inside
  /\ work \in [Actor -> 0 .. MaxWork]
  /\ db \in {"closed", "opening", "opened", "open", "failed", "closing", "deleted"}
  /\ comparator \in Comparator \cup {"none"}
  /\ users \subseteq Thread

\* Is what t has to wait for there?
Ready(t) ==
  /\ At(t, "locking") => mutex = Nobody
  /\ At(t, "ensure") => gil \in {Nobody, t}
  /\ pc[t] \in {"resume", "return"} => gil = Nobody
  /\ At(t, "close") => mutex = Nobody /\ At(Background, "idle")

\* The one embrace: t keeps the GIL in CreateSnapshot, Snapshot(db), GetStats or
\* next() and waits for the mutex, u has the mutex and waits for the GIL to
\* compare two keys in Python.
Embrace ==
  /\ comparator = "python"
  /\ \E t, u \in Actor :
       /\ gil = t /\ At(t, "locking") /\ back[t] \in {"held", "next"}
       /\ mutex = u /\ pc[u] \in {"ensure", "resume"}

\* As long as a call or a compaction is under way some thread can go on, except
\* in the embrace: opening, closing, writing, scanning, compacting and comparing
\* never block each other in any other way.
StuckOnlyInEmbrace ==
  (\E t \in Actor : ~At(t, "idle")) =>
    (\E t \in Actor : ~At(t, "idle") /\ Ready(t)) \/ Embrace

\* Python code runs under the GIL: the comparator's callable, what surrounds a
\* comparison or a wait in a call that keeps the GIL, and the rest of a call
\* after the library has returned.
PythonUnderGil ==
  \A t \in Actor :
    \/ pc[t] \in {"python", "release", "finish", "held", "next"}
    \/ At(t, "locking") /\ back[t] \in {"held", "next"}
    => gil = t

\* Keys are compared only while the comparator exists, whichever thread does it,
\* and the library's thread never works on a database that has been deleted.
ComparatorOutlivesUse ==
  \A t \in users \cup {Background} :
    pc[t] \in Inside \cup Compare \cup {"locking"} =>
      comparator # "none" /\ db # "deleted"

\* Every call returns, and every compaction ends, unless the embrace comes first:
\* the two locks are given back by whoever took them, and nobody else waits for a
\* lock for ever.
ReturnUnlessEmbraced == \A t \in Actor : ~At(t, "idle") ~> At(t, "idle") \/ Embrace

\* Every call returns, as the tests expect, which open their database with a Python
\* comparator (test.py:39) and call CreateSnapshot (111) and next().
CallsReturn == \A t \in Actor : ~At(t, "idle") ~> At(t, "idle")
=============================================================================

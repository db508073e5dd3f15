----------------------------- MODULE GilProofs -----------------------------
(***************************************************************************)
(* Theorems about module GilMutex, for every set of threads: GilInv is an  *)
(* inductive invariant, and the safety properties of the two locks and of  *)
(* the comparator follow from it.                                          *)
(***************************************************************************)
EXTENDS GilInv, TLAPS

\* Nobody is in a call, and no lock is taken.
LEMMA InitInv == Init => GilInv
<1> USE GilMutexAssumption DEF Init, Actor, Inside, Compare, At
<1>1. Init => TypeOK
  BY DEF TypeOK, Comparator
<1>2. Init => GilOK /\ BackOK /\ MutexOK
  BY DEF GilOK, HasGil, BackOK, MutexOK
<1>3. Init => UsersOK /\ OpeningOK /\ BackgroundOK
  BY DEF UsersOK, OnDb, Working, OpeningOK, BackgroundOK
<1>4. Init => ClosedOK /\ CloserOK /\ ComparatorOK
  BY DEF ClosedOK, CloserOK, Closer, ComparatorOK, OnDb
<1> QED
  BY <1>1, <1>2, <1>3, <1>4 DEF GilInv

\* Every action keeps the types.
LEMMA NextTypeOK ==
  ASSUME TypeOK, [Next]_vars PROVE TypeOK'
<1> USE GilMutexAssumption DEF TypeOK, Actor, Inside, Compare, Comparator, At, Goto
<1>1. CASE Compact
  BY <1>1 DEF Compact
<1>2. ASSUME NEW t \in Thread, PyLevelDB_init(t) PROVE TypeOK'
  BY <1>2 DEF PyLevelDB_init, Start
<1>3. ASSUME NEW t \in Thread, NativeCall(t) PROVE TypeOK'
  BY <1>3 DEF NativeCall, Start, Use
<1>4. ASSUME NEW t \in Thread, HeldCall(t) PROVE TypeOK'
  BY <1>4 DEF HeldCall, Start, Use
<1>5. ASSUME NEW t \in Thread, PyLevelDBIter_next(t) PROVE TypeOK'
  BY <1>5 DEF PyLevelDBIter_next, Start, Use
<1>6. ASSUME NEW t \in Thread, PyLevelDB_dealloc(t) PROVE TypeOK'
  BY <1>6 DEF PyLevelDB_dealloc, Start
<1>7. ASSUME NEW t \in Thread, pyleveldb_destroy_db(t) PROVE TypeOK'
  BY <1>7 DEF pyleveldb_destroy_db, Start
<1>8. ASSUME NEW t \in Thread, pyleveldb_repair_db(t) PROVE TypeOK'
  BY <1>8 DEF pyleveldb_repair_db, Start
<1>9. ASSUME NEW t \in Actor, Unlock(t) PROVE TypeOK'
  BY <1>9 DEF Unlock
<1>10. ASSUME NEW t \in Actor, CompareKeys(t) PROVE TypeOK'
  BY <1>10 DEF CompareKeys, Spend, Calls
<1>11. ASSUME NEW t \in Actor, Leave(t) PROVE TypeOK'
  BY <1>11 DEF Leave
<1>12. ASSUME NEW t \in Actor, Switch(t) PROVE TypeOK'
  BY <1>12 DEF Switch
<1>13. ASSUME NEW t \in Actor, Release(t) PROVE TypeOK'
  BY <1>13 DEF Release
<1>14. ASSUME NEW t \in Actor, OpenFails(t) PROVE TypeOK'
  BY <1>14 DEF OpenFails
<1>15. ASSUME NEW t \in Actor, CloseNative(t) PROVE TypeOK'
  BY <1>15 DEF CloseNative
<1>16. ASSUME NEW t \in Actor, CloseAux(t) PROVE TypeOK'
  BY <1>16 DEF CloseAux
<1>17. ASSUME NEW t \in Actor, Finish(t) PROVE TypeOK'
  BY <1>17 DEF Finish
<1>18. ASSUME NEW t \in Actor, Lock(t) PROVE TypeOK'
  BY <1>18 DEF Lock
<1>19. ASSUME NEW t \in Actor, Ensure(t) PROVE TypeOK'
  BY <1>19 DEF Ensure
<1>20. ASSUME NEW t \in Actor, Resume(t) PROVE TypeOK'
  BY <1>20 DEF Resume
<1>21. ASSUME NEW t \in Actor, EndAllowThreads(t) PROVE TypeOK'
  BY <1>21 DEF EndAllowThreads
<1>22. CASE UNCHANGED vars
  BY <1>22 DEF vars
<1>23. ASSUME NEW t \in Actor, Want(t) PROVE TypeOK'
  BY <1>23 DEF Want, Spend
<1>24. ASSUME NEW t \in Actor, PyLevelDBIter_clean(t) PROVE TypeOK'
  BY <1>24 DEF PyLevelDBIter_clean
<1> QED
  BY <1>1, <1>2, <1>3, <1>4, <1>5, <1>6, <1>7, <1>8, <1>9, <1>10, <1>11,
     <1>12, <1>13, <1>14, <1>15, <1>16, <1>17, <1>18, <1>19, <1>20, <1>21,
     <1>22, <1>23, <1>24
     DEF Next, Begin, Proceed, Acquire

\* Whoever takes the GIL found it free, and whoever gives it up had it.
LEMMA GilStep ==
  ASSUME GilInv, [Next]_vars PROVE GilOK'
<1> USE GilMutexAssumption DEF GilInv, TypeOK, Actor, Inside, Compare, At,
       Goto, GilOK, HasGil
<1>1. CASE Compact
  BY <1>1 DEF Compact
<1>2. ASSUME NEW t \in Thread, PyLevelDB_init(t) PROVE GilOK'
  BY <1>2 DEF PyLevelDB_init, Start
<1>3. ASSUME NEW t \in Thread, NativeCall(t) PROVE GilOK'
  BY <1>3 DEF NativeCall, Start, Use
<1>4. ASSUME NEW t \in Thread, HeldCall(t) PROVE GilOK'
  BY <1>4 DEF HeldCall, Start, Use
<1>5. ASSUME NEW t \in Thread, PyLevelDBIter_next(t) PROVE GilOK'
  BY <1>5 DEF PyLevelDBIter_next, Start, Use
<1>6. ASSUME NEW t \in Thread, PyLevelDB_dealloc(t) PROVE GilOK'
  BY <1>6 DEF PyLevelDB_dealloc, Start
<1>7. ASSUME NEW t \in Thread, pyleveldb_destroy_db(t) PROVE GilOK'
  BY <1>7 DEF pyleveldb_destroy_db, Start
<1>8. ASSUME NEW t \in Thread, pyleveldb_repair_db(t) PROVE GilOK'
  BY <1>8 DEF pyleveldb_repair_db, Start
<1>9. ASSUME NEW t \in Actor, Unlock(t) PROVE GilOK'
  BY <1>9 DEF Unlock
<1>10. ASSUME NEW t \in Actor, CompareKeys(t) PROVE GilOK'
  BY <1>10 DEF CompareKeys, Spend, Calls
<1>11. ASSUME NEW t \in Actor, Leave(t) PROVE GilOK'
  <2>1. pc[t] \in Inside /\ UNCHANGED <<gil, back>>
    BY <1>11 DEF Leave
  <2>2. ASSUME NEW u \in Actor, u # t PROVE pc'[u] = pc[u]
    BY <1>11, <2>2 DEF Leave
  <2>3. pc'[t] \in {"idle", "finish", "return"}
        /\ (pc'[t] = "finish" <=> t # Background /\ gil = t)
    BY <1>11 DEF Leave
  <2>4. t = Background => pc[t] = "native"
    BY <2>1 DEF BackgroundOK
  <2> QED
    BY <2>1, <2>2, <2>3, <2>4
<1>12. ASSUME NEW t \in Actor, Switch(t) PROVE GilOK'
  BY <1>12 DEF Switch
<1>13. ASSUME NEW t \in Actor, Release(t) PROVE GilOK'
  <2>1. gil = t /\ back[t] \in {"native", "next", "repair"}
    BY <1>13 DEF Release, BackOK
  <2>2. ASSUME NEW u \in Actor, u # t
        PROVE  pc'[u] = pc[u] /\ back'[u] = back[u] /\ gil # u /\ gil' # u
    BY <1>13, <2>1, <2>2 DEF Release
  <2>3. pc'[t] = back[t] /\ (gil' = t <=> back[t] = "next")
    BY <1>13, <2>1 DEF Release
  <2> QED
    BY <2>1, <2>2, <2>3
<1>14. ASSUME NEW t \in Actor, OpenFails(t) PROVE GilOK'
  BY <1>14 DEF OpenFails
<1>15. ASSUME NEW t \in Actor, CloseNative(t) PROVE GilOK'
  BY <1>15 DEF CloseNative
<1>16. ASSUME NEW t \in Actor, CloseAux(t) PROVE GilOK'
  BY <1>16 DEF CloseAux
<1>17. ASSUME NEW t \in Actor, Finish(t) PROVE GilOK'
  BY <1>17 DEF Finish
<1>18. ASSUME NEW t \in Actor, Lock(t) PROVE GilOK'
  BY <1>18 DEF Lock
<1>19. ASSUME NEW t \in Actor, Ensure(t) PROVE GilOK'
  BY <1>19 DEF Ensure
<1>20. ASSUME NEW t \in Actor, Resume(t) PROVE GilOK'
  BY <1>20 DEF Resume
<1>21. ASSUME NEW t \in Actor, EndAllowThreads(t) PROVE GilOK'
  BY <1>21 DEF EndAllowThreads
<1>22. CASE UNCHANGED vars
  BY <1>22 DEF vars
<1>23. ASSUME NEW t \in Actor, Want(t) PROVE GilOK'
  BY <1>23 DEF Want, Spend
<1>24. ASSUME NEW t \in Actor, PyLevelDBIter_clean(t) PROVE GilOK'
  BY <1>24 DEF PyLevelDBIter_clean
<1> QED
  BY <1>1, <1>2, <1>3, <1>4, <1>5, <1>6, <1>7, <1>8, <1>9, <1>10, <1>11,
     <1>12, <1>13, <1>14, <1>15, <1>16, <1>17, <1>18, <1>19, <1>20, <1>21,
     <1>22, <1>23, <1>24
     DEF Next, Begin, Proceed, Acquire

\* A comparison begins in the library, in next() or in RepairDB, and goes back there.
LEMMA BackStep ==
  ASSUME GilInv, [Next]_vars PROVE BackOK'
<1> USE GilMutexAssumption DEF GilInv, TypeOK, Actor, Inside, Compare, At,
       Goto, BackOK
<1>1. CASE Compact
  BY <1>1 DEF Compact
<1>2. ASSUME NEW t \in Thread, PyLevelDB_init(t) PROVE BackOK'
  BY <1>2 DEF PyLevelDB_init, Start
<1>3. ASSUME NEW t \in Thread, NativeCall(t) PROVE BackOK'
  BY <1>3 DEF NativeCall, Start, Use
<1>4. ASSUME NEW t \in Thread, HeldCall(t) PROVE BackOK'
  BY <1>4 DEF HeldCall, Start, Use
<1>5. ASSUME NEW t \in Thread, PyLevelDBIter_next(t) PROVE BackOK'
  BY <1>5 DEF PyLevelDBIter_next, Start, Use
<1>6. ASSUME NEW t \in Thread, PyLevelDB_dealloc(t) PROVE BackOK'
  BY <1>6 DEF PyLevelDB_dealloc, Start
<1>7. ASSUME NEW t \in Thread, pyleveldb_destroy_db(t) PROVE BackOK'
  BY <1>7 DEF pyleveldb_destroy_db, Start
<1>8. ASSUME NEW t \in Thread, pyleveldb_repair_db(t) PROVE BackOK'
  BY <1>8 DEF pyleveldb_repair_db, Start
<1>9. ASSUME NEW t \in Actor, Unlock(t) PROVE BackOK'
  BY <1>9 DEF Unlock
<1>10. ASSUME NEW t \in Actor, CompareKeys(t) PROVE BackOK'
  BY <1>10 DEF CompareKeys, Spend, Calls
<1>11. ASSUME NEW t \in Actor, Leave(t) PROVE BackOK'
  BY <1>11 DEF Leave
<1>12. ASSUME NEW t \in Actor, Switch(t) PROVE BackOK'
  BY <1>12 DEF Switch
<1>13. ASSUME NEW t \in Actor, Release(t) PROVE BackOK'
  BY <1>13 DEF Release
<1>14. ASSUME NEW t \in Actor, OpenFails(t) PROVE BackOK'
  BY <1>14 DEF OpenFails
<1>15. ASSUME NEW t \in Actor, CloseNative(t) PROVE BackOK'
  BY <1>15 DEF CloseNative
<1>16. ASSUME NEW t \in Actor, CloseAux(t) PROVE BackOK'
  BY <1>16 DEF CloseAux
<1>17. ASSUME NEW t \in Actor, Finish(t) PROVE BackOK'
  BY <1>17 DEF Finish
<1>18. ASSUME NEW t \in Actor, Lock(t) PROVE BackOK'
  BY <1>18 DEF Lock
<1>19. ASSUME NEW t \in Actor, Ensure(t) PROVE BackOK'
  BY <1>19 DEF Ensure
<1>20. ASSUME NEW t \in Actor, Resume(t) PROVE BackOK'
  BY <1>20 DEF Resume
<1>21. ASSUME NEW t \in Actor, EndAllowThreads(t) PROVE BackOK'
  BY <1>21 DEF EndAllowThreads
<1>22. CASE UNCHANGED vars
  BY <1>22 DEF vars
<1>23. ASSUME NEW t \in Actor, Want(t) PROVE BackOK'
  BY <1>23 DEF Want, Spend
<1>24. ASSUME NEW t \in Actor, PyLevelDBIter_clean(t) PROVE BackOK'
  BY <1>24 DEF PyLevelDBIter_clean
<1> QED
  BY <1>1, <1>2, <1>3, <1>4, <1>5, <1>6, <1>7, <1>8, <1>9, <1>10, <1>11,
     <1>12, <1>13, <1>14, <1>15, <1>16, <1>17, <1>18, <1>19, <1>20, <1>21,
     <1>22, <1>23, <1>24
     DEF Next, Begin, Proceed, Acquire

\* A thread that has the mutex does not leave the library.
LEMMA MutexStep ==
  ASSUME GilInv, [Next]_vars PROVE MutexOK'
<1> USE GilMutexAssumption DEF GilInv, TypeOK, Actor, Inside, Compare, At,
       Goto, MutexOK
<1>1. CASE Compact
  BY <1>1 DEF Compact
<1>2. ASSUME NEW t \in Thread, PyLevelDB_init(t) PROVE MutexOK'
  BY <1>2 DEF PyLevelDB_init, Start
<1>3. ASSUME NEW t \in Thread, NativeCall(t) PROVE MutexOK'
  BY <1>3 DEF NativeCall, Start, Use
<1>4. ASSUME NEW t \in Thread, HeldCall(t) PROVE MutexOK'
  BY <1>4 DEF HeldCall, Start, Use
<1>5. ASSUME NEW t \in Thread, PyLevelDBIter_next(t) PROVE MutexOK'
  BY <1>5 DEF PyLevelDBIter_next, Start, Use
<1>6. ASSUME NEW t \in Thread, PyLevelDB_dealloc(t) PROVE MutexOK'
  BY <1>6 DEF PyLevelDB_dealloc, Start
<1>7. ASSUME NEW t \in Thread, pyleveldb_destroy_db(t) PROVE MutexOK'
  BY <1>7 DEF pyleveldb_destroy_db, Start
<1>8. ASSUME NEW t \in Thread, pyleveldb_repair_db(t) PROVE MutexOK'
  BY <1>8 DEF pyleveldb_repair_db, Start
<1>9. ASSUME NEW t \in Actor, Unlock(t) PROVE MutexOK'
  BY <1>9 DEF Unlock
<1>10. ASSUME NEW t \in Actor, CompareKeys(t) PROVE MutexOK'
  BY <1>10 DEF CompareKeys, Spend, Calls
<1>11. ASSUME NEW t \in Actor, Leave(t) PROVE MutexOK'
  BY <1>11 DEF Leave
<1>12. ASSUME NEW t \in Actor, Switch(t) PROVE MutexOK'
  BY <1>12 DEF Switch
<1>13. ASSUME NEW t \in Actor, Release(t) PROVE MutexOK'
  BY <1>13 DEF Release
<1>14. ASSUME NEW t \in Actor, OpenFails(t) PROVE MutexOK'
  BY <1>14 DEF OpenFails
<1>15. ASSUME NEW t \in Actor, CloseNative(t) PROVE MutexOK'
  BY <1>15 DEF CloseNative
<1>16. ASSUME NEW t \in Actor, CloseAux(t) PROVE MutexOK'
  BY <1>16 DEF CloseAux
<1>17. ASSUME NEW t \in Actor, Finish(t) PROVE MutexOK'
  BY <1>17 DEF Finish
<1>18. ASSUME NEW t \in Actor, Lock(t) PROVE MutexOK'
  BY <1>18 DEF Lock, BackOK
<1>19. ASSUME NEW t \in Actor, Ensure(t) PROVE MutexOK'
  BY <1>19 DEF Ensure
<1>20. ASSUME NEW t \in Actor, Resume(t) PROVE MutexOK'
  BY <1>20 DEF Resume
<1>21. ASSUME NEW t \in Actor, EndAllowThreads(t) PROVE MutexOK'
  BY <1>21 DEF EndAllowThreads
<1>22. CASE UNCHANGED vars
  BY <1>22 DEF vars
<1>23. ASSUME NEW t \in Actor, Want(t) PROVE MutexOK'
  BY <1>23 DEF Want, Spend
<1>24. ASSUME NEW t \in Actor, PyLevelDBIter_clean(t) PROVE MutexOK'
  BY <1>24 DEF PyLevelDBIter_clean
<1> QED
  BY <1>1, <1>2, <1>3, <1>4, <1>5, <1>6, <1>7, <1>8, <1>9, <1>10, <1>11,
     <1>12, <1>13, <1>14, <1>15, <1>16, <1>17, <1>18, <1>19, <1>20, <1>21,
     <1>22, <1>23, <1>24
     DEF Next, Begin, Proceed, Acquire

\* No action takes a database from under the calls on it.
LEMMA UsersStep ==
  ASSUME GilInv, [Next]_vars PROVE UsersOK'
<1> USE GilMutexAssumption DEF GilInv, TypeOK, Actor, Inside, Compare, At,
       Goto, UsersOK, Working, OnDb
<1>1. CASE Compact
  BY <1>1 DEF Compact
<1>2. ASSUME NEW t \in Thread, PyLevelDB_init(t) PROVE UsersOK'
  BY <1>2 DEF PyLevelDB_init, Start
<1>3. ASSUME NEW t \in Thread, NativeCall(t) PROVE UsersOK'
  BY <1>3 DEF NativeCall, Start, Use
<1>4. ASSUME NEW t \in Thread, HeldCall(t) PROVE UsersOK'
  BY <1>4 DEF HeldCall, Start, Use
<1>5. ASSUME NEW t \in Thread, PyLevelDBIter_next(t) PROVE UsersOK'
  BY <1>5 DEF PyLevelDBIter_next, Start, Use
<1>6. ASSUME NEW t \in Thread, PyLevelDB_dealloc(t) PROVE UsersOK'
  BY <1>6 DEF PyLevelDB_dealloc, Start
<1>7. ASSUME NEW t \in Thread, pyleveldb_destroy_db(t) PROVE UsersOK'
  BY <1>7 DEF pyleveldb_destroy_db, Start
<1>8. ASSUME NEW t \in Thread, pyleveldb_repair_db(t) PROVE UsersOK'
  BY <1>8 DEF pyleveldb_repair_db, Start
<1>9. ASSUME NEW t \in Actor, Unlock(t) PROVE UsersOK'
  BY <1>9 DEF Unlock
<1>10. ASSUME NEW t \in Actor, CompareKeys(t) PROVE UsersOK'
  BY <1>10 DEF CompareKeys, Spend, Calls
<1>11. ASSUME NEW t \in Actor, Leave(t) PROVE UsersOK'
  <2>1. \A u \in Actor : u # t => pc'[u] = pc[u]
    BY <1>11 DEF Leave
  <2>2. pc'[t] \in {"idle", "finish", "return"} /\ UNCHANGED <<back, users>>
        /\ (pc'[t] = "idle" => t = Background)
    BY <1>11 DEF Leave
  <2>3. CASE UNCHANGED db
    BY <2>1, <2>2, <2>3
  <2>4. CASE db = "opening" /\ At(t, "native")
    <3>1. t \in users
      BY <1>11, <2>4 DEF BackgroundOK
    <3>2. \A u \in users : u = t
      BY <2>4, <3>1 DEF OpeningOK
    <3> QED
      BY <2>1, <2>2, <3>1, <3>2
  <2> QED
    BY <1>11, <2>3, <2>4 DEF Leave
<1>12. ASSUME NEW t \in Actor, Switch(t) PROVE UsersOK'
  BY <1>12 DEF Switch
<1>13. ASSUME NEW t \in Actor, Release(t) PROVE UsersOK'
  BY <1>13 DEF Release
<1>14. ASSUME NEW t \in Actor, OpenFails(t) PROVE UsersOK'
  <2>1. t \in users
    BY <1>14 DEF OpenFails, BackgroundOK
  <2>2. \A u \in users : u # t => ~Working(u)
    BY <1>14, <2>1 DEF OpenFails, OpeningOK
  <2>3. \A u \in Actor : u # t => pc'[u] = pc[u]
    BY <1>14 DEF OpenFails
  <2>4. pc'[t] = "close_aux" /\ UNCHANGED <<back, users>>
    BY <1>14 DEF OpenFails
  <2> QED
    BY <2>1, <2>2, <2>3, <2>4
<1>15. ASSUME NEW t \in Actor, CloseNative(t) PROVE UsersOK'
  <2>1. db = "closing"
    BY <1>15 DEF CloseNative, CloserOK
  <2>2. \A u \in users : ~Working(u)
    BY <2>1
  <2>3. \A u \in Actor : u # t => pc'[u] = pc[u]
    BY <1>15 DEF CloseNative
  <2>4. pc'[t] = "close_aux" /\ UNCHANGED <<back, users>>
    BY <1>15 DEF CloseNative
  <2> QED
    BY <2>2, <2>3, <2>4
<1>16. ASSUME NEW t \in Actor, CloseAux(t) PROVE UsersOK'
  <2>1. db \in {"deleted", "failed"}
    BY <1>16 DEF CloseAux, CloserOK
  <2>2. \A u \in users : ~Working(u)
    BY <2>1
  <2>3. \A u \in Actor : u # t => pc'[u] = pc[u]
    BY <1>16 DEF CloseAux
  <2>4. pc'[t] = "return" /\ UNCHANGED back /\ users' = users \ {t}
    BY <1>16 DEF CloseAux
  <2> QED
    BY <2>2, <2>3, <2>4
<1>17. ASSUME NEW t \in Actor, Finish(t) PROVE UsersOK'
  BY <1>17 DEF Finish
<1>18. ASSUME NEW t \in Actor, Lock(t) PROVE UsersOK'
  BY <1>18 DEF Lock
<1>19. ASSUME NEW t \in Actor, Ensure(t) PROVE UsersOK'
  BY <1>19 DEF Ensure
<1>20. ASSUME NEW t \in Actor, Resume(t) PROVE UsersOK'
  BY <1>20 DEF Resume
<1>21. ASSUME NEW t \in Actor, EndAllowThreads(t) PROVE UsersOK'
  BY <1>21 DEF EndAllowThreads
<1>22. CASE UNCHANGED vars
  BY <1>22 DEF vars
<1>23. ASSUME NEW t \in Actor, Want(t) PROVE UsersOK'
  BY <1>23 DEF Want, Spend
<1>24. ASSUME NEW t \in Actor, PyLevelDBIter_clean(t) PROVE UsersOK'
  BY <1>24 DEF PyLevelDBIter_clean
<1> QED
  BY <1>1, <1>2, <1>3, <1>4, <1>5, <1>6, <1>7, <1>8, <1>9, <1>10, <1>11,
     <1>12, <1>13, <1>14, <1>15, <1>16, <1>17, <1>18, <1>19, <1>20, <1>21,
     <1>22, <1>23, <1>24
     DEF Next, Begin, Proceed, Acquire

\* Calls on the database begin once it is open.
LEMMA OpeningStep ==
  ASSUME GilInv, [Next]_vars PROVE OpeningOK'
<1> USE GilMutexAssumption DEF GilInv, TypeOK, Actor, Inside, Compare, At,
       Goto, OpeningOK, Working
<1>1. CASE Compact
  BY <1>1 DEF Compact
<1>2. ASSUME NEW t \in Thread, PyLevelDB_init(t) PROVE OpeningOK'
  BY <1>2 DEF PyLevelDB_init, ClosedOK
<1>3. ASSUME NEW t \in Thread, NativeCall(t) PROVE OpeningOK'
  BY <1>3 DEF NativeCall, Start, Use
<1>4. ASSUME NEW t \in Thread, HeldCall(t) PROVE OpeningOK'
  BY <1>4 DEF HeldCall, Start, Use
<1>5. ASSUME NEW t \in Thread, PyLevelDBIter_next(t) PROVE OpeningOK'
  BY <1>5 DEF PyLevelDBIter_next, Start, Use
<1>6. ASSUME NEW t \in Thread, PyLevelDB_dealloc(t) PROVE OpeningOK'
  BY <1>6 DEF PyLevelDB_dealloc, Start
<1>7. ASSUME NEW t \in Thread, pyleveldb_destroy_db(t) PROVE OpeningOK'
  BY <1>7 DEF pyleveldb_destroy_db
<1>8. ASSUME NEW t \in Thread, pyleveldb_repair_db(t) PROVE OpeningOK'
  BY <1>8 DEF pyleveldb_repair_db
<1>9. ASSUME NEW t \in Actor, Unlock(t) PROVE OpeningOK'
  BY <1>9 DEF Unlock
<1>10. ASSUME NEW t \in Actor, CompareKeys(t) PROVE OpeningOK'
  BY <1>10 DEF CompareKeys, Spend, Calls
<1>11. ASSUME NEW t \in Actor, Leave(t) PROVE OpeningOK'
  BY <1>11 DEF Leave
<1>12. ASSUME NEW t \in Actor, Switch(t) PROVE OpeningOK'
  BY <1>12 DEF Switch
<1>13. ASSUME NEW t \in Actor, Release(t) PROVE OpeningOK'
  BY <1>13 DEF Release
<1>14. ASSUME NEW t \in Actor, OpenFails(t) PROVE OpeningOK'
  BY <1>14 DEF OpenFails
<1>15. ASSUME NEW t \in Actor, CloseNative(t) PROVE OpeningOK'
  BY <1>15 DEF CloseNative
<1>16. ASSUME NEW t \in Actor, CloseAux(t) PROVE OpeningOK'
  BY <1>16 DEF CloseAux
<1>17. ASSUME NEW t \in Actor, Finish(t) PROVE OpeningOK'
  BY <1>17 DEF Finish
<1>18. ASSUME NEW t \in Actor, Lock(t) PROVE OpeningOK'
  BY <1>18 DEF Lock
<1>19. ASSUME NEW t \in Actor, Ensure(t) PROVE OpeningOK'
  BY <1>19 DEF Ensure
<1>20. ASSUME NEW t \in Actor, Resume(t) PROVE OpeningOK'
  BY <1>20 DEF Resume
<1>21. ASSUME NEW t \in Actor, EndAllowThreads(t) PROVE OpeningOK'
  BY <1>21 DEF EndAllowThreads
<1>22. CASE UNCHANGED vars
  BY <1>22 DEF vars
<1>23. ASSUME NEW t \in Actor, Want(t) PROVE OpeningOK'
  BY <1>23 DEF Want, Spend
<1>24. ASSUME NEW t \in Actor, PyLevelDBIter_clean(t) PROVE OpeningOK'
  BY <1>24 DEF PyLevelDBIter_clean
<1> QED
  BY <1>1, <1>2, <1>3, <1>4, <1>5, <1>6, <1>7, <1>8, <1>9, <1>10, <1>11,
     <1>12, <1>13, <1>14, <1>15, <1>16, <1>17, <1>18, <1>19, <1>20, <1>21,
     <1>22, <1>23, <1>24
     DEF Next, Begin, Proceed, Acquire

\* The library's thread begins on an open database, which is deleted only when
\* that thread is idle.
LEMMA BackgroundStep ==
  ASSUME GilInv, [Next]_vars PROVE BackgroundOK'
<1> USE GilMutexAssumption DEF GilInv, TypeOK, Actor, Inside, Compare, At,
       Goto, BackgroundOK, Working, OnDb
<1>1. CASE Compact
  BY <1>1 DEF Compact
<1>2. ASSUME NEW t \in Thread, PyLevelDB_init(t) PROVE BackgroundOK'
  BY <1>2 DEF PyLevelDB_init, Start
<1>3. ASSUME NEW t \in Thread, NativeCall(t) PROVE BackgroundOK'
  BY <1>3 DEF NativeCall, Start, Use
<1>4. ASSUME NEW t \in Thread, HeldCall(t) PROVE BackgroundOK'
  BY <1>4 DEF HeldCall, Start, Use
<1>5. ASSUME NEW t \in Thread, PyLevelDBIter_next(t) PROVE BackgroundOK'
  BY <1>5 DEF PyLevelDBIter_next, Start, Use
<1>6. ASSUME NEW t \in Thread, PyLevelDB_dealloc(t) PROVE BackgroundOK'
  BY <1>6 DEF PyLevelDB_dealloc, Start
<1>7. ASSUME NEW t \in Thread, pyleveldb_destroy_db(t) PROVE BackgroundOK'
  BY <1>7 DEF pyleveldb_destroy_db, Start
<1>8. ASSUME NEW t \in Thread, pyleveldb_repair_db(t) PROVE BackgroundOK'
  BY <1>8 DEF pyleveldb_repair_db, Start
<1>9. ASSUME NEW t \in Actor, Unlock(t) PROVE BackgroundOK'
  BY <1>9 DEF Unlock
<1>10. ASSUME NEW t \in Actor, CompareKeys(t) PROVE BackgroundOK'
  BY <1>10 DEF CompareKeys, Spend, Calls
<1>11. ASSUME NEW t \in Actor, Leave(t) PROVE BackgroundOK'
  BY <1>11 DEF Leave
<1>12. ASSUME NEW t \in Actor, Switch(t) PROVE BackgroundOK'
  BY <1>12 DEF Switch
<1>13. ASSUME NEW t \in Actor, Release(t) PROVE BackgroundOK'
  BY <1>13 DEF Release
<1>14. ASSUME NEW t \in Actor, OpenFails(t) PROVE BackgroundOK'
  BY <1>14 DEF OpenFails
<1>15. ASSUME NEW t \in Actor, CloseNative(t) PROVE BackgroundOK'
  BY <1>15 DEF CloseNative
<1>16. ASSUME NEW t \in Actor, CloseAux(t) PROVE BackgroundOK'
  <2>1. db \in {"deleted", "failed"}
    BY <1>16 DEF CloseAux, CloserOK
  <2>2. ~Working(Background)
    BY <2>1
  <2>3. t # Background /\ pc'[Background] = pc[Background]
    BY <1>16 DEF CloseAux
  <2> QED
    BY <2>2, <2>3, <1>16 DEF CloseAux
<1>17. ASSUME NEW t \in Actor, Finish(t) PROVE BackgroundOK'
  BY <1>17 DEF Finish
<1>18. ASSUME NEW t \in Actor, Lock(t) PROVE BackgroundOK'
  BY <1>18 DEF Lock
<1>19. ASSUME NEW t \in Actor, Ensure(t) PROVE BackgroundOK'
  BY <1>19 DEF Ensure
<1>20. ASSUME NEW t \in Actor, Resume(t) PROVE BackgroundOK'
  BY <1>20 DEF Resume
<1>21. ASSUME NEW t \in Actor, EndAllowThreads(t) PROVE BackgroundOK'
  BY <1>21 DEF EndAllowThreads
<1>22. CASE UNCHANGED vars
  BY <1>22 DEF vars
<1>23. ASSUME NEW t \in Actor, Want(t) PROVE BackgroundOK'
  BY <1>23 DEF Want, Spend
<1>24. ASSUME NEW t \in Actor, PyLevelDBIter_clean(t) PROVE BackgroundOK'
  BY <1>24 DEF PyLevelDBIter_clean
<1> QED
  BY <1>1, <1>2, <1>3, <1>4, <1>5, <1>6, <1>7, <1>8, <1>9, <1>10, <1>11,
     <1>12, <1>13, <1>14, <1>15, <1>16, <1>17, <1>18, <1>19, <1>20, <1>21,
     <1>22, <1>23, <1>24
     DEF Next, Begin, Proceed, Acquire

\* A database is taken down by one thread: the one that dropped the last
\* reference, or the one whose DB::Open failed.
LEMMA CloserStep ==
  ASSUME GilInv, [Next]_vars PROVE CloserOK'
<1> USE GilMutexAssumption DEF GilInv, TypeOK, Actor, Inside, Compare, At,
       Goto, CloserOK, Closer
<1>1. CASE Compact
  BY <1>1 DEF Compact
<1>2. ASSUME NEW t \in Thread, PyLevelDB_init(t) PROVE CloserOK'
  BY <1>2 DEF PyLevelDB_init, Start
<1>3. ASSUME NEW t \in Thread, NativeCall(t) PROVE CloserOK'
  BY <1>3 DEF NativeCall, Start, Use
<1>4. ASSUME NEW t \in Thread, HeldCall(t) PROVE CloserOK'
  BY <1>4 DEF HeldCall, Start, Use
<1>5. ASSUME NEW t \in Thread, PyLevelDBIter_next(t) PROVE CloserOK'
  BY <1>5 DEF PyLevelDBIter_next, Start, Use
<1>6. ASSUME NEW t \in Thread, PyLevelDB_dealloc(t) PROVE CloserOK'
  BY <1>6 DEF PyLevelDB_dealloc, Start
<1>7. ASSUME NEW t \in Thread, pyleveldb_destroy_db(t) PROVE CloserOK'
  BY <1>7 DEF pyleveldb_destroy_db, Start
<1>8. ASSUME NEW t \in Thread, pyleveldb_repair_db(t) PROVE CloserOK'
  BY <1>8 DEF pyleveldb_repair_db, Start
<1>9. ASSUME NEW t \in Actor, Unlock(t) PROVE CloserOK'
  BY <1>9 DEF Unlock
<1>10. ASSUME NEW t \in Actor, CompareKeys(t) PROVE CloserOK'
  BY <1>10 DEF CompareKeys, Spend, Calls
<1>11. ASSUME NEW t \in Actor, Leave(t) PROVE CloserOK'
  BY <1>11 DEF Leave
<1>12. ASSUME NEW t \in Actor, Switch(t) PROVE CloserOK'
  BY <1>12 DEF Switch
<1>13. ASSUME NEW t \in Actor, Release(t) PROVE CloserOK'
  BY <1>13 DEF Release
<1>14. ASSUME NEW t \in Actor, OpenFails(t) PROVE CloserOK'
  BY <1>14 DEF OpenFails
<1>15. ASSUME NEW t \in Actor, CloseNative(t) PROVE CloserOK'
  BY <1>15 DEF CloseNative
<1>16. ASSUME NEW t \in Actor, CloseAux(t) PROVE CloserOK'
  BY <1>16 DEF CloseAux
<1>17. ASSUME NEW t \in Actor, Finish(t) PROVE CloserOK'
  BY <1>17 DEF Finish
<1>18. ASSUME NEW t \in Actor, Lock(t) PROVE CloserOK'
  BY <1>18 DEF Lock
<1>19. ASSUME NEW t \in Actor, Ensure(t) PROVE CloserOK'
  BY <1>19 DEF Ensure
<1>20. ASSUME NEW t \in Actor, Resume(t) PROVE CloserOK'
  BY <1>20 DEF Resume
<1>21. ASSUME NEW t \in Actor, EndAllowThreads(t) PROVE CloserOK'
  BY <1>21 DEF EndAllowThreads
<1>22. CASE UNCHANGED vars
  BY <1>22 DEF vars
<1>23. ASSUME NEW t \in Actor, Want(t) PROVE CloserOK'
  BY <1>23 DEF Want, Spend
<1>24. ASSUME NEW t \in Actor, PyLevelDBIter_clean(t) PROVE CloserOK'
  BY <1>24 DEF PyLevelDBIter_clean
<1> QED
  BY <1>1, <1>2, <1>3, <1>4, <1>5, <1>6, <1>7, <1>8, <1>9, <1>10, <1>11,
     <1>12, <1>13, <1>14, <1>15, <1>16, <1>17, <1>18, <1>19, <1>20, <1>21,
     <1>22, <1>23, <1>24
     DEF Next, Begin, Proceed, Acquire

\* A database that goes away has no user, or only the one that takes it down.
LEMMA ClosedStep ==
  ASSUME GilInv, [Next]_vars PROVE ClosedOK'
<1> USE GilMutexAssumption DEF GilInv, TypeOK, Actor, Inside, Compare, At,
       Goto, ClosedOK, CloserOK, Closer
<1>1. CASE Compact
  BY <1>1 DEF Compact
<1>2. ASSUME NEW t \in Thread, PyLevelDB_init(t) PROVE ClosedOK'
  BY <1>2 DEF PyLevelDB_init, Start
<1>3. ASSUME NEW t \in Thread, NativeCall(t) PROVE ClosedOK'
  BY <1>3 DEF NativeCall, Start, Use
<1>4. ASSUME NEW t \in Thread, HeldCall(t) PROVE ClosedOK'
  BY <1>4 DEF HeldCall, Start, Use
<1>5. ASSUME NEW t \in Thread, PyLevelDBIter_next(t) PROVE ClosedOK'
  BY <1>5 DEF PyLevelDBIter_next, Start, Use
<1>6. ASSUME NEW t \in Thread, PyLevelDB_dealloc(t) PROVE ClosedOK'
  BY <1>6 DEF PyLevelDB_dealloc, Start
<1>7. ASSUME NEW t \in Thread, pyleveldb_destroy_db(t) PROVE ClosedOK'
  BY <1>7 DEF pyleveldb_destroy_db, Start
<1>8. ASSUME NEW t \in Thread, pyleveldb_repair_db(t) PROVE ClosedOK'
  BY <1>8 DEF pyleveldb_repair_db, Start
<1>9. ASSUME NEW t \in Actor, Unlock(t) PROVE ClosedOK'
  BY <1>9 DEF Unlock
<1>10. ASSUME NEW t \in Actor, CompareKeys(t) PROVE ClosedOK'
  BY <1>10 DEF CompareKeys, Spend, Calls
<1>11. ASSUME NEW t \in Actor, Leave(t) PROVE ClosedOK'
  BY <1>11 DEF Leave
<1>12. ASSUME NEW t \in Actor, Switch(t) PROVE ClosedOK'
  BY <1>12 DEF Switch
<1>13. ASSUME NEW t \in Actor, Release(t) PROVE ClosedOK'
  BY <1>13 DEF Release
<1>14. ASSUME NEW t \in Actor, OpenFails(t) PROVE ClosedOK'
  <2>1. t \in users
    BY <1>14 DEF OpenFails, BackgroundOK, UsersOK, OnDb, Working
  <2>2. \A u \in users : u = t
    BY <1>14, <2>1 DEF OpenFails, OpeningOK
  <2> QED
    BY <1>14, <2>2 DEF OpenFails
<1>15. ASSUME NEW t \in Actor, CloseNative(t) PROVE ClosedOK'
  BY <1>15 DEF CloseNative
<1>16. ASSUME NEW t \in Actor, CloseAux(t) PROVE ClosedOK'
  BY <1>16 DEF CloseAux
<1>17. ASSUME NEW t \in Actor, Finish(t) PROVE ClosedOK'
  BY <1>17 DEF Finish
<1>18. ASSUME NEW t \in Actor, Lock(t) PROVE ClosedOK'
  BY <1>18 DEF Lock
<1>19. ASSUME NEW t \in Actor, Ensure(t) PROVE ClosedOK'
  BY <1>19 DEF Ensure
<1>20. ASSUME NEW t \in Actor, Resume(t) PROVE ClosedOK'
  BY <1>20 DEF Resume
<1>21. ASSUME NEW t \in Actor, EndAllowThreads(t) PROVE ClosedOK'
  BY <1>21 DEF EndAllowThreads
<1>22. CASE UNCHANGED vars
  BY <1>22 DEF vars
<1>23. ASSUME NEW t \in Actor, Want(t) PROVE ClosedOK'
  BY <1>23 DEF Want, Spend
<1>24. ASSUME NEW t \in Actor, PyLevelDBIter_clean(t) PROVE ClosedOK'
  BY <1>24 DEF PyLevelDBIter_clean
<1> QED
  BY <1>1, <1>2, <1>3, <1>4, <1>5, <1>6, <1>7, <1>8, <1>9, <1>10, <1>11,
     <1>12, <1>13, <1>14, <1>15, <1>16, <1>17, <1>18, <1>19, <1>20, <1>21,
     <1>22, <1>23, <1>24
     DEF Next, Begin, Proceed, Acquire

\* The comparator changes only while nobody compares.
LEMMA ComparatorStep ==
  ASSUME GilInv, [Next]_vars PROVE ComparatorOK'
<1> USE GilMutexAssumption DEF GilInv, TypeOK, Actor, Inside, Compare, At,
       Goto, ComparatorOK, OnDb
<1>1. CASE Compact
  BY <1>1 DEF Compact
<1>2. ASSUME NEW t \in Thread, PyLevelDB_init(t) PROVE ComparatorOK'
  <2>1. \A u \in users : ~Working(u)
    BY <1>2 DEF PyLevelDB_init, UsersOK
  <2>2. ~Working(Background)
    BY <1>2 DEF PyLevelDB_init, BackgroundOK
  <2>3. \A u \in Actor : OnDb(u) => u \in users \cup {Background}
    BY DEF UsersOK
  <2>4. \A u \in Actor : ~OnDb(u)
    BY <2>1, <2>2, <2>3 DEF Working
  <2>5. \A u \in Actor : u # t => pc'[u] = pc[u]
    BY <1>2 DEF PyLevelDB_init, Start
  <2>6. pc'[t] = "native" /\ db' = "opening" /\ UNCHANGED back
        /\ comparator' \in Comparator
    BY <1>2 DEF PyLevelDB_init, Start
  <2> QED
    BY <2>4, <2>5, <2>6 DEF Comparator
<1>3. ASSUME NEW t \in Thread, NativeCall(t) PROVE ComparatorOK'
  BY <1>3 DEF NativeCall, Start, Use
<1>4. ASSUME NEW t \in Thread, HeldCall(t) PROVE ComparatorOK'
  BY <1>4 DEF HeldCall, Start, Use
<1>5. ASSUME NEW t \in Thread, PyLevelDBIter_next(t) PROVE ComparatorOK'
  BY <1>5 DEF PyLevelDBIter_next, Start, Use
<1>6. ASSUME NEW t \in Thread, PyLevelDB_dealloc(t) PROVE ComparatorOK'
  BY <1>6 DEF PyLevelDB_dealloc, Start
<1>7. ASSUME NEW t \in Thread, pyleveldb_destroy_db(t) PROVE ComparatorOK'
  BY <1>7 DEF pyleveldb_destroy_db, Start
<1>8. ASSUME NEW t \in Thread, pyleveldb_repair_db(t) PROVE ComparatorOK'
  BY <1>8 DEF pyleveldb_repair_db, Start
<1>9. ASSUME NEW t \in Actor, Unlock(t) PROVE ComparatorOK'
  BY <1>9 DEF Unlock
<1>10. ASSUME NEW t \in Actor, CompareKeys(t) PROVE ComparatorOK'
  BY <1>10 DEF CompareKeys, Spend, Calls
<1>11. ASSUME NEW t \in Actor, Leave(t) PROVE ComparatorOK'
  BY <1>11 DEF Leave
<1>12. ASSUME NEW t \in Actor, Switch(t) PROVE ComparatorOK'
  BY <1>12 DEF Switch
<1>13. ASSUME NEW t \in Actor, Release(t) PROVE ComparatorOK'
  <2>1. back[t] \in {"native", "next", "repair"}
    BY <1>13 DEF Release, BackOK
  <2>2. \A u \in Actor : u # t => pc'[u] = pc[u] /\ back'[u] = back[u]
    BY <1>13 DEF Release
  <2>3. pc'[t] = back[t] /\ UNCHANGED <<db, comparator>>
    BY <1>13 DEF Release
  <2> QED
    BY <2>1, <2>2, <2>3
<1>14. ASSUME NEW t \in Actor, OpenFails(t) PROVE ComparatorOK'
  BY <1>14 DEF OpenFails
<1>15. ASSUME NEW t \in Actor, CloseNative(t) PROVE ComparatorOK'
  <2>1. db = "closing"
    BY <1>15 DEF CloseNative, CloserOK
  <2>2. \A u \in Actor : u # t => pc'[u] = pc[u]
    BY <1>15 DEF CloseNative
  <2>3. pc'[t] = "close_aux" /\ db' = "deleted" /\ UNCHANGED <<back, comparator>>
    BY <1>15 DEF CloseNative
  <2> QED
    BY <2>1, <2>2, <2>3
<1>16. ASSUME NEW t \in Actor, CloseAux(t) PROVE ComparatorOK'
  <2>1. db \in {"deleted", "failed"}
    BY <1>16 DEF CloseAux, CloserOK
  <2>2. \A u \in users : ~Working(u)
    BY <2>1 DEF UsersOK
  <2>3. ~Working(Background)
    BY <2>1 DEF BackgroundOK
  <2>4. \A u \in Actor : OnDb(u) => u \in users \cup {Background}
    BY DEF UsersOK
  <2>5. \A u \in Actor : ~OnDb(u)
    BY <2>2, <2>3, <2>4 DEF Working
  <2>6. \A u \in Actor : u # t => pc'[u] = pc[u]
    BY <1>16 DEF CloseAux
  <2>7. pc'[t] = "return" /\ db' = "closed" /\ UNCHANGED back
        /\ comparator' = "none"
    BY <1>16 DEF CloseAux
  <2> QED
    BY <2>5, <2>6, <2>7
<1>17. ASSUME NEW t \in Actor, Finish(t) PROVE ComparatorOK'
  BY <1>17 DEF Finish
<1>18. ASSUME NEW t \in Actor, Lock(t) PROVE ComparatorOK'
  BY <1>18 DEF Lock
<1>19. ASSUME NEW t \in Actor, Ensure(t) PROVE ComparatorOK'
  BY <1>19 DEF Ensure
<1>20. ASSUME NEW t \in Actor, Resume(t) PROVE ComparatorOK'
  BY <1>20 DEF Resume
<1>21. ASSUME NEW t \in Actor, EndAllowThreads(t) PROVE ComparatorOK'
  BY <1>21 DEF EndAllowThreads
<1>22. CASE UNCHANGED vars
  BY <1>22 DEF vars
<1>23. ASSUME NEW t \in Actor, Want(t) PROVE ComparatorOK'
  BY <1>23 DEF Want, Spend
<1>24. ASSUME NEW t \in Actor, PyLevelDBIter_clean(t) PROVE ComparatorOK'
  BY <1>24 DEF PyLevelDBIter_clean
<1> QED
  BY <1>1, <1>2, <1>3, <1>4, <1>5, <1>6, <1>7, <1>8, <1>9, <1>10, <1>11,
     <1>12, <1>13, <1>14, <1>15, <1>16, <1>17, <1>18, <1>19, <1>20, <1>21,
     <1>22, <1>23, <1>24
     DEF Next, Begin, Proceed, Acquire

----------------------------------------------------------------------------
(* The theorems *)

\* Every step keeps the invariant.
LEMMA NextInv == ASSUME GilInv, [Next]_vars PROVE GilInv'
  BY NextTypeOK, GilStep, BackStep, MutexStep, UsersStep, OpeningStep,
     BackgroundStep, ClosedStep, CloserStep, ComparatorStep
     DEF GilInv

\* The inductive invariant holds in every reachable state: in particular the
\* comparator that PyLevelDB_init made is deleted with its database, whether
\* DB::Open succeeded or not.
THEOREM GilInvCorrect == Spec => []GilInv
<1>1. Init => GilInv
  BY InitInv
<1>2. GilInv /\ [Next]_vars => GilInv'
  BY NextInv
<1> QED
  BY <1>1, <1>2, PTL DEF Spec

\* Types, and a comparison that knows where PyGILState_Release lets it go on.
THEOREM TypeCorrect == Spec => []TypeOK
<1>1. GilInv => TypeOK
  BY DEF GilInv
<1> QED
  BY <1>1, GilInvCorrect, PTL

\* The comparator's callable, the bound check of next() and the end of every
\* call run in the one thread that has the GIL.
THEOREM PythonHasGil == Spec => []PythonUnderGil
<1>1. GilInv => PythonUnderGil
  BY DEF GilInv, GilOK, HasGil, PythonUnderGil
<1> QED
  BY <1>1, GilInvCorrect, PTL

\* PyLevelDB_dealloc and a failed open delete the comparator only when no
\* call and no compaction can use it any more.
THEOREM ComparatorIsThere == Spec => []ComparatorOutlivesUse
<1>1. ASSUME GilInv PROVE ComparatorOutlivesUse
  <2>1. \A t \in users \cup {Background} :
          Working(t) => db \in {"opening", "opened", "open", "closing"}
    BY <1>1 DEF GilInv, UsersOK, BackgroundOK
  <2>2. db \in {"opening", "opened", "open", "closing"} => comparator # "none" /\ db # "deleted"
    BY <1>1 DEF GilInv, ComparatorOK
  <2> QED
    BY <2>1, <2>2 DEF ComparatorOutlivesUse, Working
<1> QED
  BY <1>1, GilInvCorrect, PTL

\* Whatever the program does, with whichever comparator: as long as a call or a
\* compaction is under way some thread can go on, unless a thread in
\* CreateSnapshot, Snapshot(db), GetStats or next() waits for the mutex of a
\* database with a Python comparator under the GIL, and the thread that has the
\* mutex waits for the GIL to compare.
THEOREM OnlyTheEmbraceStops == Spec => []StuckOnlyInEmbrace
<1> USE GilMutexAssumption DEF GilInv, TypeOK, Actor, At
<1>1. ASSUME GilInv, NEW v \in Actor, ~At(v, "idle"),
             \A t \in Actor : ~At(t, "idle") => ~Ready(t)
      PROVE  Embrace
  <2>1. ASSUME NEW w \in Actor, gil = w
        PROVE  At(w, "locking") /\ back[w] \in {"held", "next"} /\ mutex # Nobody
    <3>1. HasGil(w)
      BY <1>1, <2>1 DEF GilOK
    <3>2. ~Ready(w)
      BY <1>1, <3>1 DEF HasGil
    <3> QED
      BY <2>1, <3>1, <3>2 DEF HasGil, Ready
  <2>2. mutex # Nobody
    <3>1. ASSUME mutex = Nobody PROVE FALSE
      <4>1. gil = Nobody
        BY <1>1, <2>1, <3>1
      <4>2. ~Ready(v)
        BY <1>1
      <4>3. ~At(Background, "idle")
        BY <3>1, <4>1, <4>2 DEF Ready
      <4>4. ~Ready(Background)
        BY <1>1, <4>3
      <4> QED
        BY <1>1, <3>1, <4>1, <4>4 DEF Ready, BackgroundOK, Compare
    <3> QED
      BY <3>1
  <2>3. PICK u \in Actor : mutex = u
    BY <1>1, <2>2
  <2>4. \/ pc[u] \in {"native", "held", "next"}
        \/ pc[u] \in Compare /\ back[u] \in {"native", "next"}
    BY <1>1, <2>3 DEF MutexOK
  <2>5. ~Ready(u)
    BY <1>1, <2>4 DEF Compare
  <2>6. pc[u] \in {"ensure", "resume"} /\ gil # Nobody /\ back[u] \in {"native", "next"}
    BY <2>4, <2>5 DEF Ready, Compare
  <2>7. comparator = "python"
    BY <1>1, <2>6 DEF ComparatorOK, OnDb, Compare
  <2>8. PICK w \in Actor : gil = w
    BY <1>1, <2>6
  <2>9. At(w, "locking") /\ back[w] \in {"held", "next"}
    BY <2>1, <2>8
  <2> QED
    BY <2>3, <2>6, <2>7, <2>8, <2>9 DEF Embrace
<1>2. GilInv => StuckOnlyInEmbrace
  BY <1>1 DEF StuckOnlyInEmbrace
<1> QED
  BY <1>2, GilInvCorrect, PTL
=============================================================================

----------------------------- MODULE HandlesInv -----------------------------
(***************************************************************************)
(* The invariant behind the safety of module Handles, for programs that    *)
(* make no unusual use of the API (Usage = {}).                            *)
(***************************************************************************)
EXTENDS Handles

\* Labels of a range iterator in the making, of the cleanup of a child, and of
\* the deallocation of a LevelDB object.
Making  == {"seek", "discard", "make", "abandon"}
Closing == {"close", "close_aux", "closed"}

\* Nobody closes an object that is in use, and a call sticks to the database it
\* was made on.
CallOK(t) ==
  /\ th[t].dying # Null => th[t].pc \in Closing
  /\ th[t].pc \in Closing => th[t].self \notin Db \cup Snap
  /\ th[t].pc = "return" => th[t].cur = Null
  /\ th[t].pc \in {"get"} \cup Making => th[t].using = DbOf(th[t].self) /\ th[t].using \in Db
CallsOK == \A t \in Thread : CallOK(t)

\* No object is cleaned or closed by two threads.
Exclusive ==
  \A t, u \in Thread : t # u =>
    /\ th[t].cur # Null => th[t].cur # th[u].cur
    /\ th[t].dying # Null => th[t].dying # th[u].dying
    /\ th[t].self \in Iter => th[t].self # th[u].self

\* An object being made or deallocated has no owner, one being opened only the
\* call of its constructor.
ThreadOwn(t) ==
  /\ th[t].dying # Null => Refs(th[t].dying) = {}
  /\ th[t].cur # Null /\ th[t].cur # th[t].self => Refs(th[t].cur) = {}
  /\ th[t].pc \in {"open", "opened"} => Refs(th[t].self) = {t}
Unowned == \A t \in Thread : ThreadOwn(t)

\* What is referred to is allocated; what is not allocated is blank.
ThreadAlloc(t) ==
  /\ th[t].dying # Null => th[t].dying \in alloc
  /\ th[t].cur # Null => (th[t].cur \in alloc <=> th[t].pc \notin Making)
AllocOK ==
  /\ \A o \in Object : Refs(o) # {} => o \in alloc
  /\ \A t \in Thread : ThreadAlloc(t)
  /\ \A d \in Db : d \notin alloc => db[d] = NewDb
  /\ \A s \in Snap : s \notin alloc => snap[s].db = Null
  /\ \A i \in Iter : i \notin alloc => iter[i].db = Null

Up(d)   == db[d].native = "live" /\ db[d].aux = "live"
Down(d) == db[d].native = "null" /\ db[d].aux = "null"

\* The database that thread t works on or takes down, at each label.
ThreadDb(t) ==
  LET self == th[t].self
      d    == th[t].dying
  IN  /\ self \in Db /\ th[t].pc \in {"opened", "native", "get"} \cup Making => Up(self)
      /\ self \in Db /\ th[t].pc = "return" => Up(self) \/ Down(self)
      /\ th[t].pc = "open" => db[self].native = "null" /\ db[self].aux = "live"
      /\ th[t].pc = "close" => Up(d) \/ Down(d)
      /\ th[t].pc = "close_aux" => Down(d) \/ (db[d].native = "dangling" /\ db[d].aux = "live")
      /\ th[t].pc = "closed" => Down(d) \/ (db[d].native = "dangling" /\ db[d].aux = "dangling")

\* A database is open as long as anything can reach it, and is taken down in
\* order.
DbsOK ==
  /\ \A d \in named \cap Db : Up(d)
  /\ \A c \in Child : Parent(c) # Null => Up(Parent(c))
  /\ \A t \in Thread : ThreadDb(t)

\* The snapshot that thread t deallocates, and the iterator that it makes or
\* cleans, at each label.
ThreadSnap(t) ==
  LET s == th[t].cur
  IN  s \in Snap =>
        /\ snap[s].db # Null
        /\ th[t].pc \in {"release", "unsnap"} \cup Closing
        /\ snap[s].native = IF th[t].pc = "release" THEN snap[s].db ELSE Null

ThreadIter(t) ==
  LET i == th[t].cur
  IN  i \in Iter =>
        /\ th[t].pc = "clean" => iter[i].native = iter[i].db
        /\ th[t].pc \in {"seek", "unref"} \cup Closing => iter[i].native = Null
        /\ th[t].pc = "discard" => iter[i].native = th[t].using
        /\ th[t].pc \in {"make", "abandon"} => iter[i].native \in {Null, th[t].using}

\* The native object behind a child is that of its database, except while the
\* child is made, and once the cleanup has deleted it.
SnapsOK ==
  /\ \A s \in Snap : Refs(s) # {} => snap[s].db # Null
  /\ \A s \in Snap : (\A t \in Thread : th[t].cur # s) => snap[s].native = snap[s].db
  /\ \A t \in Thread : ThreadSnap(t)

ItersOK ==
  /\ \A i \in Iter : (\A t \in Thread : th[t].cur # i) => iter[i].native = iter[i].db
  /\ \A t \in Thread : ThreadIter(t)

\* The inductive invariant.
IInv ==
  /\ TypeOK /\ MemorySafe
  /\ CallsOK /\ Exclusive
  /\ RefcountExact /\ Unowned
  /\ AllocOK /\ DbsOK
  /\ SnapsOK /\ ItersOK
============================================================================

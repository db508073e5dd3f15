------------------------------- MODULE GilInv -------------------------------
(***************************************************************************)
(* The inductive invariant of module GilMutex: which label of a thread     *)
(* goes with which lock, and what the state of the database says about     *)
(* where its users, its closer and the library's thread are.               *)
(***************************************************************************)
EXTENDS GilMutex

Working(t) == pc[t] \in Inside \cup Compare \cup {"locking"}

\* In a call on the open database, comparing or waiting or neither.
OnDb(t) ==
  \/ pc[t] \in {"native", "held", "next", "locking"}
  \/ pc[t] \in Compare /\ back[t] # "repair"

\* Where a thread has the GIL; Ensure finds it there in next() only.
HasGil(t) ==
  \/ pc[t] \in {"python", "release", "finish", "held", "next"}
  \/ At(t, "locking") /\ back[t] \in {"held", "next"}
  \/ At(t, "ensure") /\ back[t] = "next"

GilOK == \A t \in Actor : gil = t <=> HasGil(t)

\* DestroyDB never calls Python, and no call that keeps the GIL compares keys.
BackOK ==
  \A t \in Actor :
    /\ pc[t] \in Compare => back[t] \in {"native", "next", "repair"}
    /\ At(t, "locking") => back[t] \in {"native", "held", "next"}

\* The mutex is held in the library, or in a comparison made there.
MutexOK ==
  \A t \in Actor :
    mutex = t => \/ pc[t] \in {"native", "held", "next"}
                 \/ pc[t] \in Compare /\ back[t] \in {"native", "next"}

\* A call under way keeps the database as it is.
UsersOK ==
  /\ \A t \in users : ~At(t, "idle") /\ (Working(t) => db \in {"opening", "open"})
  /\ \A t \in Thread : OnDb(t) => t \in users

\* Nobody else uses a database before the call that opens it has returned.
OpeningOK ==
  db \in {"opening", "opened"} => \A t, u \in users : t = u

\* Closing waits for the library's thread.
BackgroundOK ==
  /\ pc[Background] \in {"idle", "native", "locking"} \cup Compare
  /\ pc[Background] \in Compare \cup {"locking"} => back[Background] = "native"
  /\ Working(Background) => db \in {"opened", "open", "closing"}

\* One thread takes the database down, and the state says how far it is.
Closer == {"close", "close_aux"}
CloserOK ==
  /\ \A t \in Actor : At(t, "close") => db = "closing"
  /\ \A t \in Actor : At(t, "close_aux") => db \in {"deleted", "failed"}
  /\ \A t, u \in Actor : pc[t] \in Closer /\ pc[u] \in Closer => t = u

\* Nobody uses a database that is or goes away: one that could not be opened
\* has only the caller, which takes it down.
ClosedOK ==
  /\ db \in {"closed", "closing", "deleted"} => users = {}
  /\ db = "failed" => \A t \in users : At(t, "close_aux")

\* The comparator is there exactly as long as the database is: a DB::Open that
\* fails does not leave it behind.
ComparatorOK ==
  /\ comparator = "none" <=> db = "closed"
  /\ \A t \in Actor : pc[t] \in Compare /\ OnDb(t) => comparator = "python"

\* The inductive invariant: who has which lock at which label, who may still be
\* in the library at which stage of the database, and that the comparator made
\* for a database goes away with it, also when it could not be opened.
GilInv ==
  /\ TypeOK
  /\ GilOK /\ BackOK /\ MutexOK
  /\ UsersOK /\ OpeningOK /\ BackgroundOK /\ ClosedOK /\ CloserOK
  /\ ComparatorOK
=============================================================================

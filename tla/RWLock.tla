------------------------------- MODULE RWLock -------------------------------
(***************************************************************************)
(* What the clients of kern/lock.c rely on, with nothing of how it is      *)
(* done: at any moment a thread has the lock for read, for write, or not   *)
(* at all, and a reader whose upgrade was accepted has a promise that      *)
(* nobody writes before it does.                                           *)
(***************************************************************************)
CONSTANT Thread
VARIABLE mode      \* mode[t]: what t has of the lock

Init == mode = [t \in Thread |-> "none"]

Change(t, from, to) == mode[t] = from /\ mode' = [mode EXCEPT ![t] = to]
OthersIn(t, S) == \A u \in Thread \ {t} : mode[u] \in S

\* Many may read, but not beside a writer; a pending upgrade admits no more.
AcquireRead(t) == Change(t, "none", "read") /\ OthersIn(t, {"none", "read"})
\* A writer is alone.
AcquireWrite(t) == Change(t, "none", "write") /\ OthersIn(t, {"none"})
\* One upgrade is accepted at a time; a refused one loses its read hold.
BeginUpgrade(t) == Change(t, "read", "upgrading") /\ OthersIn(t, {"none", "read"})
FinishUpgrade(t) == Change(t, "upgrading", "write") /\ OthersIn(t, {"none"})
Downgrade(t) == Change(t, "write", "read") /\ OthersIn(t, {"none"})
Release(t) == Change(t, "read", "none") \/ Change(t, "write", "none")

Next == \E t \in Thread :
    \/ AcquireRead(t) \/ AcquireWrite(t)
    \/ BeginUpgrade(t) \/ FinishUpgrade(t)
    \/ Downgrade(t) \/ Release(t)

Spec == Init /\ [][Next]_mode
=============================================================================

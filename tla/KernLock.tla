------------------------------ MODULE KernLock ------------------------------
(***************************************************************************)
(* The multiple-reader / single-writer lock of kern/lock.c: lock_data_t    *)
(* with writer preference, upgrade, downgrade, the try forms and the       *)
(* recursive owner, as used by the maps of vm/ and the inodes of ufs/.     *)
(*                                                                         *)
(* One step is one region in which l->interlock is held.  thread_sleep()   *)
(* asserts the wait before it drops the interlock, so going to sleep is    *)
(* part of that region.  The client's side of the contract (which calls a  *)
(* thread may make with what it holds) is in the guards; the ghost         *)
(* variables readers, wr, wbit and ubit record what was granted to whom.   *)
(***************************************************************************)
EXTENDS Naturals, FiniteSets

CONSTANTS
    Thread,      \* the threads that use the lock
    NoThread,    \* (char *)-1: no recursive owner
    SpinFirst,   \* lock_wait_time > 0, the multiprocessor setting
    MaxNest,     \* bound on the holds of either kind one thread nests
    Liberties    \* calls outside the discipline of the callers in this tree

ASSUME NoThreadAssumption == NoThread \notin Thread
ASSUME NestAssumption == MaxNest \in Nat \ {0}
ASSUME SpinAssumption == SpinFirst \in BOOLEAN

VARIABLES
    l,          \* the lock_data_t
    pc,         \* pc[t]: the wait loop t is in, or "idle" outside lock.c
    status,     \* status[t]: about to test, done spinning, or asleep on l
    readers,    \* ghost: <<t, k>> is the k-th read hold of t
    wr,         \* ghost: wr[t] is the number of write holds of t
    wbit,       \* ghost: the thread want_write was set for
    ubit,       \* ghost: the thread want_upgrade was set for
    panicked    \* a panic() of lock.c was reached

vars == <<l, pc, status, readers, wr, wbit, ubit, panicked>>
ghosts == <<readers, wr, wbit, ubit>>

Loops == {"want_write", "drain", "read", "upgrade", "try_upgrade"}

LockData == [want_write: BOOLEAN, want_upgrade: BOOLEAN, waiting: BOOLEAN,
             can_sleep: BOOLEAN, read_count: Nat, recursion_depth: Nat,
             thread: Thread \cup {NoThread}]

lock_init(can_sleep) ==
    [want_write |-> FALSE, want_upgrade |-> FALSE, waiting |-> FALSE,
     can_sleep |-> can_sleep, read_count |-> 0, recursion_depth |-> 0,
     thread |-> NoThread]

Init ==
    /\ \E b \in BOOLEAN : l = lock_init(b) /\ (b \/ SpinFirst)
    /\ pc = [t \in Thread |-> "idle"]
    /\ status = [t \in Thread |-> "run"]
    /\ readers = {}
    /\ wr = [t \in Thread |-> 0]
    /\ wbit = NoThread
    /\ ubit = NoThread
    /\ panicked = FALSE

-----------------------------------------------------------------------------
(* What a thread holds, and what the callers in this tree do with it.      *)

Reads(t, k) == <<t, k>> \in readers
HoldsRead(t) == \E k \in 1..MaxNest : Reads(t, k)
HoldsNothing(t) == wr[t] = 0 /\ ~HoldsRead(t)
IsOwner(t) == l.thread = t

\* The next free read hold of t, and the one taken last.
NewRead(t, k) == ~Reads(t, k) /\ \A j \in 1..(k - 1) : Reads(t, j)
LastRead(t, k) == Reads(t, k) /\ \A j \in (k + 1)..MaxNest : ~Reads(t, j)

OneRead(t) == Reads(t, 1) /\ \A j \in 2..MaxNest : ~Reads(t, j)
OneHold(t) == \/ wr[t] = 1 /\ ~HoldsRead(t)
              \/ wr[t] = 0 /\ OneRead(t)

Idle(t) == pc[t] = "idle" /\ ~panicked

\* Only the recursive owner asks again for a lock it holds; for write only
\* while it has the write lock (the comment in vm_map_pageable).
MayRead(t) == Idle(t) /\ (IsOwner(t) \/ HoldsNothing(t))
MayWrite(t) == Idle(t) /\ (HoldsNothing(t) \/ (IsOwner(t) /\ wr[t] \in 1..(MaxNest - 1)))
MayUpgrade(t) ==
    /\ Idle(t) /\ HoldsRead(t)
    /\ IsOwner(t) => \/ wr[t] \in 1..(MaxNest - 1)
                     \/ "upgrade_after_downgrade" \in Liberties /\ wr[t] = 0
\* The owner gives the ownership up before its last hold.
MayRelease(t) == Idle(t) /\ ~(IsOwner(t) /\ OneHold(t))

-----------------------------------------------------------------------------
(* The pieces the routines share.                                          *)

\* Mutants of Blocked: readers that pass a pending upgrade, readers that pass a
\* waiting writer, an upgrade that waits for the waiting writer.
Blocked_ReadersPassUpgrade(t) ==
    CASE pc[t] = "want_write" -> l.want_write
      [] pc[t] = "drain" -> l.read_count # 0 \/ l.want_upgrade
      [] pc[t] = "read" -> l.want_write \/ (\E u \in Thread : wr[u] > 0)
      [] pc[t] \in {"upgrade", "try_upgrade"} -> l.read_count # 0
      [] OTHER -> FALSE
Blocked_ReadersPassWriter(t) ==
    CASE pc[t] = "want_write" -> l.want_write
      [] pc[t] = "drain" -> l.read_count # 0 \/ l.want_upgrade
      [] pc[t] = "read" -> l.want_upgrade \/ (\E u \in Thread : wr[u] > 0)
      [] pc[t] \in {"upgrade", "try_upgrade"} -> l.read_count # 0
      [] OTHER -> FALSE
Blocked_UpgradeAwaitsWriter(t) ==
    CASE pc[t] = "want_write" -> l.want_write
      [] pc[t] = "drain" -> l.read_count # 0 \/ l.want_upgrade
      [] pc[t] = "read" -> l.want_write \/ l.want_upgrade
      [] pc[t] \in {"upgrade", "try_upgrade"} -> l.read_count # 0 \/ l.want_write
      [] OTHER -> FALSE

\* The condition of the wait loop t is in.
Blocked(t) ==
    CASE pc[t] = "want_write" -> l.want_write
      [] pc[t] = "drain" -> l.read_count # 0 \/ l.want_upgrade
      [] pc[t] = "read" -> l.want_write \/ l.want_upgrade
      [] pc[t] \in {"upgrade", "try_upgrade"} -> l.read_count # 0
      [] OTHER -> FALSE

\* if (l->waiting) { l->waiting = FALSE; thread_wakeup(l); }
Wakeup(lk) == [lk EXCEPT !.waiting = FALSE]
Woken == [u \in Thread |->
            IF l.waiting /\ status[u] = "asleep" THEN "run" ELSE status[u]]

\* The bit or count that lock_done() and lock_write_to_read() give back.
DropWrite_WriteBitFirst(lk) ==   \* mutant: the bits tested in the other order
    IF lk.recursion_depth # 0
    THEN [lk EXCEPT !.recursion_depth = @ - 1]
    ELSE IF lk.want_write
         THEN [lk EXCEPT !.want_write = FALSE]
         ELSE [lk EXCEPT !.want_upgrade = FALSE]
DropWrite(lk) ==
    IF lk.recursion_depth # 0
    THEN [lk EXCEPT !.recursion_depth = @ - 1]
    ELSE IF lk.want_upgrade
         THEN [lk EXCEPT !.want_upgrade = FALSE]
         ELSE [lk EXCEPT !.want_write = FALSE]

\* The ghosts that follow the two bits.
BitsFollow(lk) ==
    /\ wbit' = IF lk.want_write THEN wbit ELSE NoThread
    /\ ubit' = IF lk.want_upgrade THEN ubit ELSE NoThread

Enter(t, loop) ==
    /\ pc' = [pc EXCEPT ![t] = loop]
    /\ status' = [status EXCEPT ![t] = "run"]
    /\ UNCHANGED <<l, readers, wr, wbit, ubit, panicked>>

Leave(t) ==
    /\ pc' = [pc EXCEPT ![t] = "idle"]
    /\ status' = [status EXCEPT ![t] = "run"]

AddRead(t) == \E k \in 1..MaxNest : NewRead(t, k) /\ readers' = readers \cup {<<t, k>>}
DropRead(t) == \E k \in 1..MaxNest : LastRead(t, k) /\ readers' = readers \ {<<t, k>>}
AddWrite(t) == wr' = [wr EXCEPT ![t] = @ + 1]

Panic == panicked' = TRUE /\ UNCHANGED <<l, pc, status, readers, wr, wbit, ubit>>

-----------------------------------------------------------------------------
(* The body of every wait loop, once its condition was found true: spin    *)
(* with the interlock free, then sleep if the lock allows it.              *)

Spin(t) ==
    /\ pc[t] \in Loops \ {"try_upgrade"} /\ ~panicked
    /\ status[t] = "run" /\ Blocked(t) /\ SpinFirst
    /\ status' = [status EXCEPT ![t] = "spun"]
    /\ UNCHANGED <<l, pc, ghosts, panicked>>

Sleep(t) ==
    /\ pc[t] \in Loops /\ ~panicked /\ Blocked(t)
    /\ \/ pc[t] = "try_upgrade" /\ status[t] = "run"
       \/ /\ pc[t] # "try_upgrade" /\ l.can_sleep
          /\ status[t] = IF SpinFirst THEN "spun" ELSE "run"
    /\ l' = [l EXCEPT !.waiting = TRUE]
    /\ status' = [status EXCEPT ![t] = "asleep"]
    /\ UNCHANGED <<pc, ghosts, panicked>>

\* A thread past the condition of its loop.
Ready(t, loop) == pc[t] = loop /\ status[t] # "asleep" /\ ~Blocked(t) /\ ~panicked

-----------------------------------------------------------------------------
(* lock_write                                                              *)

lock_write(t) ==
    /\ MayWrite(t)
    /\ IF IsOwner(t)
       THEN /\ l' = [l EXCEPT !.recursion_depth = @ + 1]
            /\ AddWrite(t)
            /\ UNCHANGED <<pc, status, readers, wbit, ubit, panicked>>
       ELSE Enter(t, "want_write")

\* Takes the want_write bit and goes on to the second loop, which a lock
\* that nobody reads is past already.
lock_write_want(t) ==
    /\ Ready(t, "want_write")
    /\ l' = [l EXCEPT !.want_write = TRUE]
    /\ wbit' = t
    /\ IF l.read_count # 0 \/ l.want_upgrade
       THEN /\ pc' = [pc EXCEPT ![t] = "drain"]
            /\ status' = [status EXCEPT ![t] = "run"]
            /\ UNCHANGED wr
       ELSE Leave(t) /\ AddWrite(t)
    /\ UNCHANGED <<readers, ubit, panicked>>

lock_write_drained(t) ==
    /\ Ready(t, "drain")
    /\ Leave(t) /\ AddWrite(t)
    /\ UNCHANGED <<l, readers, wbit, ubit, panicked>>

(* lock_read                                                               *)

lock_read(t) ==
    /\ MayRead(t)
    /\ IF IsOwner(t)
       THEN /\ l' = [l EXCEPT !.read_count = @ + 1]
            /\ AddRead(t)
            /\ UNCHANGED <<pc, status, wr, wbit, ubit, panicked>>
       ELSE Enter(t, "read")

lock_read_granted(t) ==
    /\ Ready(t, "read")
    /\ l' = [l EXCEPT !.read_count = @ + 1]
    /\ AddRead(t) /\ Leave(t)
    /\ UNCHANGED <<wr, wbit, ubit, panicked>>

(* lock_done, called as lock_read_done() or lock_write_done()              *)

lock_done ==
    LET lk == IF l.read_count # 0 THEN [l EXCEPT !.read_count = @ - 1]
                                  ELSE DropWrite(l)
    IN  /\ l' = Wakeup(lk)
        /\ BitsFollow(lk)
        /\ status' = Woken
        /\ UNCHANGED <<pc, panicked>>

lock_read_done(t) ==
    /\ MayRelease(t) /\ HoldsRead(t)
    /\ DropRead(t) /\ lock_done /\ UNCHANGED wr

lock_write_done(t) ==
    /\ MayRelease(t) /\ wr[t] > 0
    /\ ~HoldsRead(t)
    /\ wr' = [wr EXCEPT ![t] = @ - 1]
    /\ lock_done /\ UNCHANGED readers

(* lock_read_to_write: TRUE, and nothing held, when an upgrade is pending  *)

lock_read_to_write(t) ==
    /\ MayUpgrade(t)
    /\ LET lk == [l EXCEPT !.read_count = @ - 1]
       IN  IF l.read_count = 0 THEN Panic
           ELSE /\ DropRead(t)
                /\ \/ /\ IsOwner(t)
                      /\ l' = [lk EXCEPT !.recursion_depth = @ + 1]
                      /\ AddWrite(t)
                      /\ UNCHANGED <<pc, status, ubit>>
                   \/ /\ ~IsOwner(t) /\ l.want_upgrade
                      /\ l' = Wakeup(lk)
                      /\ status' = Woken
                      /\ UNCHANGED <<pc, wr, ubit>>
                   \/ /\ ~IsOwner(t) /\ ~l.want_upgrade
                      /\ l' = [lk EXCEPT !.want_upgrade = TRUE]
                      /\ ubit' = t
                      /\ pc' = [pc EXCEPT ![t] = "upgrade"]
                      /\ UNCHANGED <<status, wr>>
                /\ UNCHANGED <<wbit, panicked>>

lock_upgrade_drained(t) ==
    /\ Ready(t, "upgrade") \/ Ready(t, "try_upgrade")
    /\ Leave(t) /\ AddWrite(t)
    /\ UNCHANGED <<l, readers, wbit, ubit, panicked>>

lock_write_to_read(t) ==
    /\ Idle(t) /\ wr[t] > 0
    /\ LET lk == DropWrite([l EXCEPT !.read_count = @ + 1])
       IN  l' = Wakeup(lk) /\ BitsFollow(lk)
    /\ status' = Woken
    /\ AddRead(t)
    /\ wr' = [wr EXCEPT ![t] = @ - 1]
    /\ UNCHANGED <<pc, panicked>>

(* The try forms; the failing calls change nothing.                        *)

lock_try_write(t) ==
    /\ MayWrite(t)
    /\ \/ IsOwner(t) /\ l' = [l EXCEPT !.recursion_depth = @ + 1] /\ UNCHANGED wbit
       \/ /\ ~IsOwner(t) /\ ~l.want_write /\ ~l.want_upgrade /\ l.read_count = 0
          /\ l' = [l EXCEPT !.want_write = TRUE] /\ wbit' = t
    /\ AddWrite(t)
    /\ UNCHANGED <<pc, status, readers, ubit, panicked>>

lock_try_read(t) ==
    /\ MayRead(t)
    /\ IsOwner(t) \/ (~l.want_write /\ ~l.want_upgrade)
    /\ l' = [l EXCEPT !.read_count = @ + 1]
    /\ AddRead(t)
    /\ UNCHANGED <<pc, status, wr, wbit, ubit, panicked>>

lock_try_read_to_write(t) ==
    /\ MayUpgrade(t)
    /\ IsOwner(t) \/ ~l.want_upgrade
    /\ LET lk == [l EXCEPT !.read_count = @ - 1]
       IN  IF l.read_count = 0 THEN Panic
           ELSE /\ DropRead(t)
                /\ \/ /\ IsOwner(t)
                      /\ l' = [lk EXCEPT !.recursion_depth = @ + 1]
                      /\ AddWrite(t)
                      /\ UNCHANGED <<pc, ubit>>
                   \/ /\ ~IsOwner(t)
                      /\ l' = [lk EXCEPT !.want_upgrade = TRUE]
                      /\ ubit' = t
                      /\ pc' = [pc EXCEPT ![t] = "try_upgrade"]
                      /\ UNCHANGED wr
                /\ UNCHANGED <<status, wbit, panicked>>

(* The recursive owner and the sleep option.                               *)

lock_set_recursive(t) ==
    /\ Idle(t) /\ wr[t] > 0
    /\ wbit = t \/ "set_recursive_after_upgrade" \in Liberties
    /\ IF ~l.want_write THEN Panic
       ELSE /\ l' = [l EXCEPT !.thread = t]
            /\ UNCHANGED <<pc, status, ghosts, panicked>>

lock_clear_recursive(t) ==
    /\ Idle(t) /\ IsOwner(t)
    /\ OneHold(t) \/ l.recursion_depth # 0
    /\ l' = [l EXCEPT !.thread = IF l.recursion_depth = 0 THEN NoThread ELSE @]
    /\ UNCHANGED <<pc, status, ghosts, panicked>>

\* A lock that may not sleep spins, which needs another processor.
lock_sleepable(b) ==
    /\ b # l.can_sleep /\ (b \/ SpinFirst) /\ ~panicked
    /\ l' = [l EXCEPT !.can_sleep = b]
    /\ UNCHANGED <<pc, status, ghosts, panicked>>

-----------------------------------------------------------------------------
LockStep(t) ==
    \/ Spin(t) \/ Sleep(t)
    \/ lock_write_want(t) \/ lock_write_drained(t)
    \/ lock_read_granted(t) \/ lock_upgrade_drained(t)

ClientCall(t) ==
    \/ lock_write(t) \/ lock_read(t)
    \/ lock_read_done(t) \/ lock_write_done(t)
    \/ lock_read_to_write(t) \/ lock_write_to_read(t)
    \/ lock_try_write(t) \/ lock_try_read(t) \/ lock_try_read_to_write(t)
    \/ lock_set_recursive(t) \/ lock_clear_recursive(t)

Next ==
    \/ \E t \in Thread : LockStep(t) \/ ClientCall(t)
    \/ \E b \in BOOLEAN : lock_sleepable(b)

Spec == Init /\ [][Next]_vars

\* Threads are scheduled, so a thread inside lock.c makes its next step; a
\* client gives its last hold back and, before that, its ownership.
LastRelease(t) == OneHold(t) /\ (lock_read_done(t) \/ lock_write_done(t))
LastClear(t) == OneHold(t) /\ lock_clear_recursive(t)
Unnest(t) == ~OneHold(t) /\ (lock_read_done(t) \/ lock_write_done(t))

Fairness ==
    \A t \in Thread :
        /\ WF_vars(LockStep(t))
        /\ SF_vars(LastRelease(t)) /\ SF_vars(LastClear(t)) /\ SF_vars(Unnest(t))

FairSpec == Spec /\ Fairness

-----------------------------------------------------------------------------
(* Properties                                                              *)

\* The lock, the wait loops and the ghosts keep their types.
TypeOK ==
    /\ l \in LockData
    /\ pc \in [Thread -> Loops \cup {"idle"}]
    /\ status \in [Thread -> {"run", "spun", "asleep"}]
    /\ readers \subseteq (Thread \X (1..MaxNest))
    /\ wr \in [Thread -> Nat]
    /\ wbit \in Thread \cup {NoThread}
    /\ ubit \in Thread \cup {NoThread}
    /\ panicked \in BOOLEAN

\* Mutual exclusion: while lock_write(), an upgrade or a try form has granted
\* a write hold, no other thread has a hold of either kind.
Exclusion ==
    \A t, u \in Thread : wr[t] > 0 /\ t # u => HoldsNothing(u)

\* The fields of the lock agree with what was granted: read_count counts the
\* read holds, each bit is set exactly for the thread that waits for or has the
\* write lock through it, and recursion_depth counts nested write holds.
Bits(t) ==
    /\ wbit = t <=> pc[t] = "drain" \/ (wr[t] > 0 /\ ubit # t)
    /\ ubit = t <=> pc[t] \in {"upgrade", "try_upgrade"} \/ (wr[t] > 0 /\ wbit # t)
    /\ wr[t] > 0 => l.recursion_depth = wr[t] - 1
Accounting ==
    /\ IsFiniteSet(readers) /\ l.read_count = Cardinality(readers)
    /\ l.want_write <=> wbit # NoThread
    /\ l.want_upgrade <=> ubit # NoThread
    /\ \A t \in Thread : Bits(t)
    /\ (\A t \in Thread : wr[t] = 0) => l.recursion_depth = 0

\* No lost wakeup: a thread asleep on the lock has left the waiting flag set
\* for the next lock_done(), and what it waits for has not come about yet.
NoSleepOnFreeLock ==
    \A t \in Thread : status[t] = "asleep" => l.waiting /\ Blocked(t)

\* An upgrade keeps what the reader read: from lock_read_to_write() until it
\* has the write lock, no other thread gets to write.
UpgradeKeepsOut ==
    \A t, u \in Thread :
        pc[t] \in {"upgrade", "try_upgrade"} => wr[u] = 0

\* The panics of lock.c ("lock upgrade w/o read lock", "don't have write
\* lock") are not reached by a client that holds what it says.
NoPanic == ~panicked

\* What nesting leaves true: a thread waiting in lock.c holds nothing; only the
\* recursive owner has more than one hold; the owner always has one, and its
\* write holds rest on want_write, which lock_set_recursive() asked for.
Shape(t) ==
    /\ pc[t] # "idle" => HoldsNothing(t)
    /\ ~IsOwner(t) => (wr[t] = 0 /\ \A k \in 2..MaxNest : ~Reads(t, k))
                     \/ (wr[t] = 1 /\ ~HoldsRead(t))
    /\ IsOwner(t) => pc[t] = "idle" /\ ~HoldsNothing(t) /\ (wr[t] > 0 => wbit = t)
    /\ \A k \in 1..MaxNest : Reads(t, k) => \A j \in 1..(k - 1) : Reads(t, j)
    /\ status[t] # "run" => pc[t] # "idle"
HoldShape == \A t \in Thread : Shape(t)

\* What a thread has of the lock, as its clients see it: nested holds count as
\* the strongest of them.
Mode(t) ==
    CASE wr[t] > 0 -> "write"
      [] wr[t] = 0 /\ HoldsRead(t) -> "read"
      [] wr[t] = 0 /\ ~HoldsRead(t) /\ pc[t] \in {"upgrade", "try_upgrade"} -> "upgrading"
      [] OTHER -> "none"
modes == [t \in Thread |-> Mode(t)]
RW == INSTANCE RWLock WITH mode <- modes

\* lock.c implements the readers-writer lock its clients rely on: bits, counts,
\* spinning, sleeping and recursion grant and take away no more than RWLock does.
ImplementsRWLock == RW!Spec

\* The inductive invariant behind the safety properties.
LockInv ==
    TypeOK /\ Accounting /\ Exclusion /\ UpgradeKeepsOut /\ HoldShape
           /\ NoSleepOnFreeLock /\ NoPanic

\* A writer that has set want_write keeps new readers out, so the readers
\* drain and lock_write() returns.
WriterGetsLock ==
    \A t \in Thread : pc[t] = "drain" ~> wr[t] > 0

\* An upgrade that was accepted completes: it waits only for readers, which
\* it keeps from growing, never for the writer that waits for it.
UpgradeCompletes ==
    \A t \in Thread : pc[t] \in {"upgrade", "try_upgrade"} ~> wr[t] > 0

\* Every thread that went to sleep on the lock is woken again.
SleepersWake ==
    \A t \in Thread : status[t] = "asleep" ~> status[t] # "asleep"
=============================================================================

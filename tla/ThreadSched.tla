---------------------------- MODULE ThreadSched ----------------------------
(***************************************************************************)
(* Kernel threads that wait, wake, time out, suspend, halt, terminate and  *)
(* swap one another: kern/sched_prim.c, kern/thread.c, kern/thread_swap.c. *)
(*                                                                         *)
(* Every thread is both an actor and a target.  A thread acts only while   *)
(* it is on a processor; at most NCPUS threads are.  pc[t] is the point of *)
(* the kernel operation t is executing, and one step is one critical       *)
(* section of that operation: what happens between taking and releasing a  *)
(* thread lock or a wait-queue lock.  A thread that calls thread_block     *)
(* leaves the processor and resumes at its pc when it is dispatched again, *)
(* so the threads that wait in thread_dowait or thread_halt are themselves *)
(* subject to the state machine they operate.                              *)
(*                                                                         *)
(* With NCPUS = 1 nothing runs beside a thread in the kernel but interrupt *)
(* level, and nothing at all runs beside interrupt level; that is the      *)
(* configuration NeXT shipped.  With NCPUS > 1 the sections interleave     *)
(* freely.                                                                 *)
(***************************************************************************)
EXTENDS ThreadState

CONSTANTS
  Thread,     \* the threads
  NoThread,   \* no thread: the swapper is idle, or an operation has no target
  Event,      \* the events user-level waits are on
  NCPUS,      \* the number of processors
  Workload,   \* threads: those that have not been destroyed yet at the start;
              \* calls: the kernel operations they use
  MaxStop,    \* bound on user_stop_count
  MaxHold     \* bound on the suspend_count of a thread that task_terminate meets

AllCalls == {"wait", "timed", "wakeup_one", "interrupt", "suspend", "resume",
             "get_state", "abort", "terminate", "force", "swap", "swappable",
             "unswappable"}

ASSUME NoThreadAssumption == NoThread \notin Thread
ASSUME CpuAssumption == NCPUS \in Nat \ {0}
ASSUME WorkloadAssumption ==
         Workload \subseteq [threads : SUBSET Thread, calls : SUBSET AllCalls]
ASSUME StopAssumption == MaxStop \in Nat \ {0} /\ MaxHold \in Nat \ {0}

VARIABLES
  th,        \* th[t]: the fields of struct thread
  oncpu,     \* the threads that are on a processor
  pc,        \* pc[t]: where t is in the operation it executes
  op,        \* op[t]: the operation
  tgt,       \* tgt[t]: the thread operated on
  saved,     \* saved[t]: clear_wait's local copy of the target's wait_event
  inflight,  \* inflight[t]: how far a thread_timeout for t has got
  swapper,   \* the thread swapout_scan is swapping out
  unref,     \* threads whose reference to themselves is gone
  dead,      \* threads that thread_deallocate has destroyed
  load       \* the workload

vars == <<th, oncpu, pc, op, tgt, saved, inflight, swapper, unref, dead, load>>

Calls == load.calls

NoEvent == <<"none", NoThread>>
WakeActive(t) == <<"wake_active", t>>
SwapState(t) == <<"swap_state", t>>
WaitEvents == {NoEvent} \cup ({"event"} \X Event)
                \cup ({"wake_active", "swap_state"} \X Thread)

(* No thread_timeout is under way.                                         *)
Idle == <<"none", NoEvent>>

(* The two callers of thread_halt; only thread_abort may fail.             *)
MustHalt(t) == op[t] # "abort"

(* What is left of a thread that was terminated before.                    *)
Destroyed == [NewThread(NoEvent) EXCEPT !.state = {"susp"}, !.suspend_count = 1,
                !.runq = FALSE, !.active = FALSE, !.halted = TRUE]

Init ==
  /\ load \in Workload
  /\ th = [t \in Thread |-> IF t \in load.threads THEN NewThread(NoEvent) ELSE Destroyed]
  /\ oncpu = {}
  /\ pc = [t \in Thread |-> IF t \in load.threads THEN "user" ELSE "zombie"]
  /\ op = [t \in Thread |-> "none"]
  /\ tgt = [t \in Thread |-> NoThread]
  /\ saved = [t \in Thread |-> NoEvent]
  /\ inflight = [t \in Thread |-> Idle]
  /\ swapper = NoThread
  /\ unref = Thread \ load.threads
  /\ dead = unref

----------------------------------------------------------------------------
(* Who may take the next step.                                             *)

(* On one processor the two halves of clear_wait run at splsched and       *)
(* thread_timeout at splhigh: nothing comes between.                       *)
InTimer == \E t \in Thread : inflight[t] # Idle
Interruptible == NCPUS > 1 \/ (~InTimer /\ \A t \in Thread : pc[t] # "clear2")

Running(t) == t \in oncpu /\ (NCPUS > 1 \/ ~InTimer)

At(t, label) == Running(t) /\ pc[t] = label

Goto(t, label) == pc' = [pc EXCEPT ![t] = label]

(* The operation is over: back to user mode.                               *)
Finish(t) ==
  /\ Goto(t, "user")
  /\ op' = [op EXCEPT ![t] = "none"]
  /\ tgt' = [tgt EXCEPT ![t] = NoThread]

Begin(t, o, u, label) ==
  /\ o \in Calls
  /\ Goto(t, label)
  /\ op' = [op EXCEPT ![t] = o]
  /\ tgt' = [tgt EXCEPT ![t] = u]

UNCHANGED_op == UNCHANGED <<op, tgt>>
UNCHANGED_rest == UNCHANGED <<saved, inflight, swapper, unref, dead, load>>

(* Clients name threads by port, and ipc_thread_disable has taken away the *)
(* port of a thread that is no longer active.                              *)
Target == {u \in Thread : th[u].active}

(* A thread in user mode may enter the kernel.  One processor takes a      *)
(* pending halt request on the way out of the kernel, before user mode.    *)
AtUser(t) == At(t, "user") /\ (NCPUS > 1 \/ th[t].ast = {})

----------------------------------------------------------------------------
(* Wait events.                                                            *)

(* thread_wakeup_prim(ev, FALSE, result) on the thread table f; the        *)
(* threads are on the wait queue exactly while their wait_event is set.    *)
Woken(r, result) ==
  LET q == CancelTimer([r EXCEPT !.event = NoEvent])
  IN IF "wait" \in q.state THEN Awaken(q, result) ELSE Panic(q, "thread_wakeup")

Wakeup(f, ev, result) ==
  [u \in DOMAIN f |-> IF f[u].event = ev THEN Woken(f[u], result) ELSE f[u]]

(* clear_wait, from its first test to the second lock or the end, and from *)
(* the second lock on.                                                     *)
Cleared(r, result) == Awaken(CancelTimer(r), result)

ClearWait1(u, result, interrupt_only) ==
  IF (interrupt_only /\ ~th[u].intr) \/ th[u].event # NoEvent
  THEN UNCHANGED th
  ELSE th' = [th EXCEPT ![u] = Cleared(@, result)]

ClearWaitMore(u, interrupt_only) ==
  ~(interrupt_only /\ ~th[u].intr) /\ th[u].event # NoEvent

(* Fault: the event is not compared again.                                 *)
ClearWait2_NoRecheck(u, ev, result) ==
  th' = [th EXCEPT ![u] = Cleared(@, result)]

ClearWait2(u, ev, result) ==
  IF th[u].event = ev
  THEN th' = [th EXCEPT ![u] = Cleared([@ EXCEPT !.event = NoEvent], result)]
  ELSE UNCHANGED th

(* assert_wait by a client.  Event 0 is ended by clear_wait only: its      *)
(* users are either interruptible (thread_will_wait in ipc_basics.c) or    *)
(* have a timeout (sched_thread, od.c).                                    *)
AssertWait(t) ==
  /\ AtUser(t)
  /\ \E o \in {"wait", "timed"}, ev \in {NoEvent} \cup ({"event"} \X Event), i \in BOOLEAN :
       /\ ev = NoEvent => (i <=> o = "wait")
       /\ Begin(t, o, NoThread, IF o = "timed" THEN "set_timeout" ELSE "asserted")
       /\ th' = [th EXCEPT ![t] = assert_wait(@, ev, i, NoEvent)]
  /\ UNCHANGED <<oncpu>> /\ UNCHANGED_rest

thread_set_timeout(t) ==
  /\ At(t, "set_timeout")
  /\ th' = IF "wait" \in th[t].state
           THEN [th EXCEPT ![t].timer_set = TRUE, ![t].armed = @ + 1]
           ELSE th
  /\ Goto(t, "asserted")
  /\ UNCHANGED <<oncpu>> /\ UNCHANGED_op /\ UNCHANGED_rest

(* The client is back from thread_block and has read its wait_result.      *)
WaitOver(t) ==
  /\ At(t, "woken")
  /\ Finish(t)
  /\ UNCHANGED <<th, oncpu>> /\ UNCHANGED_rest

(* thread_wakeup(ev), from a thread or from interrupt level.               *)
thread_wakeup(ev) ==
  /\ Interruptible
  /\ \E u \in Thread : th[u].event = <<"event", ev>>
  /\ th' = Wakeup(th, <<"event", ev>>, "awakened")
  /\ UNCHANGED <<oncpu, pc>> /\ UNCHANGED_op /\ UNCHANGED_rest

thread_wakeup_one(ev) ==
  /\ "wakeup_one" \in Calls
  /\ Interruptible
  /\ \E u \in Thread :
       /\ th[u].event = <<"event", ev>>
       /\ th' = [th EXCEPT ![u] = Woken(@, "awakened")]
  /\ UNCHANGED <<oncpu, pc>> /\ UNCHANGED_op /\ UNCHANGED_rest

(* clear_wait(u, THREAD_INTERRUPTED, TRUE): a client's, or thread_halt's.  *)
Interrupt(t) ==
  /\ AtUser(t)
  /\ \E u \in Target \ {t} : Begin(t, "interrupt", u, "clear1")
  /\ UNCHANGED <<th, oncpu>> /\ UNCHANGED_rest

ClearDone(t) == IF op[t] = "interrupt" THEN Finish(t) ELSE Goto(t, "halt_check") /\ UNCHANGED_op

clear_wait1(t) ==
  /\ At(t, "clear1")
  /\ ClearWait1(tgt[t], "interrupted", TRUE)
  /\ IF ClearWaitMore(tgt[t], TRUE)
     THEN /\ saved' = [saved EXCEPT ![t] = th[tgt[t]].event]
          /\ Goto(t, "clear2") /\ UNCHANGED_op
     ELSE ClearDone(t) /\ UNCHANGED saved
  /\ UNCHANGED <<oncpu, inflight, swapper, unref, dead, load>>

clear_wait2(t) ==
  /\ At(t, "clear2")
  /\ ClearWait2(tgt[t], saved[t], "interrupted")
  /\ saved' = [saved EXCEPT ![t] = NoEvent]
  /\ ClearDone(t)
  /\ UNCHANGED <<oncpu, inflight, swapper, unref, dead, load>>

----------------------------------------------------------------------------
(* thread_timeout, called by the clock at splhigh: softclock takes the     *)
(* entry off the callout table, then timer_set is reset under the thread   *)
(* lock, then clear_wait(thread, THREAD_TIMED_OUT, FALSE).  inflight[u]    *)
(* names the next section and the event clear_wait read in its first one.  *)
TimerFires(u) ==
  /\ Interruptible
  /\ th[u].armed > 0 /\ inflight[u] = Idle
  /\ th' = [th EXCEPT ![u].armed = @ - 1]
  /\ inflight' = [inflight EXCEPT ![u] = <<"fired", NoEvent>>]
  /\ UNCHANGED <<oncpu, pc, saved, swapper, unref, dead, load>> /\ UNCHANGED_op

thread_timeout(u) ==
  /\ inflight[u][1] = "fired"
  /\ th' = [th EXCEPT ![u].timer_set = FALSE]
  /\ inflight' = [inflight EXCEPT ![u] = <<"clear1", NoEvent>>]
  /\ UNCHANGED <<oncpu, pc, saved, swapper, unref, dead, load>> /\ UNCHANGED_op

thread_timeout_clear1(u) ==
  /\ inflight[u][1] = "clear1"
  /\ ClearWait1(u, "timed_out", FALSE)
  /\ inflight' = [inflight EXCEPT ![u] =
                    IF ClearWaitMore(u, FALSE) THEN <<"clear2", th[u].event>> ELSE Idle]
  /\ UNCHANGED <<oncpu, pc, saved, swapper, unref, dead, load>> /\ UNCHANGED_op

thread_timeout_clear2(u) ==
  /\ inflight[u][1] = "clear2"
  /\ ClearWait2(u, inflight[u][2], "timed_out")
  /\ inflight' = [inflight EXCEPT ![u] = Idle]
  /\ UNCHANGED <<oncpu, pc, saved, swapper, unref, dead, load>> /\ UNCHANGED_op

----------------------------------------------------------------------------
(* Context switch.  thread_block hands the old thread to thread_continue;  *)
(* a thread that really stops wakes those who wait for it to.  Where the   *)
(* thread goes on when it is dispatched again:                             *)
AfterBlock ==
  [user |-> "user", asserted |-> "woken", dowait_sleep |-> "dowait_retest",
   halt_sleep |-> "halt_retest", swappable_sleep |-> "swappable_retest",
   block_self |-> "dowait_done", halted |-> "user", zombie |-> "walks"]

(* Fault: a thread that stops while it waits does not tell.                *)
Stopping_Silent(f, t) ==
  LET g == [f EXCEPT ![t] = thread_continue(@)]
  IN IF f[t].state = {"run", "susp"} /\ f[t].intr /\ f[t].wake_active
     THEN Wakeup(g, WakeActive(t), "awakened") ELSE g

Stopping(f, t) ==
  LET g == [f EXCEPT ![t] = thread_continue(@)]
  IN IF Stops(f[t]) /\ f[t].wake_active THEN Wakeup(g, WakeActive(t), "awakened") ELSE g

(* thread_block returns at once when nothing else is runnable and the      *)
(* thread still is.                                                        *)
NothingElse(t) == th[t].state = {"run"} /\ \A u \in Thread : ~th[u].runq

thread_block(t) ==
  /\ Running(t)
  /\ pc[t] \in DOMAIN AfterBlock
  /\ Goto(t, AfterBlock[pc[t]])
  /\ IF NothingElse(t)
     THEN pc[t] # "user" /\ UNCHANGED <<th, oncpu>>
     ELSE th' = Stopping(th, t) /\ oncpu' = oncpu \ {t}
  /\ UNCHANGED_op /\ UNCHANGED_rest

(* A thread that comes back from the thread_block of thread_halt_self      *)
(* panics: "the zombie walks!".                                            *)
Dispatch(t) ==
  /\ NCPUS > 1 \/ ~InTimer
  /\ th[t].runq
  /\ Cardinality(oncpu) < NCPUS
  /\ th' = [th EXCEPT ![t] = IF pc[t] = "walks" THEN Panic(Dispatched(@), "thread_halt_self")
                                ELSE Dispatched(@)]
  /\ oncpu' = oncpu \cup {t}
  /\ UNCHANGED pc /\ UNCHANGED_op /\ UNCHANGED_rest

----------------------------------------------------------------------------
(* thread_suspend, thread_resume, thread_get_state.                        *)
thread_suspend(t) ==
  /\ AtUser(t)
  /\ \E u \in Target :
       /\ th[u].user_stop_count < MaxStop
       /\ th' = [th EXCEPT ![u].user_stop_count = @ + 1]
       /\ IF th[u].user_stop_count = 0
          THEN Begin(t, "suspend", u, "hold")
          ELSE "suspend" \in Calls /\ UNCHANGED <<pc, op, tgt>>
  /\ UNCHANGED oncpu /\ UNCHANGED_rest

thread_resume(t) ==
  /\ AtUser(t)
  /\ \E u \in Target :
       /\ th[u].user_stop_count > 0
       /\ th' = [th EXCEPT ![u].user_stop_count = @ - 1]
       /\ IF th[u].user_stop_count = 1
          THEN Begin(t, "resume", u, "release")
          ELSE "resume" \in Calls /\ UNCHANGED <<pc, op, tgt>>
  /\ UNCHANGED oncpu /\ UNCHANGED_rest

thread_get_state(t) ==
  /\ AtUser(t)
  /\ \E u \in Target \ {t} : Begin(t, "get_state", u, "hold")
  /\ UNCHANGED <<th, oncpu>> /\ UNCHANGED_rest

Hold(t) ==
  /\ At(t, "hold")
  /\ th' = [th EXCEPT ![tgt[t]] = thread_hold(@)]
  /\ Goto(t, "dowait")
  /\ UNCHANGED oncpu /\ UNCHANGED_op /\ UNCHANGED_rest

Release(t) ==
  /\ At(t, "release")
  /\ th' = [th EXCEPT ![tgt[t]] = thread_release(@)]
  /\ Finish(t)
  /\ UNCHANGED oncpu /\ UNCHANGED_rest

----------------------------------------------------------------------------
(* thread_dowait.                                                          *)

(* thread_sleep(&u->wake_active, u->lock, TRUE), up to thread_block.       *)
SleepOn(f, t, u) ==
  [f EXCEPT ![u].wake_active = TRUE,
            ![t] = assert_wait(@, WakeActive(u), TRUE, NoEvent)]

DowaitLoop(t, u) ==
  IF NotStopped(th[u])
  THEN th' = SleepOn(th, t, u) /\ Goto(t, "dowait_sleep")
  ELSE UNCHANGED th /\ Goto(t, "dowait_done")

thread_dowait(t) ==
  /\ At(t, "dowait")
  /\ LET u == tgt[t] IN
       \/ u = t /\ Goto(t, "block_self") /\ UNCHANGED th
       \/ /\ u # t /\ Pullable(th[u])
          /\ th' = LET g == [th EXCEPT ![u] = Pulled(@)]
                   IN IF th[u].wake_active THEN Wakeup(g, WakeActive(u), "awakened") ELSE g
          /\ Goto(t, "dowait_done")
       \/ u # t /\ ~Pullable(th[u]) /\ NeedsWaiting(th[u]) /\ DowaitLoop(t, u)
       \/ u # t /\ ~NeedsWaiting(th[u]) /\ Goto(t, "dowait_done") /\ UNCHANGED th
  /\ UNCHANGED oncpu /\ UNCHANGED_op /\ UNCHANGED_rest

dowait_retest(t) ==
  /\ At(t, "dowait_retest")
  /\ IF th[t].result # "awakened" /\ ~MustHalt(t)
     THEN UNCHANGED th /\ Goto(t, "halt_fail")
     ELSE DowaitLoop(t, tgt[t])
  /\ UNCHANGED oncpu /\ UNCHANGED_op /\ UNCHANGED_rest

(* What the caller of thread_dowait does with a stopped thread.            *)
dowait_done(t) ==
  /\ At(t, "dowait_done")
  /\ CASE op[t] = "suspend"   -> Finish(t)
       [] op[t] = "get_state" -> Goto(t, "getstatus") /\ UNCHANGED_op
       [] OTHER               -> Goto(t, "clear1") /\ UNCHANGED_op
  /\ UNCHANGED <<th, oncpu>> /\ UNCHANGED_rest

(* thread_getstatus or thread_setstatus: the target's registers are read   *)
(* or written while the target is held.                                    *)
thread_getstatus(t) ==
  /\ At(t, "getstatus")
  /\ Goto(t, "release")
  /\ UNCHANGED <<th, oncpu>> /\ UNCHANGED_op /\ UNCHANGED_rest

----------------------------------------------------------------------------
(* thread_halt and its callers thread_abort and thread_terminate.          *)
thread_abort(t) ==
  /\ AtUser(t)
  /\ \E u \in Target \ {t} : Begin(t, "abort", u, "halt")
  /\ UNCHANGED <<th, oncpu>> /\ UNCHANGED_rest

(* The victim is t itself: the rest happens on the way out of the kernel.  *)
TerminateSelf(r) ==
  IF r.active THEN [r EXCEPT !.active = FALSE, !.ast = @ \cup {"terminate"}] ELSE r

thread_terminate(t) ==
  /\ AtUser(t)
  /\ \E u \in Target :
       \/ /\ u = t \/ ~th[t].active
          /\ "terminate" \in Calls
          /\ th' = [th EXCEPT ![t] = TerminateSelf(@)]
          /\ UNCHANGED <<pc, op, tgt>>
       \/ /\ u # t /\ th[t].active /\ th[u].active
          /\ th' = [th EXCEPT ![u].active = FALSE]
          /\ Begin(t, "terminate", u, "halt")
  /\ UNCHANGED oncpu /\ UNCHANGED_rest

HaltLoop(f, t, u) ==
  IF "halt" \in f[u].ast /\ ~f[u].halted
  THEN th' = SleepOn(f, t, u) /\ Goto(t, "halt_sleep")
  ELSE th' = [f EXCEPT ![u].ast = @ \cup {"halt"}] /\ Goto(t, "dowait")

(* thread_halt returned KERN_SUCCESS, holding the target.                  *)
HaltDone(t) == IF op[t] = "abort" THEN Goto(t, "release") ELSE Goto(t, "reap")

thread_halt(t) ==
  /\ At(t, "halt")
  /\ LET u == tgt[t] IN
       \/ /\ th[u].halted
          /\ th' = [th EXCEPT ![u].suspend_count = @ + 1]
          /\ HaltDone(t) /\ UNCHANGED_op
       \/ /\ ~th[u].halted /\ ~MustHalt(t) /\ "halt" \in th[t].ast
          /\ th' = Wakeup(th, WakeActive(t), "interrupted")
          /\ Finish(t)
       \/ /\ ~th[u].halted /\ (MustHalt(t) \/ "halt" \notin th[t].ast)
          /\ HaltLoop([th EXCEPT ![u] = thread_hold(@)], t, u)
          /\ UNCHANGED_op
  /\ UNCHANGED oncpu /\ UNCHANGED_rest

halt_retest(t) ==
  /\ At(t, "halt_retest")
  /\ LET u == tgt[t] IN
       \/ th[u].halted /\ HaltDone(t) /\ UNCHANGED th
       \/ ~th[u].halted /\ th[t].result # "awakened" /\ ~MustHalt(t)
            /\ Goto(t, "release") /\ UNCHANGED th
       \/ ~th[u].halted /\ (th[t].result = "awakened" \/ MustHalt(t)) /\ HaltLoop(th, t, u)
  /\ UNCHANGED oncpu /\ UNCHANGED_op /\ UNCHANGED_rest

(* The dowait of a thread_abort was interrupted.                           *)
halt_fail(t) ==
  /\ At(t, "halt_fail")
  /\ LET u == tgt[t] IN
       th' = Wakeup([th EXCEPT ![u].ast = @ \ {"halt"}], WakeActive(u), "interrupted")
  /\ Goto(t, "release")
  /\ UNCHANGED oncpu /\ UNCHANGED_op /\ UNCHANGED_rest

(* Is the stopped thread at a clean point?  If not it is set running.      *)
halt_check(t) ==
  /\ At(t, "halt_check")
  /\ LET u == tgt[t] IN
       IF th[u].halted
       THEN HaltDone(t) /\ UNCHANGED th
       ELSE th' = [th EXCEPT ![u] = ForceRun(@)] /\ Goto(t, "dowait")
  /\ UNCHANGED oncpu /\ UNCHANGED_op /\ UNCHANGED_rest

(* Fault: deallocate_here is read after active has been reset.             *)
reap_NeverForced(t) ==
  /\ At(t, "reap")
  /\ unref' = IF op[t] \in {"force", "force_dying"} THEN unref ELSE unref \cup {tgt[t]}
  /\ Finish(t)
  /\ UNCHANGED <<th, oncpu, saved, inflight, swapper, dead, load>>

(* ipc_thread_terminate and thread_deallocate of the victim's reference to *)
(* itself.  A thread force-terminated while it was already terminating     *)
(* leaves that reference to its other terminator.                          *)
reap(t) ==
  /\ At(t, "reap")
  /\ unref' = IF op[t] = "force_dying" THEN unref ELSE unref \cup {tgt[t]}
  /\ Finish(t)
  /\ UNCHANGED <<th, oncpu, saved, inflight, swapper, dead, load>>

(* thread_force_terminate, called by task_terminate on each thread.        *)
thread_force_terminate(t) ==
  /\ AtUser(t)
  /\ "force" \in Calls
  /\ \E u \in Thread \ ({t} \cup dead) :
       /\ th[u].suspend_count < MaxHold
       /\ th' = [th EXCEPT ![u].active = FALSE]
       /\ Goto(t, "halt")
       /\ op' = [op EXCEPT ![t] = IF th[u].active THEN "force" ELSE "force_dying"]
       /\ tgt' = [tgt EXCEPT ![t] = u]
  /\ UNCHANGED oncpu /\ UNCHANGED_rest

(* A halt or terminate request is noticed on the way out of the kernel.    *)
thread_should_halt(t) ==
  /\ At(t, "user")
  /\ th[t].ast # {}
  /\ Goto(t, "halt_self")
  /\ UNCHANGED <<th, oncpu>> /\ UNCHANGED_op /\ UNCHANGED_rest

thread_halt_self(t) ==
  /\ At(t, "halt_self")
  /\ IF "terminate" \in th[t].ast
     THEN th' = [th EXCEPT ![t] = thread_hold(@)] /\ Goto(t, "enqueue")
     ELSE /\ th' = [th EXCEPT ![t].halted = TRUE, ![t].ast = @ \ {"halt"}]
          /\ Goto(t, "halted")
  /\ UNCHANGED oncpu /\ UNCHANGED_op /\ UNCHANGED_rest

(* The dying thread has queued itself for the reaper, which can find it    *)
(* from here on.                                                           *)
EnqueueReaper(t) ==
  /\ At(t, "enqueue")
  /\ th' = [th EXCEPT ![t].halted = TRUE]
  /\ Goto(t, "zombie")
  /\ UNCHANGED oncpu /\ UNCHANGED_op /\ UNCHANGED_rest

(* reaper_thread: thread_dowait, then thread_deallocate.  The reaper's own *)
(* sleep in thread_dowait is the guard.                                    *)
reaper_thread(u) ==
  /\ pc[u] \in {"zombie", "walks"}
  /\ u \notin unref
  /\ ~(NeedsWaiting(th[u]) /\ NotStopped(th[u]))
  /\ unref' = unref \cup {u}
  /\ UNCHANGED <<th, oncpu, pc, saved, inflight, swapper, dead, load>> /\ UNCHANGED_op

(* Fault: the stack of a swapped-out thread is not brought back.           *)
thread_deallocate_NoSwapin(u) ==
  /\ u \in unref \ dead
  /\ \A t \in Thread : tgt[t] # u
  /\ swapper # u
  /\ dead' = dead \cup {u}
  /\ UNCHANGED <<th, oncpu, pc, saved, inflight, swapper, unref, load>> /\ UNCHANGED_op

(* thread_deallocate of the last reference: operations in progress and the *)
(* swapper hold one each.                                                  *)
thread_deallocate(u) ==
  /\ u \in unref \ dead
  /\ \A t \in Thread : tgt[t] # u
  /\ swapper # u
  /\ dead' = dead \cup {u}
  /\ th' = LET r == IF th[u].state \ {"run", "swapped"} # {"susp"}
                    THEN Panic(th[u], "thread_deallocate") ELSE th[u]
           IN [th EXCEPT ![u] = IF "swapped" \in r.state THEN thread_doswapin(r) ELSE r]
  /\ UNCHANGED <<oncpu, pc, saved, inflight, swapper, unref, load>> /\ UNCHANGED_op

----------------------------------------------------------------------------
(* The swapping thread: a scan swaps out one candidate after another, and  *)
(* between scans the threads queued by thread_swapin come back.            *)
swapout_scan(u) ==
  /\ "swap" \in Calls
  /\ swapper = NoThread
  /\ u \notin dead
  /\ Swappable(th[u])
  /\ th' = [th EXCEPT ![u].state = @ \cup {"swapped"}, ![u].swap = "going_out"]
  /\ swapper' = u
  /\ UNCHANGED <<oncpu, pc, saved, inflight, dead, unref, load>> /\ UNCHANGED_op

Swapout(u) ==
  /\ swapper = u
  /\ th' = [th EXCEPT ![u] = thread_swapout(@)]
  /\ swapper' = NoThread
  /\ UNCHANGED <<oncpu, pc, saved, inflight, dead, unref, load>> /\ UNCHANGED_op

Swapin(u) ==
  /\ swapper = NoThread
  /\ th[u].swap = "coming_in"
  /\ th' = LET g == [th EXCEPT ![u] = thread_doswapin(@)]
           IN IF th[u].unsw THEN Wakeup(g, SwapState(u), "awakened") ELSE g
  /\ UNCHANGED <<oncpu, pc, saved, inflight, swapper, dead, unref, load>> /\ UNCHANGED_op

(* thread_swappable(u, TRUE) and thread_swappable(u, FALSE).  Its clients  *)
(* do not make a thread swappable while someone else is making it          *)
(* unswappable.                                                            *)
MayBecomeSwappable(u) ==
  "swappable" \in Calls /\ \A s \in Thread : ~(tgt[s] = u /\ op[s] = "unswappable")

SwapinAndSleep(t, u) ==
  /\ th' = [th EXCEPT ![u] = thread_swapin(@, TRUE),
                      ![t] = assert_wait(@, SwapState(u), FALSE, NoEvent)]
  /\ Goto(t, "swappable_sleep")

thread_swappable(t) ==
  /\ AtUser(t)
  /\ \E u \in Target :
       \/ /\ MayBecomeSwappable(u)
          /\ th[u].swap = "unswappable" /\ ~th[u].unsw
          /\ th' = [th EXCEPT ![u].swap = "in"]
          /\ UNCHANGED <<pc, op, tgt>>
       \/ /\ "unswappable" \in Calls
          /\ th[u].swap = "in" /\ ~th[u].unsw
          /\ th' = [th EXCEPT ![u].swap = "unswappable"]
          /\ UNCHANGED <<pc, op, tgt>>
       \/ /\ "unswappable" \in Calls
          /\ th[u].swap \notin {"in", "unswappable"} \/ th[u].unsw
          /\ SwapinAndSleep(t, u)
          /\ op' = [op EXCEPT ![t] = "unswappable"]
          /\ tgt' = [tgt EXCEPT ![t] = u]
  /\ UNCHANGED oncpu /\ UNCHANGED_rest

swappable_retest(t) ==
  /\ At(t, "swappable_retest")
  /\ IF th[tgt[t]].swap = "unswappable" /\ ~th[tgt[t]].unsw
     THEN Finish(t) /\ UNCHANGED th
     ELSE SwapinAndSleep(t, tgt[t]) /\ UNCHANGED_op
  /\ UNCHANGED oncpu /\ UNCHANGED_rest
----------------------------------------------------------------------------
KernelCall(t) ==
  \/ AssertWait(t) \/ Interrupt(t) \/ thread_suspend(t) \/ thread_resume(t)
  \/ thread_get_state(t) \/ thread_abort(t) \/ thread_terminate(t)
  \/ thread_force_terminate(t) \/ thread_swappable(t)

KernelStep(t) ==
  \/ thread_set_timeout(t) \/ WaitOver(t) \/ clear_wait1(t) \/ clear_wait2(t)
  \/ Hold(t) \/ Release(t)
  \/ thread_dowait(t) \/ dowait_retest(t) \/ dowait_done(t) \/ thread_getstatus(t)
  \/ thread_halt(t) \/ halt_retest(t) \/ halt_fail(t) \/ halt_check(t) \/ reap(t)
  \/ thread_should_halt(t) \/ thread_halt_self(t) \/ EnqueueReaper(t)
  \/ swappable_retest(t)

TimerStep(u) ==
  \/ TimerFires(u) \/ thread_timeout(u)
  \/ thread_timeout_clear1(u) \/ thread_timeout_clear2(u)

SwapperStep(u) == swapout_scan(u) \/ Swapout(u) \/ Swapin(u)

Next ==
  \/ \E t \in Thread :
       \/ KernelCall(t) \/ KernelStep(t) \/ thread_block(t) \/ Dispatch(t)
       \/ TimerStep(t) \/ SwapperStep(t)
       \/ reaper_thread(t) \/ thread_deallocate(t)
  \/ \E ev \in Event : thread_wakeup(ev) \/ thread_wakeup_one(ev)

Spec == Init /\ [][Next]_vars
----------------------------------------------------------------------------
(* The fields of struct thread keep their types: user_stop_count never     *)
(* becomes negative, and no more threads run than there are processors.    *)
TypeOK ==
  /\ \A t \in Thread :
       /\ th[t].state \subseteq StateBits
       /\ th[t].event \in WaitEvents
       /\ th[t].result \in WaitResults
       /\ th[t].ast \subseteq Asts
       /\ th[t].swap \in SwapStates
       /\ th[t].suspend_count \in Int /\ th[t].user_stop_count \in 0..MaxStop
       /\ th[t].armed \in Nat
  /\ oncpu \subseteq Thread /\ Cardinality(oncpu) <= NCPUS
  /\ tgt \in [Thread -> Thread \cup {NoThread}]
  /\ swapper \in Thread \cup {NoThread}
  /\ dead \subseteq unref /\ unref \subseteq Thread

(* None of the panic() calls of the modelled code is reached: assert_wait  *)
(* on a thread that waits already, thread_wakeup of a queued thread that   *)
(* does not wait, thread_continue and thread_halt in an unforeseen state,  *)
(* thread_swapin of a resident thread, thread_swapout of a thread that is  *)
(* not going out, "unstopped thread destroyed!", "the zombie walks!".      *)
NoPanic == \A t \in Thread : th[t].panic = {}

(* A runnable thread is always in exactly one place from which it will be  *)
(* run: on a run queue, on a processor or, swapped out, with the swapper.  *)
(* A thread dropped by all three would never run again, one in two places  *)
(* would run twice on one kernel stack.                                    *)
RunnableInOnePlace ==
  \A t \in Thread \ dead :
    LET r == th[t] IN
    /\ r.runq => t \notin oncpu
    /\ (r.runq \/ t \in oncpu) <=> ("run" \in r.state /\ "swapped" \notin r.state)
    /\ {"run", "swapped"} \subseteq r.state => r.swap \in {"want_in", "coming_in"}

(* "It is not possible to be waiting and runnable at the same time": the   *)
(* wait queue and the run queue share the chain field, so a thread with a  *)
(* wait_event is on no run queue, and it has TH_WAIT set or it would be    *)
(* skipped by every wakeup.                                                *)
WaitQueueExclusive ==
  \A t \in Thread : th[t].event # NoEvent => ~th[t].runq /\ "wait" \in th[t].state

(* TH_SWAPPED and swap_state, written by different routines, agree.        *)
SwapStateAgrees ==
  \A t \in Thread : "swapped" \in th[t].state <=> th[t].swap \notin {"in", "unswappable"}

(* The panics of the routines that put a thread to sleep, wake it, switch  *)
(* away from it and swap it are out of reach.                              *)
SwitchPanics == {"assert_wait", "thread_wakeup", "thread_continue", "thread_swapin",
                 "thread_swapout"}
NoSwitchPanic == \A t \in Thread : th[t].panic \cap SwitchPanics = {}

(* A thread is where its fields, its state bits and its swap_state say,    *)
(* although different routines write them under different locks, and the   *)
(* routines that depend on it do not panic.                                *)
ThreadInv ==
  TypeOK /\ NoSwitchPanic /\ RunnableInOnePlace /\ WaitQueueExclusive /\ SwapStateAgrees

(* suspend_count counts the holds: the user's (from the hold of the first  *)
(* thread_suspend to the release of the last thread_resume) and one for    *)
(* each operation between its hold and its release.  TH_SUSP is set        *)
(* exactly while a hold is outstanding.                                    *)
HoldingPcs == {"dowait", "dowait_sleep", "dowait_retest", "dowait_done", "getstatus",
               "halt_sleep", "halt_retest", "halt_fail", "halt_check",
               "clear1", "clear2", "release", "reap"}
Holders(u) == {t \in Thread : tgt[t] = u /\ pc[t] \in HoldingPcs
                               /\ op[t] \notin {"suspend", "resume", "interrupt"}}
UserHolds(u) ==
  (IF th[u].user_stop_count > 0 THEN 1 ELSE 0)
    - Cardinality({t \in Thread : tgt[t] = u /\ op[t] = "suspend" /\ pc[t] = "hold"})
    + Cardinality({t \in Thread : tgt[t] = u /\ op[t] = "resume"})
HoldsCounted ==
  \A u \in Thread :
    /\ th[u].active => th[u].suspend_count = UserHolds(u) + Cardinality(Holders(u))
    /\ "susp" \in th[u].state <=> th[u].suspend_count > 0

(* Every hold is counted, and no routine that relies on it panics.         *)
HoldsInv == HoldsCounted /\ NoPanic

(* thread_get_state and thread_set_state touch the saved registers of a    *)
(* thread that is not running and cannot start to.                         *)
Stopped(u) == u \notin oncpu /\ ~th[u].runq /\ "run" \notin th[u].state
StoppedWhileExamined == \A t \in Thread : pc[t] = "getstatus" => Stopped(tgt[t])

(* When thread_halt has succeeded, the thread is at the clean point: it    *)
(* stands in thread_halt_self and nowhere else in the kernel.              *)
AtCleanPoint(u) ==
  /\ th[u].halted
  /\ pc[u] \in {"halted", "zombie", "walks"} \/ (pc[u] = "user" /\ Stopped(u))
HaltedAtCleanPoint == \A t \in Thread : pc[t] = "reap" => AtCleanPoint(tgt[t])

(* A destroyed thread is referred to by nothing: no run queue, processor,  *)
(* wait queue, swap queue or pending timeout.                              *)
DeadIsForgotten ==
  \A u \in dead :
    /\ Stopped(u)
    /\ th[u].event = NoEvent
    /\ th[u].armed = 0 /\ inflight[u] = Idle
    /\ th[u].swap \in {"in", "unswappable"}

(* A timeout belongs to the wait it was set on: while one is pending the   *)
(* thread still waits, and there is never a second one.                    *)
TimerBelongsToWait ==
  \A t \in Thread :
    /\ th[t].armed = IF th[t].timer_set /\ inflight[t] = Idle THEN 1 ELSE 0
    /\ th[t].timer_set => "wait" \in th[t].state

----------------------------------------------------------------------------
(* Fairness.  A thread on a processor goes on; the clock interrupt's       *)
(* ast_check asks for a context switch and for thread_halt_self until they *)
(* happen, so a thread that passes through user mode again and again does  *)
(* not evade them; a thread on a run queue gets a processor, because       *)
(* waiting raises its priority; a thread on the swapin queue comes to its  *)
(* head; timers expire, the swapper and the reaper run, and what a thread  *)
(* waits for does happen.                                                  *)
Preempt(t) == pc[t] = "user" /\ thread_block(t)

Fairness ==
  /\ \A t \in Thread :
       /\ WF_vars(KernelStep(t)) /\ WF_vars(thread_block(t)) /\ SF_vars(Dispatch(t))
       /\ SF_vars(Preempt(t)) /\ SF_vars(thread_should_halt(t))
       /\ WF_vars(TimerStep(t)) /\ WF_vars(Swapout(t)) /\ SF_vars(Swapin(t))
       /\ WF_vars(reaper_thread(t)) /\ WF_vars(thread_deallocate(t))
  /\ \A ev \in Event : WF_vars(thread_wakeup(ev))

FairSpec == Spec /\ Fairness

(* thread_get_state, thread_abort and thread_terminate return, also when   *)
(* threads operate on one another in a cycle.                              *)
OperationsReturn ==
  \A t \in Thread :
    op[t] \in {"get_state", "abort", "terminate", "force", "unswappable"} ~> op[t] = "none"

(* A thread marked inactive, by itself or by a terminator, is destroyed:   *)
(* exactly one of its terminators drops the thread's own reference.        *)
DyingIsDestroyed == \A t \in Thread : ~th[t].active ~> t \in dead

----------------------------------------------------------------------------
(* The state table in the comment at the head of sched_prim.c, row by row; *)
(* a dispatch ends non-interruptibility.                                   *)
R == "run"
W == "wait"
S == "susp"
O == "swapped"
N == "noninterruptible"
Letters(r) == r.state \cup (IF r.intr THEN {} ELSE {N})

Row(from, to) == {from} \X to

RunningRows ==
  Row({R}, {{R,W}, {R,W,N}, {R,S}})
    \cup Row({R,S}, {{R,W,S}, {R,W,N,S}, {S}, {R}})
    \cup Row({R,N}, {{R,W,N}, {R,N,S}, {R}})
    \cup Row({R,N,S}, {{R,W,N,S}, {R,N}, {R,S}})
    \cup Row({R,W}, {{W}, {R}, {R,W,S}})
    \cup Row({R,W,N}, {{W,N}, {R,W,N,S}})
    \cup Row({R,W,S}, {{W,S}, {R,S}, {R,W}})
    \cup Row({R,W,N,S}, {{W,N,S}, {R,W,N}})

StoppedRows ==
  Row({W}, {{R}, {W,S}, {W,O}})
    \cup Row({W,N}, {{R,N}, {W,N,S}})
    \cup Row({W,N,S}, {{R,N,S}, {W,N}})
    \cup Row({W,O}, {{R,O}, {W,S,O}})
    \cup Row({S}, {{R}, {S,O}})
    \cup Row({S,O}, {{R,O}})
    \cup Row({W,S}, {{S}, {W}, {W,S,O}})
    \cup Row({W,S,O}, {{S,O}, {W,O}})
    \cup Row({R,O}, {{R,S,O}, {R}})
    \cup Row({R,S,O}, {{R,O}, {R,S}})

(* clear_wait of a non-interruptible thread that has not blocked yet: the  *)
(* table has RN and RNS here, the code makes the thread interruptible.     *)
CodeClearsTo == {<<{R,W,N}, {R}>>, <<{R,W,N,S}, {R,S}>>}

(* What thread_halt and thread_swappable add, which have no column.  A     *)
(* thread that thread_halt has set running may be released and held again, *)
(* by an abort that was interrupted, before the swapper has brought it in. *)
HaltMoves ==
  {<<{S}, {R,N,S}>>, <<{S,O}, {R,N,S,O}>>, <<{R,N,S,O}, {R,N,S}>>,
   <<{R,N,S,O}, {R,N,O}>>, <<{R,N,O}, {R,N,S,O}>>, <<{R,N,O}, {R,N}>>}
UnswappableMoves == {<<{W,O}, {W}>>, <<{S,O}, {S}>>, <<{W,S,O}, {W,S}>>}

StateTable ==
  RunningRows \cup StoppedRows \cup CodeClearsTo \cup HaltMoves \cup UnswappableMoves

Along(r, q) == Letters(r) = Letters(q) \/ <<Letters(r), Letters(q)>> \in StateTable

(* Every step of the kernel moves every thread along the table.            *)
FollowsStateTable == [][\A t \in Thread : Along(th[t], th'[t])]_vars
============================================================================

---------------------------- MODULE ThreadState ----------------------------
(***************************************************************************)
(* The thread state machine of kern/sched_prim.c, kern/thread.c and        *)
(* kern/thread_swap.c as operators on one thread record.  Each operator is *)
(* what the code does to the fields of struct thread while it holds that   *)
(* thread's lock; ThreadSched composes them into the kernel operations.    *)
(*                                                                         *)
(* state is the set of TH_RUN, TH_WAIT, TH_SUSP, TH_SWAPPED bits; swap is  *)
(* swap_state & TH_SW_STATE and unsw its TH_SW_MAKE_UNSWAPPABLE bit.       *)
(* runq stands for runq # RUN_QUEUE_NULL, armed for the thread_timeout     *)
(* entries of the callout table that name the thread, panic for the        *)
(* routines that have called panic() on behalf of the thread.              *)
(***************************************************************************)
EXTENDS Naturals, Integers, FiniteSets

StateBits == {"run", "wait", "susp", "swapped"}

SwapStates == {"in", "going_out", "out", "want_in", "coming_in", "unswappable"}

WaitResults == {"awakened", "timed_out", "interrupted"}

Asts == {"halt", "terminate"}

(* thread_create gives a stopped thread; every thread of the model has     *)
(* been released once and waits on a run queue for its first dispatch.     *)
NewThread(noEvent) ==
  [state |-> {"run"}, event |-> noEvent, intr |-> TRUE, result |-> "awakened",
   timer_set |-> FALSE, armed |-> 0, wake_active |-> FALSE,
   suspend_count |-> 0, user_stop_count |-> 0, halted |-> FALSE,
   ast |-> {}, active |-> TRUE, swap |-> "in", unsw |-> FALSE,
   runq |-> TRUE, panic |-> {}]

Panic(r, where) == [r EXCEPT !.panic = @ \cup {where}]

thread_setrun(r) == [r EXCEPT !.runq = TRUE]

----------------------------------------------------------------------------
(* Fault: a thread still on its way out is queued at once.                 *)
thread_swapin_Early(r, make_unswappable) ==
  LET q == CASE r.swap \in {"out", "going_out"} -> [r EXCEPT !.swap = "coming_in", !.unsw = FALSE]
             [] r.swap \in {"want_in", "coming_in"} -> r
             [] OTHER -> Panic(r, "thread_swapin")
  IN [q EXCEPT !.unsw = @ \/ make_unswappable]

(* Swapping: thread_swapin queues a swapped-out thread for the swapper or  *)
(* marks one on its way out as wanted back; it may not be asked for a      *)
(* resident thread.                                                        *)
thread_swapin(r, make_unswappable) ==
  LET q == CASE r.swap = "out"       -> [r EXCEPT !.swap = "coming_in", !.unsw = FALSE]
             [] r.swap = "going_out" -> [r EXCEPT !.swap = "want_in", !.unsw = FALSE]
             [] r.swap \in {"want_in", "coming_in"} -> r
             [] OTHER -> Panic(r, "thread_swapin")
  IN [q EXCEPT !.unsw = @ \/ make_unswappable]

(* The locked tail of thread_doswapin.                                     *)
thread_doswapin(r) ==
  LET q == [r EXCEPT !.swap = IF r.unsw THEN "unswappable" ELSE "in",
                     !.unsw = FALSE,
                     !.state = @ \ {"swapped"}]
  IN IF "run" \in q.state THEN thread_setrun(q) ELSE q

(* The locked tail of thread_swapout.                                      *)
thread_swapout(r) ==
  CASE r.swap = "going_out" -> [r EXCEPT !.swap = "out", !.unsw = FALSE]
    [] r.swap = "want_in"   -> thread_swapin([r EXCEPT !.swap = "out", !.unsw = FALSE], r.unsw)
    [] OTHER -> Panic(r, "thread_swapout")

(* The test swapout_scan makes; how long the thread has been idle is left  *)
(* to the scheduler's clock.                                               *)
Swappable(r) ==
  /\ r.state \cap {"run", "swapped"} = {}
  /\ r.swap = "in"
  /\ ~r.unsw
  /\ r.intr

----------------------------------------------------------------------------
(* Waiting: assert_wait on the current thread, and the awakening that      *)
(* clear_wait and thread_wakeup_prim share.                                *)
assert_wait(r, ev, interruptible, noEvent) ==
  IF r.event # noEvent
  THEN Panic(r, "assert_wait")
  ELSE [r EXCEPT !.event = ev, !.state = @ \cup {"wait"}, !.intr = interruptible]

(* Fault: untimeout is forgotten.                                          *)
CancelTimer_KeepsCallout(r) == [r EXCEPT !.timer_set = FALSE]

(* if (timer_set) { timer_set = FALSE; untimeout(...); }: untimeout takes  *)
(* one matching entry off the callout table, if there is one.              *)
CancelTimer(r) ==
  IF r.timer_set
  THEN [r EXCEPT !.timer_set = FALSE, !.armed = IF @ > 0 THEN @ - 1 ELSE 0]
  ELSE r

(* Fault: a suspended thread runs on, interruptible or not.                *)
Awaken_RunsSuspended(r, result) ==
  CASE r.state \in {{"wait"}, {"wait", "susp"}} ->
         thread_setrun([r EXCEPT !.state = (@ \ {"wait"}) \cup {"run"}, !.result = result])
    [] r.state = {"wait", "swapped"} ->
         thread_swapin([r EXCEPT !.state = {"run", "swapped"}, !.result = result], FALSE)
    [] OTHER ->
         IF "wait" \in r.state
         THEN [r EXCEPT !.state = @ \ {"wait"}, !.result = result, !.intr = TRUE]
         ELSE r

(* The switch on the state of a thread whose wait ends with this result.   *)
Awaken(r, result) ==
  CASE r.state = {"wait", "susp"} /\ r.intr ->
         [r EXCEPT !.state = {"susp"}, !.result = result]
    [] (r.state = {"wait", "susp"} /\ ~r.intr) \/ r.state = {"wait"} ->
         thread_setrun([r EXCEPT !.state = (@ \ {"wait"}) \cup {"run"}, !.result = result])
    [] r.state = {"wait", "swapped"} ->
         thread_swapin([r EXCEPT !.state = {"run", "swapped"}, !.result = result], FALSE)
    [] OTHER ->
         IF "wait" \in r.state
         THEN [r EXCEPT !.state = @ \ {"wait"}, !.result = result, !.intr = TRUE]
         ELSE r

----------------------------------------------------------------------------
(* Leaving the processor: thread_continue decides, from the state bits,    *)
(* whether the thread goes back on a run queue.  Stops is the case in      *)
(* which it tells whoever waits on wake_active.                            *)
Stops(r) == r.state \in {{"run", "susp"}, {"run", "wait", "susp"}} /\ r.intr

thread_continue(r) ==
  CASE Stops(r) -> [r EXCEPT !.state = @ \ {"run"}, !.wake_active = FALSE]
    [] ~Stops(r) /\ r.state \in {{"run"}, {"run", "susp"}} -> thread_setrun(r)
    [] ~Stops(r) /\ r.state \in {{"run", "wait"}, {"run", "wait", "susp"}} ->
         [r EXCEPT !.state = @ \ {"run"}]
    [] OTHER -> Panic(r, "thread_continue")

(* The part of thread_block that puts the chosen thread on the processor.  *)
Dispatched(r) == [r EXCEPT !.runq = FALSE, !.intr = TRUE]

----------------------------------------------------------------------------
(* Suspension.                                                             *)

(* Faults: only the first hold counts; halted survives the release.        *)
thread_hold_First(r) ==
  IF "susp" \in r.state THEN r
  ELSE [r EXCEPT !.suspend_count = @ + 1, !.state = @ \cup {"susp"}]
thread_release_KeepsHalted(r) ==
  LET q == [r EXCEPT !.suspend_count = @ - 1]
      c == [q EXCEPT !.state = @ \ {"susp"}]
  IN CASE q.suspend_count # 0 -> q
       [] q.suspend_count = 0 /\ c.state = {"swapped"} ->
            thread_swapin([c EXCEPT !.state = {"run", "swapped"}], FALSE)
       [] q.suspend_count = 0 /\ c.state = {} ->
            thread_setrun([c EXCEPT !.state = {"run"}])
       [] OTHER -> c

thread_hold(r) == [r EXCEPT !.suspend_count = @ + 1, !.state = @ \cup {"susp"}]

thread_release(r) ==
  LET q == [r EXCEPT !.suspend_count = @ - 1]
      c == [q EXCEPT !.halted = FALSE, !.state = @ \ {"susp"}]
  IN CASE q.suspend_count # 0 -> q
       [] q.suspend_count = 0 /\ c.state = {"swapped"} ->
            thread_swapin([c EXCEPT !.state = {"run", "swapped"}], FALSE)
       [] q.suspend_count = 0 /\ c.state = {} ->
            thread_setrun([c EXCEPT !.state = {"run"}])
       [] OTHER -> c

(* Fault: a thread that is about to block is taken for stopped.            *)
NeedsWaiting_NotWaiters(r) ==
  r.state \in {{"run", "susp"}, {"run", "susp", "swapped"}}

(* thread_dowait: the states in which the thread needs no waiting for, the *)
(* one in which it can be pulled off its run queue, and the test of the    *)
(* waiting loop.                                                           *)
Pullable(r) == r.state = {"run", "susp"} /\ r.intr /\ r.runq

Pulled(r) == [r EXCEPT !.state = {"susp"}, !.runq = FALSE, !.wake_active = FALSE]

NeedsWaiting(r) ==
  r.state \in {{"run", "susp"}, {"run", "susp", "swapped"},
               {"run", "wait", "susp"}, {"wait", "susp"}}

NotStopped(r) == r.state \cap {"run", "susp"} # {"susp"} \/ ~r.intr

(* thread_halt sets a stopped thread running again, uninterruptible until  *)
(* it is dispatched, so that it reaches a clean point.                     *)
ForceRun(r) ==
  CASE r.state = {"susp", "swapped"} ->
         thread_swapin([r EXCEPT !.state = @ \cup {"run"}, !.intr = FALSE], FALSE)
    [] r.state = {"susp"} ->
         thread_setrun([r EXCEPT !.state = @ \cup {"run"}, !.intr = FALSE])
    [] OTHER -> Panic(r, "thread_halt")
============================================================================

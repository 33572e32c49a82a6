---------------------------- MODULE ThreadSteps -----------------------------
(***************************************************************************)
(* The actions of ThreadSched that keep PlacesInv: the calls, the clock,   *)
(* the wakeups, the swapper, the reaper, thread_hold and thread_dowait.    *)
(* ThreadSchedProofs has thread_halt, the context switch and the theorems. *)
(***************************************************************************)
EXTENDS ThreadPlaces, TLAPS

\* The provers, in turn, of a leaf that names none.
USE SMTT(30), ZenonT(30), Z3T(30), SMTT(60), Z3T(60), SMTT(90)

\* clear_wait, thread_get_state and thread_abort are called.
LEMMA CallSteps ==
  ASSUME PlacesInv, NEW t \in Thread, Interrupt(t) \/ thread_get_state(t) \/ thread_abort(t)
  PROVE  Good
  <1>1. /\ AtUser(t) /\ UNCHANGED <<th, oncpu>> /\ UNCHANGED_rest
        /\ \E o, u, l : /\ u \in Thread \ {t} /\ Begin(t, o, u, l) /\ l \in {"clear1", "hold", "halt"}
    BY DEF Interrupt, thread_get_state, thread_abort, Target
  <1>2. PICK o, u, l : u \in Thread \ {t} /\ Begin(t, o, u, l) /\ l \in {"clear1", "hold", "halt"}
    BY <1>1
  <1> QED
    BY <1>1, <1>2, SameChanged, BeginStep DEF SwapPcs

\* thread_suspend counts, and stops the thread at the first count.
LEMMA SuspendStep ==
  ASSUME PlacesInv, NEW t \in Thread, thread_suspend(t)
  PROVE  Good
  <1>1. PICK u \in Thread :
          /\ th[u].user_stop_count < MaxStop
          /\ th' = [th EXCEPT ![u].user_stop_count = @ + 1]
          /\ IF th[u].user_stop_count = 0
             THEN Begin(t, "suspend", u, "hold")
             ELSE "suspend" \in Calls /\ UNCHANGED <<pc, op, tgt>>
    BY ZenonT(30) DEF thread_suspend, Target
  <1>2. AtUser(t) /\ UNCHANGED oncpu /\ UNCHANGED_rest
    BY DEF thread_suspend
  <1> DEFINE q == [th[u] EXCEPT !.user_stop_count = @ + 1]
  <1>3. th' = [th EXCEPT ![u] = q]
    BY <1>1
  <1>4. Typed(th[u])
    BY DEF PlacesInv, InPlace, Placed
  <1>5. th[u].user_stop_count + 1 \in 0..MaxStop
    BY <1>1, <1>4, StopAssumption DEF Typed
  <1>6. /\ Typed(q) /\ q.state = th[u].state /\ q.intr = th[u].intr /\ q.swap = th[u].swap
        /\ q.unsw = th[u].unsw /\ q.runq = th[u].runq /\ q.event = th[u].event
    BY <1>4, <1>5 DEF Typed, Fields
  <1> HIDE DEF q
  <1>7. DOMAIN th' = Thread /\ \A v \in Thread : Changed(th[v], th'[v], Spot(v))
    BY <1>3, <1>6, FieldsChanged, OneChanged, ZenonT(30)
  <1>8. CASE th[u].user_stop_count = 0
    BY <1>1, <1>2, <1>7, <1>8, BeginStep DEF OtherPcs, SwapPcs
  <1>9. CASE th[u].user_stop_count # 0
    BY <1>1, <1>2, <1>7, <1>9, UserStep
  <1> QED
    BY <1>8, <1>9

\* thread_resume takes a count back, and releases the thread at the last one.
LEMMA ResumeStep ==
  ASSUME PlacesInv, NEW t \in Thread, thread_resume(t)
  PROVE  Good
  <1>1. PICK u \in Thread :
          /\ th[u].user_stop_count > 0
          /\ th' = [th EXCEPT ![u].user_stop_count = @ - 1]
          /\ IF th[u].user_stop_count = 1
             THEN Begin(t, "resume", u, "release")
             ELSE "resume" \in Calls /\ UNCHANGED <<pc, op, tgt>>
    BY ZenonT(30) DEF thread_resume, Target
  <1>2. AtUser(t) /\ UNCHANGED oncpu /\ UNCHANGED_rest
    BY DEF thread_resume
  <1> DEFINE q == [th[u] EXCEPT !.user_stop_count = @ - 1]
  <1>3. th' = [th EXCEPT ![u] = q]
    BY <1>1
  <1>4. Typed(th[u])
    BY DEF PlacesInv, InPlace, Placed
  <1>5. th[u].user_stop_count - 1 \in 0..MaxStop
    BY <1>1, <1>4, StopAssumption DEF Typed
  <1>6. /\ Typed(q) /\ q.state = th[u].state /\ q.intr = th[u].intr /\ q.swap = th[u].swap
        /\ q.unsw = th[u].unsw /\ q.runq = th[u].runq /\ q.event = th[u].event
    BY <1>4, <1>5 DEF Typed, Fields
  <1> HIDE DEF q
  <1>7. DOMAIN th' = Thread /\ \A v \in Thread : Changed(th[v], th'[v], Spot(v))
    BY <1>3, <1>6, FieldsChanged, OneChanged, ZenonT(30)
  <1>8. CASE th[u].user_stop_count = 1
    BY <1>1, <1>2, <1>7, <1>8, BeginStep DEF OtherPcs, SwapPcs
  <1>9. CASE th[u].user_stop_count # 1
    BY <1>1, <1>2, <1>7, <1>9, UserStep
  <1> QED
    BY <1>8, <1>9

\* thread_terminate marks its victim inactive, or leaves the rest to the victim itself.
LEMMA TerminateStep ==
  ASSUME PlacesInv, NEW t \in Thread, thread_terminate(t)
  PROVE  Good
  <1>0. AtUser(t) /\ UNCHANGED oncpu /\ UNCHANGED_rest
    BY DEF thread_terminate
  <1>1. ASSUME NEW u \in Thread PROVE Typed(th[u])
    BY DEF PlacesInv, InPlace, Placed
  <1>2. CASE th' = [th EXCEPT ![t] = TerminateSelf(@)] /\ UNCHANGED <<pc, op, tgt>>
    <2> DEFINE q == TerminateSelf(th[t])
    <2>1. /\ Typed(q) /\ q.state = th[t].state /\ q.intr = th[t].intr /\ q.swap = th[t].swap
          /\ q.unsw = th[t].unsw /\ q.runq = th[t].runq /\ q.event = th[t].event
      <3>1. CASE th[t].active
        <4>1. q = [th[t] EXCEPT !.active = FALSE, !.ast = @ \cup {"terminate"}]
          BY <3>1 DEF TerminateSelf
        <4> QED
          BY <1>1, <4>1 DEF Typed, Fields, Asts
      <3>2. CASE ~th[t].active
        BY <1>1, <3>2 DEF TerminateSelf
      <3> QED
        BY <3>1, <3>2
    <2>2. th' = [th EXCEPT ![t] = q]
      BY <1>2
    <2> HIDE DEF q
    <2>3. DOMAIN th' = Thread /\ \A v \in Thread : Changed(th[v], th'[v], Spot(v))
      BY <2>1, <2>2, FieldsChanged, OneChanged, ZenonT(30)
    <2> QED
      BY <1>0, <1>2, <2>3, UserStep
  <1>3. ASSUME NEW u \in Thread \ {t}, th' = [th EXCEPT ![u].active = FALSE],
               Begin(t, "terminate", u, "halt")
        PROVE  Good
    <2> DEFINE q == [th[u] EXCEPT !.active = FALSE]
    <2>1. /\ Typed(q) /\ q.state = th[u].state /\ q.intr = th[u].intr /\ q.swap = th[u].swap
          /\ q.unsw = th[u].unsw /\ q.runq = th[u].runq /\ q.event = th[u].event
      BY <1>1 DEF Typed, Fields
    <2>2. th' = [th EXCEPT ![u] = q]
      BY <1>3
    <2> HIDE DEF q
    <2>3. DOMAIN th' = Thread /\ \A v \in Thread : Changed(th[v], th'[v], Spot(v))
      BY <2>1, <2>2, FieldsChanged, OneChanged, ZenonT(30)
    <2>4. Begin(t, "terminate", u, "halt") /\ u \in Thread /\ u # t /\ "halt" \notin SwapPcs
      BY <1>3 DEF SwapPcs
    <2> QED
      BY <1>0, <2>3, <2>4, BeginStep
  <1> QED
    BY <1>2, <1>3 DEF thread_terminate, Target

\* thread_force_terminate marks a thread of the task inactive.
LEMMA ForceStep ==
  ASSUME PlacesInv, NEW t \in Thread, thread_force_terminate(t)
  PROVE  Good
  <1>1. PICK u \in Thread \ {t} :
          /\ th' = [th EXCEPT ![u].active = FALSE]
          /\ Goto(t, "halt")
          /\ op' = [op EXCEPT ![t] = IF th[u].active THEN "force" ELSE "force_dying"]
          /\ tgt' = [tgt EXCEPT ![t] = u]
    BY ZenonT(30) DEF thread_force_terminate
  <1>2. /\ t \in oncpu /\ pc[t] \notin WaitPcs /\ UNCHANGED <<oncpu, swapper>>
        /\ dead' \subseteq unref' /\ unref' \subseteq Thread
    BY DEF thread_force_terminate, AtUser, At, Running, WaitPcs, UNCHANGED_rest, PlacesInv, Tables
  <1> DEFINE q == [th[u] EXCEPT !.active = FALSE]
  <1>3. Typed(th[u])
    BY DEF PlacesInv, InPlace, Placed
  <1>4. /\ Typed(q) /\ q.state = th[u].state /\ q.intr = th[u].intr /\ q.swap = th[u].swap
        /\ q.unsw = th[u].unsw /\ q.runq = th[u].runq /\ q.event = th[u].event
    BY <1>3 DEF Typed, Fields
  <1>5. th' = [th EXCEPT ![u] = q]
    BY <1>1
  <1> HIDE DEF q
  <1>6. DOMAIN th' = Thread /\ \A v \in Thread : Changed(th[v], th'[v], Spot(v))
    BY <1>4, <1>5, FieldsChanged, OneChanged, ZenonT(30)
  <1>7. Moves(t, "halt", u)
    BY <1>1 DEF PlacesInv, Tables, Moves, Goto
  <1> QED
    BY <1>2, <1>6, <1>7, ActorStep DEF SwapPcs

\* assert_wait by a client.
LEMMA AssertStep ==
  ASSUME PlacesInv, NEW t \in Thread, AssertWait(t)
  PROVE  Good
  <1>1. PICK o \in {"wait", "timed"}, ev \in {NoEvent} \cup ({"event"} \X Event), i \in BOOLEAN :
          /\ Begin(t, o, NoThread, IF o = "timed" THEN "set_timeout" ELSE "asserted")
          /\ th' = [th EXCEPT ![t] = assert_wait(@, ev, i, NoEvent)]
    BY ZenonT(30) DEF AssertWait
  <1>2. t \in oncpu /\ pc[t] \notin WaitPcs /\ UNCHANGED <<oncpu, swapper, dead, unref>>
    BY DEF AssertWait, AtUser, At, Running, WaitPcs, UNCHANGED_rest
  <1>3. PICK l \in {"set_timeout", "asserted"} : l = IF o = "timed" THEN "set_timeout" ELSE "asserted"
    OBVIOUS
  <1>4. Moves(t, l, NoThread)
    BY <1>1, <1>3, MovesAre DEF PlacesInv
  <1>5. /\ DOMAIN th' = Thread /\ th'[t] = assert_wait(th[t], ev, i, NoEvent)
        /\ \A v \in Thread \ {t} : th'[v] = th[v]
    BY <1>1 DEF PlacesInv, Tables
  <1>6. \A v \in Thread : Placed(th[v], Spot(v)) /\ Typed(th[v]) /\ Spot(v) \in Spots
    BY DEF PlacesInv, InPlace, Placed, Spot, Spots
  <1>7. \A v \in Thread \ {t} : Changed(th[v], th'[v], Spot(v))
    BY <1>5, <1>6, OtherFields
  <1>8. ev \in WaitEvents /\ ev \notin {WakeActive(t), SwapState(t)}
    BY DEF WaitEvents, NoEvent, WakeActive, SwapState
  <1>9. l \in WaitPcs /\ l \notin TargetPcs /\ l \notin OtherPcs /\ l \notin SwapPcs
    BY DEF WaitPcs, TargetPcs, OtherPcs, SwapPcs
  <1> QED
    BY <1>2, <1>4, <1>5, <1>7, <1>8, <1>9, SleepStep

\* A thread wants another one in memory and waits for it.
LEMMA SwapinSleepStep ==
  ASSUME PlacesInv, NEW t \in Thread, t \in oncpu, pc[t] \notin WaitPcs,
         NEW u \in Thread, u # t, th[u].swap \notin {"in", "unswappable"},
         SwapinAndSleep(t, u), Moves(t, "swappable_sleep", u), op'[t] = "unswappable",
         UNCHANGED <<oncpu, swapper, dead, unref>>
  PROVE  Good
  <1>1. th' = [th EXCEPT ![u] = thread_swapin(@, TRUE),
                         ![t] = assert_wait(@, SwapState(u), FALSE, NoEvent)]
    BY DEF SwapinAndSleep
  <1>2. /\ DOMAIN th' = Thread /\ th'[u] = thread_swapin(th[u], TRUE)
        /\ th'[t] = assert_wait(th[t], SwapState(u), FALSE, NoEvent)
        /\ \A v \in Thread \ {t, u} : th'[v] = th[v]
    BY <1>1, ZenonT(30) DEF PlacesInv, Tables
  <1>3. \A v \in Thread : Placed(th[v], Spot(v)) /\ Typed(th[v]) /\ Spot(v) \in Spots
    BY DEF PlacesInv, InPlace, Placed, Spot, Spots
  <1>4. Changed(th[u], th'[u], Spot(u)) /\ Pinned(th'[u])
    BY <1>2, <1>3, SwapinPinned, ZenonT(30)
  <1>5. \A v \in Thread \ {t, u} : Changed(th[v], th'[v], Spot(v))
    BY <1>2, <1>3, OtherFields
  <1>6. SwapState(u) \in WaitEvents /\ SwapState(u) \notin {WakeActive(t), SwapState(t)}
    BY DEF WaitEvents, WakeActive, SwapState
  <1>7. \A v \in Thread \ {t} : Changed(th[v], th'[v], Spot(v))
    BY <1>4, <1>5
  <1>8. "swappable_sleep" \in WaitPcs
    BY DEF WaitPcs
  <1> QED
    BY <1>2, <1>4, <1>6, <1>7, <1>8, SleepStep, ZenonT(30)

\* The swapper, or thread_swappable, changes what it may do with a thread: what is left
\* to show is that no one relies on what it takes away.
LEMMA SwapKeeps ==
  ASSUME PlacesInv, UNCHANGED <<pc, op, tgt, oncpu>>, DOMAIN th' = Thread,
         \A v \in Thread : /\ Placed(th'[v], Spot(v)) /\ Along(th[v], th'[v])
                           /\ "wait" \in th'[v].state => "wait" \in th[v].state
                           /\ th'[v].event \in {th[v].event, NoEvent},
         \A s \in Thread : pc[s] \in SwapPcs => Pinned(th'[tgt[s]]),
         swapper' \in Thread \cup {NoThread}, swapper' \in Thread => Leaving(th'[swapper']),
         dead' \subseteq unref', unref' \subseteq Thread
  PROVE  Good
  <1>1. Tables' /\ Processors'
    BY DEF PlacesInv, Tables, Processors
  <1>2. ASSUME NEW v \in Thread PROVE InPlace(v)'
    <2>1. InPlace(v)
      BY DEF PlacesInv
    <2>2. Placed(th'[v], Spot(v)')
      BY DEF Spot
    <2>3. th'[v].event \notin {WakeActive(v), SwapState(v)}
      BY <2>1 DEF InPlace, NoEvent, WakeActive, SwapState
    <2>4. v \in oncpu' /\ "wait" \in th'[v].state => pc'[v] \in WaitPcs
      BY <2>1 DEF InPlace
    <2>5. /\ pc'[v] \in TargetPcs => tgt'[v] \in Thread
          /\ pc'[v] \in OtherPcs => tgt'[v] # v
          /\ pc'[v] \in SwapPcs => op'[v] = "unswappable" /\ Pinned(th'[tgt'[v]])
      BY <2>1 DEF InPlace
    <2> QED
      BY <2>2, <2>3, <2>4, <2>5 DEF InPlace, WakeActive, SwapState
  <1> QED
    BY <1>1, <1>2 DEF PlacesInv, Good

\* thread_swappable.
LEMMA SwappableStep ==
  ASSUME PlacesInv, NEW t \in Thread, thread_swappable(t)
  PROVE  Good
  <1>0. /\ t \in oncpu /\ pc[t] \notin WaitPcs /\ UNCHANGED <<oncpu, swapper, dead, unref>>
        /\ dead' \subseteq unref' /\ unref' \subseteq Thread
    BY DEF thread_swappable, AtUser, At, Running, WaitPcs, UNCHANGED_rest, PlacesInv, Tables
  <1>1. \A v \in Thread : Placed(th[v], Spot(v)) /\ Typed(th[v]) /\ Spot(v) \in Spots
    BY DEF PlacesInv, InPlace, Placed, Spot, Spots
  <1>2. ASSUME NEW u \in Thread, MayBecomeSwappable(u), th[u].swap = "unswappable",
               th' = [th EXCEPT ![u].swap = "in"], UNCHANGED <<pc, op, tgt>>
        PROVE  Good
    <2> DEFINE r == th[u]
               q == [r EXCEPT !.swap = "in"]
    <2>1. DOMAIN th' = Thread /\ th'[u] = q /\ \A v \in Thread \ {u} : th'[v] = th[v]
      BY <1>2 DEF PlacesInv, Tables
    <2>2. /\ Typed(q) /\ q.state = r.state /\ q.intr = r.intr /\ q.swap = "in"
          /\ q.unsw = r.unsw /\ q.runq = r.runq /\ q.event = r.event
      BY <1>1 DEF Typed, Fields
    <2> HIDE DEF q
    <2>3. Bits(r.state, r.intr, r.swap, r.unsw, r.runq, Spot(u))
      BY <1>1 DEF Placed
    <2>4. Bits(q.state, q.intr, q.swap, q.unsw, q.runq, Spot(u))
      BY <1>2, <2>2, <2>3 DEF Bits, SwapStates
    <2>5. Placed(q, Spot(u)) /\ Along(th[u], q)
      BY <1>1, <2>2, <2>4 DEF Placed, Along, Letters
    <2>6. \A v \in Thread : /\ Placed(th'[v], Spot(v)) /\ Along(th[v], th'[v])
                            /\ "wait" \in th'[v].state => "wait" \in th[v].state
                            /\ th'[v].event \in {th[v].event, NoEvent}
      BY <1>1, <2>1, <2>2, <2>5 DEF Along
    <2>7. \A s \in Thread : pc[s] \in SwapPcs => Pinned(th'[tgt[s]])
      <3> SUFFICES ASSUME NEW s \in Thread, pc[s] \in SwapPcs PROVE Pinned(th'[tgt[s]])
        OBVIOUS
      <3>1. op[s] = "unswappable" /\ Pinned(th[tgt[s]]) /\ tgt[s] \in Thread
        BY DEF PlacesInv, InPlace, SwapPcs, TargetPcs
      <3>2. tgt[s] # u
        BY <1>2, <3>1 DEF MayBecomeSwappable
      <3> QED
        BY <2>1, <3>1, <3>2
    <2>8. swapper' \in Thread \cup {NoThread} /\ (swapper' \in Thread => Leaving(th'[swapper']))
      <3>1. swapper' = swapper /\ swapper \in Thread \cup {NoThread} /\ swapper # u
        BY <1>0, <1>2 DEF PlacesInv, Tables, Leaving
      <3> QED
        BY <2>1, <3>1 DEF PlacesInv
    <2> QED
      BY <1>0, <1>2, <2>1, <2>6, <2>7, <2>8, SwapKeeps
  <1>3. ASSUME NEW u \in Thread, th[u].swap = "in", ~th[u].unsw,
               th' = [th EXCEPT ![u].swap = "unswappable"], UNCHANGED <<pc, op, tgt>>
        PROVE  Good
    <2> DEFINE r == th[u]
               q == [r EXCEPT !.swap = "unswappable"]
    <2>1. th' = [th EXCEPT ![u] = q]
      BY <1>3
    <2>2. /\ Typed(q) /\ q.state = r.state /\ q.intr = r.intr /\ q.swap = "unswappable"
          /\ q.unsw = r.unsw /\ q.runq = r.runq /\ q.event = r.event
      BY <1>1 DEF Typed, Fields
    <2> HIDE DEF q
    <2>3. Bits(r.state, r.intr, r.swap, r.unsw, r.runq, Spot(u))
      BY <1>1 DEF Placed
    <2>4. Bits(q.state, q.intr, q.swap, q.unsw, q.runq, Spot(u))
      BY <1>3, <2>2, <2>3 DEF Bits, SwapStates
    <2>5. Placed(q, Spot(u)) /\ Along(th[u], q)
      BY <1>1, <2>2, <2>4 DEF Placed, Along, Letters
    <2>6. Changed(th[u], q, Spot(u))
      BY <1>3, <2>2, <2>5 DEF Changed, Pinned, Leaving
    <2>7. DOMAIN th' = Thread /\ \A v \in Thread : Changed(th[v], th'[v], Spot(v))
      BY <2>1, <2>6, OneChanged, ZenonT(30)
    <2> QED
      BY <1>0, <1>3, <2>7, QuietStep
  <1>4. ASSUME NEW u \in Thread, th[u].swap \notin {"in", "unswappable"} \/ th[u].unsw,
               SwapinAndSleep(t, u), op' = [op EXCEPT ![t] = "unswappable"],
               tgt' = [tgt EXCEPT ![t] = u]
        PROVE  Good
    <2>1. th[u].swap \notin {"in", "unswappable"}
      BY <1>1, <1>4 DEF Placed, Bits
    <2>2. u # t
      BY <1>0, <1>1, <2>1 DEF Placed, Bits, Spot
    <2>3. Moves(t, "swappable_sleep", u) /\ op'[t] = "unswappable"
      BY <1>4 DEF SwapinAndSleep, Goto, PlacesInv, Tables, Moves
    <2>4. SwapinAndSleep(t, u)
      BY <1>4
    <2> QED
      BY <1>0, <2>1, <2>2, <2>3, <2>4, SwapinSleepStep
  <1> QED
    BY <1>2, <1>3, <1>4 DEF thread_swappable, Target

\* A thread that waited for another one to be brought in looks again.
LEMMA SwappableRetestStep ==
  ASSUME PlacesInv, NEW t \in Thread, swappable_retest(t)
  PROVE  Good
  <1>0. /\ t \in oncpu /\ pc[t] = "swappable_retest" /\ UNCHANGED <<oncpu, swapper, dead, unref>>
        /\ dead' \subseteq unref' /\ unref' \subseteq Thread
    BY DEF swappable_retest, At, Running, UNCHANGED_rest, PlacesInv, Tables
  <1>1. pc[t] \notin WaitPcs /\ InPlace(t)
    BY <1>0 DEF WaitPcs, PlacesInv
  <1>2. tgt[t] \in Thread /\ tgt[t] # t /\ op[t] = "unswappable" /\ Pinned(th[tgt[t]])
    BY <1>0, <1>1 DEF InPlace, TargetPcs, OtherPcs, SwapPcs
  <1>3. CASE th[tgt[t]].swap = "unswappable" /\ ~th[tgt[t]].unsw
    BY <1>0, <1>1, <1>3, SameChanged, FinishStep DEF swappable_retest
  <1>4. CASE ~(th[tgt[t]].swap = "unswappable" /\ ~th[tgt[t]].unsw)
    <2>1. SwapinAndSleep(t, tgt[t]) /\ UNCHANGED_op
      BY <1>4 DEF swappable_retest
    <2>2. Moves(t, "swappable_sleep", tgt[t]) /\ op'[t] = "unswappable"
      BY <1>2, <2>1, MovesAre DEF SwapinAndSleep, PlacesInv
    <2>3. Placed(th[tgt[t]], Spot(tgt[t]))
      BY <1>2 DEF PlacesInv, InPlace
    <2>4. th[tgt[t]].swap \notin {"in", "unswappable"}
      BY <1>2, <1>4, <2>3 DEF Placed, Bits, Pinned
    <2> QED
      BY <1>0, <1>1, <1>2, <2>1, <2>2, <2>4, SwapinSleepStep
  <1> QED
    BY <1>3, <1>4

\* swapout_scan starts to write a thread out.
LEMMA ScanStep ==
  ASSUME PlacesInv, NEW u \in Thread, swapout_scan(u)
  PROVE  Good
  <1> DEFINE q == [th[u] EXCEPT !.state = @ \cup {"swapped"}, !.swap = "going_out"]
  <1>1. /\ Swappable(th[u]) /\ th' = [th EXCEPT ![u] = q] /\ swapper = NoThread /\ swapper' = u
        /\ UNCHANGED <<oncpu, pc, op, tgt, dead, unref>>
    BY ZenonT(30) DEF swapout_scan, UNCHANGED_op
  <1>2. Placed(th[u], Spot(u)) /\ Spot(u) \in Spots
    BY DEF PlacesInv, InPlace, Spot, Spots
  <1>3. Changed(th[u], q, Spot(u)) /\ Leaving(q)
    BY <1>1, <1>2, ScanChanged, ZenonT(30)
  <1> HIDE DEF q
  <1>4. DOMAIN th' = Thread /\ \A v \in Thread : Changed(th[v], th'[v], Spot(v))
    BY <1>1, <1>3, OneChanged, ZenonT(30)
  <1>5. Leaving(th'[u])
    BY <1>1, <1>3 DEF PlacesInv, Tables
  <1>6. \A v \in Thread : /\ Placed(th'[v], Spot(v)) /\ Along(th[v], th'[v])
                          /\ "wait" \in th'[v].state => "wait" \in th[v].state
                          /\ th'[v].event \in {th[v].event, NoEvent}
    BY <1>4 DEF Changed
  <1>7. \A s \in Thread : pc[s] \in SwapPcs => Pinned(th'[tgt[s]])
    BY <1>4 DEF Changed, PlacesInv, InPlace, SwapPcs, TargetPcs
  <1>8. dead' \subseteq unref' /\ unref' \subseteq Thread
    BY <1>1 DEF PlacesInv, Tables
  <1> QED
    BY <1>1, <1>4, <1>5, <1>6, <1>7, <1>8, SwapKeeps

\* thread_swapout ends: it still finds the thread on its way out.
LEMMA SwapoutStep ==
  ASSUME PlacesInv, NEW u \in Thread, Swapout(u)
  PROVE  Good
  <1> DEFINE q == thread_swapout(th[u])
  <1>1. /\ th' = [th EXCEPT ![u] = q] /\ swapper = u /\ swapper' = NoThread
        /\ UNCHANGED <<oncpu, pc, op, tgt, dead, unref>>
    BY DEF Swapout, UNCHANGED_op
  <1>2. \A v \in Thread : Placed(th[v], Spot(v)) /\ Typed(th[v]) /\ Spot(v) \in Spots
    BY DEF PlacesInv, InPlace, Placed, Spot, Spots
  <1>3. /\ Placed(q, Spot(u)) /\ Along(th[u], q) /\ q.state = th[u].state /\ q.event = th[u].event
        /\ Pinned(th[u]) => Pinned(q)
    BY <1>1, <1>2, SwapoutIs, ZenonT(30) DEF PlacesInv
  <1> HIDE DEF q
  <1>4. DOMAIN th' = Thread /\ th'[u] = q /\ \A v \in Thread \ {u} : th'[v] = th[v]
    BY <1>1 DEF PlacesInv, Tables
  <1>5. \A v \in Thread : /\ Placed(th'[v], Spot(v)) /\ Along(th[v], th'[v])
                          /\ "wait" \in th'[v].state => "wait" \in th[v].state
                          /\ th'[v].event \in {th[v].event, NoEvent}
    BY <1>2, <1>3, <1>4 DEF Along
  <1>6. \A s \in Thread : pc[s] \in SwapPcs => Pinned(th'[tgt[s]])
    BY <1>3, <1>4 DEF PlacesInv, InPlace, SwapPcs, TargetPcs
  <1>7. dead' \subseteq unref' /\ unref' \subseteq Thread /\ NoThread \notin Thread
    BY <1>1, NoThreadAssumption DEF PlacesInv, Tables
  <1> QED
    BY <1>1, <1>4, <1>5, <1>6, <1>7, SwapKeeps

\* thread_doswapin ends, and tells who waits for the thread to be in memory.
LEMMA SwapinStep ==
  ASSUME PlacesInv, NEW u \in Thread, Swapin(u)
  PROVE  Good
  <1> DEFINE q == thread_doswapin(th[u])
             g == [th EXCEPT ![u] = q]
  <1>1. /\ th' = (IF th[u].unsw THEN Wakeup(g, SwapState(u), "awakened") ELSE g)
        /\ swapper = NoThread /\ swapper' = NoThread /\ th[u].swap = "coming_in"
        /\ UNCHANGED <<oncpu, pc, op, tgt, dead, unref>>
    BY DEF Swapin, UNCHANGED_op
  <1>2. \A v \in Thread : Placed(th[v], Spot(v)) /\ Typed(th[v]) /\ Spot(v) \in Spots
    BY DEF PlacesInv, InPlace, Placed, Spot, Spots
  <1>3. "swapped" \in th[u].state
    BY <1>1, <1>2 DEF Placed, Bits
  <1>4. /\ Placed(q, Spot(u)) /\ Along(th[u], q) /\ q.event = th[u].event
        /\ "wait" \in q.state => "wait" \in th[u].state
        /\ Pinned(th[u]) => Pinned(q)
    BY <1>2, <1>3, DoswapinIs
  <1>5. DOMAIN g = Thread /\ g[u] = q /\ \A v \in Thread \ {u} : g[v] = th[v]
    BY DEF PlacesInv, Tables
  <1> HIDE DEF q, g
  <1>6. q.event # SwapState(u) /\ SwapState(u) # NoEvent
    BY <1>4, ZenonT(30) DEF PlacesInv, InPlace, SwapState, NoEvent
  <1>7. DOMAIN th' = Thread /\ th'[u] = q /\ \A v \in Thread \ {u} : Changed(th[v], th'[v], Spot(v))
    <2>1. CASE th[u].unsw
      <3>1. th' = [v \in DOMAIN g |-> IF g[v].event = SwapState(u) THEN Woken(g[v], "awakened") ELSE g[v]]
        BY <1>1, <2>1 DEF Wakeup
      <3>2. ASSUME NEW v \in Thread \ {u} PROVE Changed(th[v], th'[v], Spot(v))
        <4>1. CASE th[v].event = SwapState(u)
          <5>1. th'[v] = Woken(th[v], "awakened") /\ "awakened" \in WaitResults
            BY <1>5, <3>1, <4>1 DEF WaitResults
          <5> QED
            BY <1>2, <1>6, <4>1, <5>1, WokenChanged
        <4>2. CASE th[v].event # SwapState(u)
          <5>1. th'[v] = th[v]
            BY <1>5, <3>1, <4>2
          <5> QED
            BY <1>2, <5>1, OtherFields
        <4> QED
          BY <4>1, <4>2
      <3> QED
        BY <1>5, <1>6, <3>1, <3>2
    <2>2. CASE ~th[u].unsw
      <3>1. th' = g
        BY <1>1, <2>2
      <3> QED
        BY <1>2, <1>5, <3>1, OtherFields
    <2> QED
      BY <2>1, <2>2
  <1>8. \A v \in Thread : /\ Placed(th'[v], Spot(v)) /\ Along(th[v], th'[v])
                          /\ "wait" \in th'[v].state => "wait" \in th[v].state
                          /\ th'[v].event \in {th[v].event, NoEvent}
    BY <1>4, <1>7 DEF Changed
  <1>9. \A s \in Thread : pc[s] \in SwapPcs => Pinned(th'[tgt[s]])
    BY <1>4, <1>7 DEF PlacesInv, InPlace, SwapPcs, TargetPcs, Changed
  <1>10. dead' \subseteq unref' /\ unref' \subseteq Thread /\ NoThread \notin Thread
    BY <1>1, NoThreadAssumption DEF PlacesInv, Tables
  <1> QED
    BY <1>1, <1>7, <1>8, <1>9, <1>10, SwapKeeps

\* The reaper drops the reference of a dead thread to itself; the last reference brings
\* a swapped thread back in to be freed.
LEMMA ReaperStep ==
  ASSUME PlacesInv, NEW u \in Thread, reaper_thread(u)
  PROVE  Good
  <1>1. /\ UNCHANGED <<th, oncpu, pc, op, tgt, swapper>>
        /\ dead' \subseteq unref' /\ unref' \subseteq Thread
    BY DEF reaper_thread, UNCHANGED_op, PlacesInv, Tables
  <1> QED
    BY <1>1, SameChanged, QuietStep

\* thread_deallocate.
LEMMA DeallocateStep ==
  ASSUME PlacesInv, NEW u \in Thread, thread_deallocate(u)
  PROVE  Good
  <1> DEFINE r == IF th[u].state \ {"run", "swapped"} # {"susp"}
                  THEN Panic(th[u], "thread_deallocate") ELSE th[u]
             q == IF "swapped" \in r.state THEN thread_doswapin(r) ELSE r
  <1>1. /\ th' = [th EXCEPT ![u] = q] /\ UNCHANGED <<oncpu, pc, op, tgt, swapper>> /\ swapper # u
        /\ dead' \subseteq unref' /\ unref' \subseteq Thread
    BY DEF thread_deallocate, UNCHANGED_op, PlacesInv, Tables
  <1>2. \A v \in Thread : Placed(th[v], Spot(v)) /\ Typed(th[v]) /\ Spot(v) \in Spots
    BY DEF PlacesInv, InPlace, Placed, Spot, Spots
  <1>3. /\ Typed(r) /\ r.state = th[u].state /\ r.intr = th[u].intr /\ r.swap = th[u].swap
        /\ r.unsw = th[u].unsw /\ r.runq = th[u].runq /\ r.event = th[u].event
    <2>1. CASE th[u].state \ {"run", "swapped"} # {"susp"}
      <3>1. r = [th[u] EXCEPT !.panic = @ \cup {"thread_deallocate"}]
        BY <2>1 DEF Panic
      <3>2. Typed(th[u])
        BY <1>2
      <3> QED
        BY <3>1, <3>2 DEF Typed, Fields, SwitchPanics
    <2>2. CASE ~(th[u].state \ {"run", "swapped"} # {"susp"})
      BY <1>2, <2>2
    <2> QED
      BY <2>1, <2>2
  <1> HIDE DEF r
  <1>4. Placed(r, Spot(u)) /\ Along(th[u], r) /\ (Pinned(th[u]) => Pinned(r))
    BY <1>2, <1>3 DEF Placed, Along, Letters, Pinned
  <1>5. /\ Placed(q, Spot(u)) /\ Along(th[u], q) /\ q.event = th[u].event
        /\ "wait" \in q.state => "wait" \in th[u].state
        /\ Pinned(th[u]) => Pinned(q)
    <2>1. CASE "swapped" \in r.state
      <3>1. q = thread_doswapin(r)
        BY <2>1
      <3>2. /\ Placed(q, Spot(u)) /\ Along(r, q) /\ q.event = r.event
            /\ "wait" \in q.state => "wait" \in r.state
            /\ Pinned(r) => Pinned(q)
        BY <1>2, <1>4, <2>1, <3>1, DoswapinIs
      <3> HIDE DEF q
      <3> QED
        BY <1>3, <1>4, <3>2 DEF Along, Letters
    <2>2. CASE "swapped" \notin r.state
      BY <1>3, <1>4, <2>2
    <2> QED
      BY <2>1, <2>2
  <1> HIDE DEF q
  <1>6. DOMAIN th' = Thread /\ th'[u] = q /\ \A v \in Thread \ {u} : th'[v] = th[v]
    BY <1>1 DEF PlacesInv, Tables
  <1>7. \A v \in Thread : /\ Placed(th'[v], Spot(v)) /\ Along(th[v], th'[v])
                          /\ "wait" \in th'[v].state => "wait" \in th[v].state
                          /\ th'[v].event \in {th[v].event, NoEvent}
    BY <1>2, <1>5, <1>6 DEF Along
  <1>8. \A s \in Thread : pc[s] \in SwapPcs => Pinned(th'[tgt[s]])
    BY <1>5, <1>6 DEF PlacesInv, InPlace, SwapPcs, TargetPcs
  <1>9. swapper' \in Thread \cup {NoThread} /\ (swapper' \in Thread => Leaving(th'[swapper']))
    BY <1>1, <1>6 DEF PlacesInv, Tables
  <1> QED
    BY <1>1, <1>6, <1>7, <1>8, <1>9, SwapKeeps

\* The halves of clear_wait, whoever calls it.
LEMMA ClearWaitChanged ==
  ASSUME PlacesInv, NEW u \in Thread, NEW result \in WaitResults, NEW only, NEW ev,
         ClearWait1(u, result, only) \/ ClearWait2(u, ev, result)
  PROVE  DOMAIN th' = Thread /\ \A v \in Thread : Changed(th[v], th'[v], Spot(v))
  <1>1. Placed(th[u], Spot(u)) /\ Spot(u) \in Spots
    BY DEF PlacesInv, InPlace, Spot, Spots
  <1>2. CASE UNCHANGED th
    BY <1>2, SameChanged
  <1>3. CASE th[u].event = NoEvent /\ th' = [th EXCEPT ![u] = Cleared(@, result)]
    <2>1. Changed(th[u], Cleared(th[u], result), Spot(u))
      BY <1>1, <1>3, ClearedNoEvent
    <2>2. th' = [th EXCEPT ![u] = Cleared(th[u], result)]
      BY <1>3
    <2> QED
      BY <2>1, <2>2, OneChanged, ZenonT(30)
  <1>4. CASE th' = [th EXCEPT ![u] = Cleared([@ EXCEPT !.event = NoEvent], result)]
    <2>1. Changed(th[u], Cleared([th[u] EXCEPT !.event = NoEvent], result), Spot(u))
      BY <1>1, ClearedChanged
    <2>2. th' = [th EXCEPT ![u] = Cleared([th[u] EXCEPT !.event = NoEvent], result)]
      BY <1>4
    <2> QED
      BY <2>1, <2>2, OneChanged, ZenonT(30)
  <1> QED
    BY <1>2, <1>3, <1>4 DEF ClearWait1, ClearWait2

\* The clock expires a timeout.
LEMMA TimerSteps ==
  ASSUME PlacesInv, NEW u \in Thread, TimerStep(u)
  PROVE  Good
  <1>0. /\ UNCHANGED <<oncpu, pc, op, tgt, swapper>>
        /\ dead' \subseteq unref' /\ unref' \subseteq Thread
    BY ZenonT(30) DEF TimerStep, TimerFires, thread_timeout, thread_timeout_clear1, thread_timeout_clear2,
           UNCHANGED_op, PlacesInv, Tables
  <1>1. Typed(th[u])
    BY DEF PlacesInv, InPlace, Placed
  <1>2. CASE TimerFires(u)
    <2> DEFINE q == [th[u] EXCEPT !.armed = @ - 1]
    <2>1. th[u].armed - 1 \in Nat /\ th' = [th EXCEPT ![u] = q]
      BY <1>1, <1>2 DEF TimerFires, Typed
    <2>2. /\ Typed(q) /\ q.state = th[u].state /\ q.intr = th[u].intr /\ q.swap = th[u].swap
          /\ q.unsw = th[u].unsw /\ q.runq = th[u].runq /\ q.event = th[u].event
      BY <1>1, <2>1 DEF Typed, Fields
    <2> HIDE DEF q
    <2>3. DOMAIN th' = Thread /\ \A v \in Thread : Changed(th[v], th'[v], Spot(v))
      BY <2>1, <2>2, FieldsChanged, OneChanged, ZenonT(30)
    <2> QED
      BY <1>0, <2>3, QuietStep
  <1>3. CASE thread_timeout(u)
    <2> DEFINE q == [th[u] EXCEPT !.timer_set = FALSE]
    <2>1. th' = [th EXCEPT ![u] = q]
      BY <1>3 DEF thread_timeout
    <2>2. /\ Typed(q) /\ q.state = th[u].state /\ q.intr = th[u].intr /\ q.swap = th[u].swap
          /\ q.unsw = th[u].unsw /\ q.runq = th[u].runq /\ q.event = th[u].event
      BY <1>1 DEF Typed, Fields
    <2> HIDE DEF q
    <2>3. DOMAIN th' = Thread /\ \A v \in Thread : Changed(th[v], th'[v], Spot(v))
      BY <2>1, <2>2, FieldsChanged, OneChanged, ZenonT(30)
    <2> QED
      BY <1>0, <2>3, QuietStep
  <1>4. CASE thread_timeout_clear1(u)
    <2>1. ClearWait1(u, "timed_out", FALSE) /\ "timed_out" \in WaitResults
      BY <1>4, ZenonT(30) DEF thread_timeout_clear1, WaitResults
    <2>2. DOMAIN th' = Thread /\ \A v \in Thread : Changed(th[v], th'[v], Spot(v))
      BY <2>1, ClearWaitChanged, ZenonT(30)
    <2> QED
      BY <1>0, <2>2, QuietStep
  <1>5. CASE thread_timeout_clear2(u)
    <2>1. ClearWait2(u, inflight[u][2], "timed_out") /\ "timed_out" \in WaitResults
      BY <1>5 DEF thread_timeout_clear2, WaitResults
    <2>2. DOMAIN th' = Thread /\ \A v \in Thread : Changed(th[v], th'[v], Spot(v))
      BY <2>1, ClearWaitChanged
    <2> QED
      BY <1>0, <2>2, QuietStep
  <1> QED
    BY <1>2, <1>3, <1>4, <1>5 DEF TimerStep

\* thread_wakeup and thread_wakeup_one from wherever they are called.
LEMMA WakeupSteps ==
  ASSUME PlacesInv, NEW ev \in Event, thread_wakeup(ev) \/ thread_wakeup_one(ev)
  PROVE  Good
  <1>0. /\ UNCHANGED <<oncpu, pc, op, tgt, swapper>>
        /\ dead' \subseteq unref' /\ unref' \subseteq Thread
    BY DEF thread_wakeup, thread_wakeup_one, UNCHANGED_op, UNCHANGED_rest, PlacesInv, Tables
  <1>1. \A v \in Thread : Placed(th[v], Spot(v)) /\ Typed(th[v]) /\ Spot(v) \in Spots
    BY DEF PlacesInv, InPlace, Placed, Spot, Spots
  <1>2. <<"event", ev>> # NoEvent /\ "awakened" \in WaitResults
    BY DEF NoEvent, WaitResults
  <1>3. ASSUME NEW u \in Thread, th[u].event = <<"event", ev>>
        PROVE  Changed(th[u], Woken(th[u], "awakened"), Spot(u))
    BY <1>1, <1>2, <1>3, WokenChanged, ZenonT(30)
  <1>4. CASE thread_wakeup(ev)
    <2>1. th' = [u \in Thread |-> IF th[u].event = <<"event", ev>> THEN Woken(th[u], "awakened") ELSE th[u]]
      BY <1>4 DEF thread_wakeup, Wakeup, PlacesInv, Tables
    <2>2. ASSUME NEW v \in Thread PROVE Changed(th[v], th'[v], Spot(v))
      <3>1. CASE th[v].event = <<"event", ev>>
        BY <1>3, <2>1, <3>1
      <3>2. CASE th[v].event # <<"event", ev>>
        <4>1. th'[v] = th[v]
          BY <2>1, <3>2
        <4> QED
          BY <1>1, <4>1, OtherFields
      <3> QED
        BY <3>1, <3>2
    <2>3. PICK u \in Thread : th[u].event = <<"event", ev>>
      BY <1>4 DEF thread_wakeup
    <2>4. DOMAIN th' = Thread
      BY <2>1
    <2> QED
      BY <1>0, <2>2, <2>4, QuietStep
  <1>5. CASE thread_wakeup_one(ev)
    <2>1. PICK u \in Thread : /\ th[u].event = <<"event", ev>>
                              /\ th' = [th EXCEPT ![u] = Woken(th[u], "awakened")]
      BY <1>5, ZenonT(30) DEF thread_wakeup_one
    <2>2. DOMAIN th' = Thread /\ \A v \in Thread : Changed(th[v], th'[v], Spot(v))
      BY <1>3, <2>1, OneChanged, ZenonT(30)
    <2> QED
      BY <1>0, <2>2, QuietStep
  <1> QED
    BY <1>4, <1>5

\* A thread runs clear_wait on another one.
LEMMA ClearSteps ==
  ASSUME PlacesInv, NEW t \in Thread, clear_wait1(t) \/ clear_wait2(t)
  PROVE  Good
  <1>0. /\ t \in oncpu /\ pc[t] \in {"clear1", "clear2"} /\ UNCHANGED <<oncpu, swapper, unref, dead>>
        /\ dead' \subseteq unref' /\ unref' \subseteq Thread
    BY ZenonT(30) DEF clear_wait1, clear_wait2, At, Running, PlacesInv, Tables
  <1>1. tgt[t] \in Thread /\ pc[t] \notin WaitPcs
    BY <1>0 DEF PlacesInv, InPlace, TargetPcs, WaitPcs
  <1>2. DOMAIN th' = Thread /\ \A v \in Thread : Changed(th[v], th'[v], Spot(v))
    <2>1. "interrupted" \in WaitResults
      BY DEF WaitResults
    <2>2. CASE clear_wait1(t)
      <3>1. ClearWait1(tgt[t], "interrupted", TRUE)
        BY <2>2, ZenonT(30) DEF clear_wait1
      <3> QED
        BY <1>1, <2>1, <3>1, ClearWaitChanged, ZenonT(30)
    <2>3. CASE clear_wait2(t)
      <3>1. ClearWait2(tgt[t], saved[t], "interrupted")
        BY <2>3 DEF clear_wait2
      <3> QED
        BY <1>1, <2>1, <3>1, ClearWaitChanged
    <2> QED
      BY <2>2, <2>3
  <1>3. CASE Finish(t)
    BY <1>0, <1>1, <1>2, <1>3, FinishStep
  <1>4. ASSUME NEW l \in {"clear2", "halt_check"}, Goto(t, l), UNCHANGED_op PROVE Good
    <2>1. l \notin SwapPcs /\ l \notin OtherPcs
      BY DEF SwapPcs, OtherPcs
    <2> QED
      BY <1>0, <1>1, <1>2, <1>4, <2>1, GotoStep
  <1> QED
    BY <1>3, <1>4, ZenonT(30) DEF clear_wait1, clear_wait2, ClearDone

\* Other fields change after a routine.
LEMMA ChangedThen ==
  ASSUME NEW r, NEW q, NEW at \in Spots, Changed(r, q, at), NEW p, Typed(p),
         p.state = q.state, p.intr = q.intr, p.swap = q.swap, p.unsw = q.unsw,
         p.runq = q.runq, p.event = q.event
  PROVE  Changed(r, p, at)
  BY DEF Changed, Placed, Along, Letters, Pinned, Leaving

\* thread_sleep on the wake_active of u, to which something may have been done before.
LEMMA SleepOnStep ==
  ASSUME PlacesInv, NEW t \in Thread, t \in oncpu, pc[t] \notin WaitPcs,
         NEW u \in Thread, u # t, NEW f, DOMAIN f = Thread, Changed(th[u], f[u], Spot(u)),
         \A v \in Thread \ {u} : f[v] = th[v], th' = SleepOn(f, t, u),
         NEW l \in {"dowait_sleep", "halt_sleep"}, Moves(t, l, u),
         UNCHANGED <<oncpu, swapper, dead, unref>>
  PROVE  Good
  <1> DEFINE q == [f[u] EXCEPT !.wake_active = TRUE]
  <1>1. /\ DOMAIN th' = Thread /\ th'[u] = q /\ th'[t] = assert_wait(th[t], WakeActive(u), TRUE, NoEvent)
        /\ \A v \in Thread \ {t, u} : th'[v] = th[v]
    BY ZenonT(30) DEF SleepOn
  <1>2. \A v \in Thread : Placed(th[v], Spot(v)) /\ Typed(th[v]) /\ Spot(v) \in Spots
    BY DEF PlacesInv, InPlace, Placed, Spot, Spots
  <1>3. Typed(f[u])
    BY ZenonT(30) DEF Changed, Placed
  <1>4. /\ Typed(q) /\ q.state = f[u].state /\ q.intr = f[u].intr /\ q.swap = f[u].swap
        /\ q.unsw = f[u].unsw /\ q.runq = f[u].runq /\ q.event = f[u].event
    BY <1>3 DEF Typed, Fields
  <1> HIDE DEF q
  <1>5. Changed(th[u], th'[u], Spot(u))
    BY <1>1, <1>2, <1>4, ChangedThen, ZenonT(30)
  <1>6. \A v \in Thread \ {t, u} : Changed(th[v], th'[v], Spot(v))
    BY <1>1, <1>2, OtherFields
  <1>7. \A v \in Thread \ {t} : Changed(th[v], th'[v], Spot(v))
    BY <1>5, <1>6
  <1>8. WakeActive(u) \in WaitEvents /\ WakeActive(u) \notin {WakeActive(t), SwapState(t)}
    BY DEF WaitEvents, WakeActive, SwapState
  <1>9. l \in WaitPcs /\ l \notin SwapPcs
    BY DEF WaitPcs, SwapPcs
  <1> QED
    BY <1>1, <1>7, <1>8, <1>9, SleepStep, ZenonT(30)

\* The waiting loop of thread_dowait.
LEMMA DowaitLoopStep ==
  ASSUME PlacesInv, NEW t \in Thread, t \in oncpu, pc[t] \notin WaitPcs,
         tgt[t] \in Thread, tgt[t] # t, DowaitLoop(t, tgt[t]), UNCHANGED_op,
         UNCHANGED <<oncpu, swapper, unref, dead>>
  PROVE  Good
  <1>1. CASE NotStopped(th[tgt[t]])
    <2>1. th' = SleepOn(th, t, tgt[t]) /\ Moves(t, "dowait_sleep", tgt[t])
      BY <1>1, MovesAre DEF DowaitLoop, PlacesInv
    <2>2. DOMAIN th = Thread /\ Placed(th[tgt[t]], Spot(tgt[t])) /\ Typed(th[tgt[t]])
      BY DEF PlacesInv, Tables, InPlace, Placed
    <2>3. Changed(th[tgt[t]], th[tgt[t]], Spot(tgt[t]))
      BY <2>2, OtherFields DEF Spot, Spots
    <2> QED
      BY <2>1, <2>2, <2>3, SleepOnStep
  <1>2. CASE ~NotStopped(th[tgt[t]])
    <2>1. UNCHANGED th /\ Goto(t, "dowait_done")
      BY <1>2 DEF DowaitLoop
    <2> QED
      BY <2>1, SameChanged, GotoStep DEF OtherPcs, SwapPcs
  <1> QED
    BY <1>1, <1>2

\* thread_dowait: the thread itself, one to pull off its run queue, one to wait for.
LEMMA DowaitStep ==
  ASSUME PlacesInv, NEW t \in Thread, thread_dowait(t)
  PROVE  Good
  <1>0. /\ t \in oncpu /\ pc[t] = "dowait" /\ UNCHANGED <<oncpu, swapper, unref, dead>>
        /\ UNCHANGED_op
    BY DEF thread_dowait, At, Running, UNCHANGED_rest
  <1>1. tgt[t] \in Thread /\ pc[t] \notin WaitPcs
    BY <1>0 DEF PlacesInv, InPlace, TargetPcs, WaitPcs
  <1> DEFINE u == tgt[t]
  <1>2. ASSUME UNCHANGED th, NEW l \in {"block_self", "dowait_done"}, Goto(t, l) PROVE Good
    <2>1. l \notin OtherPcs /\ l \notin SwapPcs
      BY DEF OtherPcs, SwapPcs
    <2> QED
      BY <1>0, <1>1, <1>2, <2>1, SameChanged, GotoStep
  <1>3. CASE u # t /\ DowaitLoop(t, u)
    BY <1>0, <1>1, <1>3, DowaitLoopStep
  <1>4. ASSUME Pullable(th[u]), Goto(t, "dowait_done"),
               th' = LET g == [th EXCEPT ![u] = Pulled(@)]
                     IN IF th[u].wake_active THEN Wakeup(g, WakeActive(u), "awakened") ELSE g
        PROVE  Good
    <2>1. Placed(th[u], Spot(u)) /\ Spot(u) \in Spots
      BY <1>1 DEF PlacesInv, InPlace, Spot, Spots
    <2>2. Changed(th[u], Pulled(th[u]), Spot(u))
      BY <1>4, <2>1, PulledChanged
    <2>3. DOMAIN th' = Thread /\ \A v \in Thread : Changed(th[v], th'[v], Spot(v))
      <3>1. CASE th[u].wake_active
        <4>1. th' = Wakeup([th EXCEPT ![u] = Pulled(th[u])], WakeActive(u), "awakened")
          BY <1>4, <3>1
        <4>2. Pulled(th[u]).event # WakeActive(u)
          <5>1. InPlace(u) /\ Pulled(th[u]).event \in {th[u].event, NoEvent}
            BY <1>1, <2>2 DEF Changed, PlacesInv
          <5> QED
            BY <1>1, <5>1, OwnEvents
        <4>3. WakeActive(u) # NoEvent /\ "awakened" \in WaitResults
          BY DEF WakeActive, NoEvent, WaitResults
        <4> QED
          BY <1>1, <2>2, <4>1, <4>2, <4>3, WakeupChanged, ZenonT(30)
      <3>2. CASE ~th[u].wake_active
        <4>1. th' = [th EXCEPT ![u] = Pulled(th[u])]
          BY <1>4, <3>2
        <4> QED
          BY <1>1, <2>2, <4>1, OneChanged, ZenonT(30)
      <3> QED
        BY <3>1, <3>2
    <2>4. Goto(t, "dowait_done") /\ "dowait_done" \notin OtherPcs /\ "dowait_done" \notin SwapPcs
      BY <1>4 DEF OtherPcs, SwapPcs
    <2> QED
      BY <1>0, <1>1, <2>3, <2>4, GotoStep
  <1> QED
    BY <1>2, <1>3, <1>4 DEF thread_dowait

\* The waiting loop goes round, or the wait of a thread_abort was interrupted.
LEMMA DowaitRetestStep ==
  ASSUME PlacesInv, NEW t \in Thread, dowait_retest(t)
  PROVE  Good
  <1>0. /\ t \in oncpu /\ pc[t] = "dowait_retest" /\ UNCHANGED <<oncpu, swapper, unref, dead>>
        /\ UNCHANGED_op
    BY DEF dowait_retest, At, Running, UNCHANGED_rest
  <1>1. tgt[t] \in Thread /\ tgt[t] # t /\ pc[t] \notin WaitPcs
    BY <1>0 DEF PlacesInv, InPlace, TargetPcs, OtherPcs, WaitPcs
  <1>2. CASE UNCHANGED th /\ Goto(t, "halt_fail")
    BY <1>0, <1>1, <1>2, SameChanged, GotoStep DEF OtherPcs, SwapPcs
  <1>3. CASE DowaitLoop(t, tgt[t])
    BY <1>0, <1>1, <1>3, DowaitLoopStep
  <1> QED
    BY <1>2, <1>3 DEF dowait_retest

\* thread_hold and thread_release of the target.
LEMMA HoldSteps ==
  ASSUME PlacesInv, NEW t \in Thread, Hold(t) \/ Release(t)
  PROVE  Good
  <1>0. /\ t \in oncpu /\ pc[t] \in {"hold", "release"} /\ UNCHANGED <<oncpu, swapper, unref, dead>>
        /\ dead' \subseteq unref' /\ unref' \subseteq Thread
    BY DEF Hold, Release, At, Running, UNCHANGED_rest, PlacesInv, Tables
  <1>1. tgt[t] \in Thread /\ pc[t] \notin WaitPcs
    BY <1>0 DEF PlacesInv, InPlace, TargetPcs, WaitPcs
  <1>2. Placed(th[tgt[t]], Spot(tgt[t])) /\ Spot(tgt[t]) \in Spots
    BY <1>1 DEF PlacesInv, InPlace, Spot, Spots
  <1>3. CASE Hold(t)
    <2>1. th' = [th EXCEPT ![tgt[t]] = thread_hold(th[tgt[t]])] /\ Goto(t, "dowait") /\ UNCHANGED_op
      BY <1>3 DEF Hold
    <2>2. DOMAIN th' = Thread /\ \A v \in Thread : Changed(th[v], th'[v], Spot(v))
      BY <1>1, <1>2, <2>1, HoldChanged, OneChanged, ZenonT(30)
    <2> QED
      BY <1>0, <1>1, <2>1, <2>2, GotoStep DEF OtherPcs, SwapPcs
  <1>4. CASE Release(t)
    <2>1. th' = [th EXCEPT ![tgt[t]] = thread_release(th[tgt[t]])] /\ Finish(t)
      BY <1>4 DEF Release
    <2>2. DOMAIN th' = Thread /\ \A v \in Thread : Changed(th[v], th'[v], Spot(v))
      BY <1>1, <1>2, <2>1, ReleaseChanged, OneChanged, ZenonT(30)
    <2> QED
      BY <1>0, <1>1, <2>1, <2>2, FinishStep
  <1> QED
    BY <1>3, <1>4

\* The steps that change no thread.
LEMMA IdleSteps ==
  ASSUME PlacesInv, NEW t \in Thread,
         WaitOver(t) \/ dowait_done(t) \/ thread_getstatus(t) \/ thread_should_halt(t) \/ reap(t)
  PROVE  Good
  <1>0. /\ t \in oncpu /\ pc[t] \in {"woken", "dowait_done", "getstatus", "user", "reap"}
        /\ UNCHANGED <<th, oncpu, swapper>>
    BY DEF WaitOver, dowait_done, thread_getstatus, thread_should_halt, reap, At, Running, UNCHANGED_rest
  <1>1. pc[t] \notin WaitPcs
    BY <1>0 DEF WaitPcs
  <1>2. dead' \subseteq unref' /\ unref' \subseteq Thread
    <2>1. CASE reap(t)
      <3>1. tgt[t] \in Thread
        BY <2>1 DEF reap, At, PlacesInv, InPlace, TargetPcs
      <3> QED
        BY <2>1, <3>1 DEF reap, PlacesInv, Tables
    <2>2. CASE ~reap(t)
      BY <2>2 DEF WaitOver, dowait_done, thread_getstatus, thread_should_halt, UNCHANGED_rest,
                  PlacesInv, Tables
    <2> QED
      BY <2>1, <2>2
  <1>3. CASE Finish(t)
    BY <1>0, <1>1, <1>2, <1>3, SameChanged, FinishStep
  <1>4. ASSUME NEW l \in {"getstatus", "clear1", "release", "halt_self"}, Goto(t, l), UNCHANGED_op,
               UNCHANGED <<unref, dead>>, l # "halt_self" => pc[t] \in TargetPcs
        PROVE  Good
    <2>1. l \notin OtherPcs /\ l \notin SwapPcs /\ (l \in TargetPcs => tgt[t] \in Thread)
      BY <1>4, ZenonT(30) DEF OtherPcs, SwapPcs, TargetPcs, PlacesInv, InPlace
    <2>2. Goto(t, l) /\ UNCHANGED_op /\ UNCHANGED <<unref, dead>>
      BY <1>4
    <2> QED
      BY <1>0, <1>1, <2>1, <2>2, SameChanged, GotoStep, ZenonT(30)
  <1>5. CASE WaitOver(t) \/ reap(t)
    BY <1>3, <1>5, ZenonT(30) DEF WaitOver, reap
  <1>6. CASE dowait_done(t)
    <2>1. pc[t] \in TargetPcs /\ UNCHANGED <<unref, dead>>
      BY <1>6 DEF dowait_done, At, TargetPcs, UNCHANGED_rest
    <2>2. \/ Finish(t)
          \/ Goto(t, "getstatus") /\ UNCHANGED_op
          \/ Goto(t, "clear1") /\ UNCHANGED_op
      BY <1>6 DEF dowait_done
    <2> QED
      BY <1>3, <1>4, <2>1, <2>2
  <1>7. CASE thread_getstatus(t)
    BY <1>4, <1>7 DEF thread_getstatus, At, TargetPcs, UNCHANGED_rest
  <1>8. CASE thread_should_halt(t)
    BY <1>4, <1>8 DEF thread_should_halt, UNCHANGED_rest
  <1> QED
    BY <1>5, <1>6, <1>7, <1>8

\* thread_halt_self up to its thread_block.
LEMMA HaltSelfSteps ==
  ASSUME PlacesInv, NEW t \in Thread, thread_halt_self(t) \/ EnqueueReaper(t)
  PROVE  Good
  <1>0. /\ t \in oncpu /\ pc[t] \in {"halt_self", "enqueue"} /\ UNCHANGED <<oncpu, swapper, unref, dead>>
        /\ UNCHANGED_op /\ pc[t] \notin WaitPcs
    BY DEF thread_halt_self, EnqueueReaper, At, Running, UNCHANGED_rest, WaitPcs
  <1>1. Placed(th[t], Spot(t)) /\ Spot(t) \in Spots /\ Typed(th[t])
    BY ZenonT(30) DEF PlacesInv, InPlace, Spot, Spots, Placed
  <1>2. PICK q, l : /\ th' = [th EXCEPT ![t] = q] /\ Goto(t, l) /\ l \in {"enqueue", "halted", "zombie"}
                    /\ Changed(th[t], q, Spot(t))
    <2>1. CASE th' = [th EXCEPT ![t] = thread_hold(@)] /\ Goto(t, "enqueue")
      BY <1>1, <2>1, HoldChanged, ZenonT(30)
    <2>2. CASE th' = [th EXCEPT ![t].halted = TRUE, ![t].ast = @ \ {"halt"}] /\ Goto(t, "halted")
      <3> DEFINE q == [th[t] EXCEPT !.halted = TRUE, !.ast = @ \ {"halt"}]
      <3>1. /\ Typed(q) /\ q.state = th[t].state /\ q.intr = th[t].intr /\ q.swap = th[t].swap
            /\ q.unsw = th[t].unsw /\ q.runq = th[t].runq /\ q.event = th[t].event
        BY <1>1 DEF Typed, Fields
      <3>2. th' = [th EXCEPT ![t] = q]
        BY <1>1, <2>2, ZenonT(30) DEF PlacesInv, Tables, Typed, Fields
      <3> HIDE DEF q
      <3> QED
        BY <2>2, <3>1, <3>2, FieldsChanged, ZenonT(30)
    <2>3. CASE th' = [th EXCEPT ![t].halted = TRUE] /\ Goto(t, "zombie")
      <3> DEFINE q == [th[t] EXCEPT !.halted = TRUE]
      <3>1. /\ Typed(q) /\ q.state = th[t].state /\ q.intr = th[t].intr /\ q.swap = th[t].swap
            /\ q.unsw = th[t].unsw /\ q.runq = th[t].runq /\ q.event = th[t].event
        BY <1>1 DEF Typed, Fields
      <3>2. th' = [th EXCEPT ![t] = q]
        BY <2>3
      <3> HIDE DEF q
      <3> QED
        BY <2>3, <3>1, <3>2, FieldsChanged, ZenonT(30)
    <2> QED
      BY <2>1, <2>2, <2>3, ZenonT(30) DEF thread_halt_self, EnqueueReaper
  <1>3. DOMAIN th' = Thread /\ \A v \in Thread : Changed(th[v], th'[v], Spot(v))
    BY <1>2, OneChanged, ZenonT(30)
  <1>4. l \notin OtherPcs /\ l \notin SwapPcs /\ l \notin TargetPcs
    BY <1>2 DEF OtherPcs, SwapPcs, TargetPcs
  <1> QED
    BY <1>0, <1>2, <1>3, <1>4, GotoStep
=============================================================================

------------------------- MODULE ThreadSchedProofs --------------------------
(***************************************************************************)
(* Proofs about ThreadSched, for any number of threads and processors and  *)
(* any workload: whatever the threads do to one another, each stays where  *)
(* its fields say (ThreadInv) and moves along the table of sched_prim.c    *)
(* (FollowsStateTable).                                                    *)
(***************************************************************************)
EXTENDS ThreadSteps, FiniteSetTheorems, TLAPS

\* The provers, in turn, of a leaf that names none.
USE SMTT(30), ZenonT(30), Z3T(30), SMTT(60), Z3T(60), SMTT(90)

\* thread_halt has the target, waits for another thread_halt of it or asks it to halt;
\* something may have been done to the target before.
LEMMA HaltLoopStep ==
  ASSUME PlacesInv, NEW t \in Thread, t \in oncpu, pc[t] \notin WaitPcs,
         tgt[t] \in Thread, tgt[t] # t, NEW f, DOMAIN f = Thread,
         Changed(th[tgt[t]], f[tgt[t]], Spot(tgt[t])),
         \A v \in Thread \ {tgt[t]} : f[v] = th[v], HaltLoop(f, t, tgt[t]), UNCHANGED_op,
         UNCHANGED <<oncpu, swapper, unref, dead>>
  PROVE  Good
  <1> DEFINE u == tgt[t]
  <1>1. CASE th' = SleepOn(f, t, u) /\ Goto(t, "halt_sleep")
    <2>1. Moves(t, "halt_sleep", u)
      BY <1>1, MovesAre DEF PlacesInv
    <2> QED
      BY <1>1, <2>1, SleepOnStep
  <1>2. CASE th' = [f EXCEPT ![u].ast = @ \cup {"halt"}] /\ Goto(t, "dowait")
    <2> DEFINE q == [f[u] EXCEPT !.ast = @ \cup {"halt"}]
    <2>1. Typed(f[u]) /\ Spot(u) \in Spots
      BY DEF Changed, Placed, Spot, Spots
    <2>2. /\ Typed(q) /\ q.state = f[u].state /\ q.intr = f[u].intr /\ q.swap = f[u].swap
          /\ q.unsw = f[u].unsw /\ q.runq = f[u].runq /\ q.event = f[u].event
      BY <2>1 DEF Typed, Fields, Asts
    <2>3. DOMAIN th' = Thread /\ th'[u] = q /\ \A v \in Thread \ {u} : th'[v] = th[v]
      BY <1>2
    <2> HIDE DEF q
    <2>4. Changed(th[u], q, Spot(u))
      BY <2>1, <2>2, ChangedThen
    <2>5. \A v \in Thread \ {u} : Placed(th[v], Spot(v)) /\ Typed(th[v]) /\ Spot(v) \in Spots
      BY DEF PlacesInv, InPlace, Placed, Spot, Spots
    <2>6. \A v \in Thread \ {u} : Changed(th[v], th'[v], Spot(v))
      BY <2>3, <2>5, OtherFields
    <2>7. DOMAIN th' = Thread /\ \A v \in Thread : Changed(th[v], th'[v], Spot(v))
      BY <2>3, <2>4, <2>6
    <2> QED
      BY <1>2, <2>7, GotoStep DEF OtherPcs, SwapPcs
  <1> QED
    BY <1>1, <1>2 DEF HaltLoop

\* The steps of thread_halt that look at the target and go on.
LEMMA HaltDoneStep ==
  ASSUME PlacesInv, NEW t \in Thread, t \in oncpu, pc[t] \notin WaitPcs, tgt[t] \in Thread,
         Goto(t, "release") \/ HaltDone(t) \/ Goto(t, "dowait"),
         UNCHANGED_op, UNCHANGED <<oncpu, swapper, unref, dead>>,
         DOMAIN th' = Thread, \A v \in Thread : Changed(th[v], th'[v], Spot(v))
  PROVE  Good
  <1>1. PICK l \in {"release", "reap", "dowait"} : Goto(t, l)
    BY DEF HaltDone
  <1>2. l \notin OtherPcs /\ l \notin SwapPcs
    BY DEF OtherPcs, SwapPcs
  <1> QED
    BY <1>1, <1>2, GotoStep

\* thread_halt holds the target, or finds it halted, or finds its caller being halted.
LEMMA HaltStep ==
  ASSUME PlacesInv, NEW t \in Thread, thread_halt(t)
  PROVE  Good
  <1>0. /\ t \in oncpu /\ pc[t] = "halt" /\ UNCHANGED <<oncpu, swapper, unref, dead>>
        /\ dead' \subseteq unref' /\ unref' \subseteq Thread
    BY DEF thread_halt, At, Running, UNCHANGED_rest, PlacesInv, Tables
  <1>1. tgt[t] \in Thread /\ tgt[t] # t /\ pc[t] \notin WaitPcs
    BY <1>0 DEF PlacesInv, InPlace, TargetPcs, OtherPcs, WaitPcs
  <1> DEFINE u == tgt[t]
  <1>2. /\ Placed(th[u], Spot(u)) /\ Spot(u) \in Spots /\ Typed(th[u]) /\ DOMAIN th = Thread
        /\ Placed(th[t], Spot(t)) /\ Spot(t) \in Spots /\ Typed(th[t])
    BY <1>1 DEF PlacesInv, InPlace, Spot, Spots, Placed, Tables
  <1>3. CASE th' = [th EXCEPT ![u].suspend_count = @ + 1] /\ HaltDone(t) /\ UNCHANGED_op
    <2> DEFINE q == [th[u] EXCEPT !.suspend_count = @ + 1]
    <2>1. /\ Typed(q) /\ q.state = th[u].state /\ q.intr = th[u].intr /\ q.swap = th[u].swap
          /\ q.unsw = th[u].unsw /\ q.runq = th[u].runq /\ q.event = th[u].event
      BY <1>2 DEF Typed, Fields
    <2>2. th' = [th EXCEPT ![u] = q]
      BY <1>3
    <2> HIDE DEF q
    <2>3. Changed(th[u], q, Spot(u))
      BY <1>1, <2>1, FieldsChanged
    <2>4. DOMAIN th' = Thread /\ \A v \in Thread : Changed(th[v], th'[v], Spot(v))
      BY <1>1, <2>2, <2>3, OneChanged, ZenonT(30)
    <2> QED
      BY <1>0, <1>1, <1>3, <2>4, HaltDoneStep
  <1>4. CASE th' = Wakeup(th, WakeActive(t), "interrupted") /\ Finish(t)
    <2>1. Changed(th[t], th[t], Spot(t))
      BY <1>2, OtherFields
    <2>2. WakeActive(t) # NoEvent /\ "interrupted" \in WaitResults /\ th[t].event # WakeActive(t)
      BY OwnEvents DEF WaitResults, PlacesInv
    <2>3. th' = Wakeup([th EXCEPT ![t] = th[t]], WakeActive(t), "interrupted")
      BY <1>2, <1>4 DEF Wakeup
    <2>4. DOMAIN th' = Thread /\ \A v \in Thread : Changed(th[v], th'[v], Spot(v))
      BY <2>1, <2>2, <2>3, WakeupChanged, ZenonT(30)
    <2> QED
      BY <1>0, <1>1, <1>4, <2>4, FinishStep
  <1>5. CASE HaltLoop([th EXCEPT ![u] = thread_hold(@)], t, u) /\ UNCHANGED_op
    <2> DEFINE f == [th EXCEPT ![u] = thread_hold(th[u])]
    <2>1. /\ DOMAIN f = Thread /\ f[u] = thread_hold(th[u])
          /\ \A v \in Thread \ {u} : f[v] = th[v]
      BY <1>1, <1>2
    <2>2. Changed(th[u], f[u], Spot(u)) /\ HaltLoop(f, t, u)
      BY <1>2, <1>5, <2>1, HoldChanged
    <2> HIDE DEF f
    <2> QED
      BY <1>0, <1>1, <1>5, <2>1, <2>2, HaltLoopStep
  <1> QED
    BY <1>3, <1>4, <1>5 DEF thread_halt

\* The waiting loop of thread_halt goes round.
LEMMA HaltRetestStep ==
  ASSUME PlacesInv, NEW t \in Thread, halt_retest(t)
  PROVE  Good
  <1>0. /\ t \in oncpu /\ pc[t] = "halt_retest" /\ UNCHANGED <<oncpu, swapper, unref, dead>>
        /\ UNCHANGED_op
    BY DEF halt_retest, At, Running, UNCHANGED_rest
  <1>1. tgt[t] \in Thread /\ tgt[t] # t /\ pc[t] \notin WaitPcs
    BY <1>0 DEF PlacesInv, InPlace, TargetPcs, OtherPcs, WaitPcs
  <1>2. CASE (HaltDone(t) \/ Goto(t, "release")) /\ UNCHANGED th
    BY <1>0, <1>1, <1>2, SameChanged, HaltDoneStep
  <1>3. CASE HaltLoop(th, t, tgt[t])
    <2>1. DOMAIN th = Thread /\ Placed(th[tgt[t]], Spot(tgt[t])) /\ Typed(th[tgt[t]])
      BY <1>1 DEF PlacesInv, Tables, InPlace, Placed
    <2>2. Changed(th[tgt[t]], th[tgt[t]], Spot(tgt[t]))
      BY <2>1, OtherFields DEF Spot, Spots
    <2> QED
      BY <1>0, <1>1, <1>3, <2>1, <2>2, HaltLoopStep
  <1> QED
    BY <1>2, <1>3 DEF halt_retest

\* The dowait of a thread_abort was interrupted; a stopped thread is set running.
LEMMA HaltOtherSteps ==
  ASSUME PlacesInv, NEW t \in Thread, halt_fail(t) \/ halt_check(t)
  PROVE  Good
  <1>0. /\ t \in oncpu /\ pc[t] \in {"halt_fail", "halt_check"} /\ UNCHANGED_op
        /\ UNCHANGED <<oncpu, swapper, unref, dead>>
    BY DEF halt_fail, halt_check, At, Running, UNCHANGED_rest
  <1>1. tgt[t] \in Thread /\ pc[t] \notin WaitPcs
    BY <1>0 DEF PlacesInv, InPlace, TargetPcs, WaitPcs
  <1> DEFINE u == tgt[t]
  <1>2. /\ Placed(th[u], Spot(u)) /\ Spot(u) \in Spots /\ Typed(th[u]) /\ DOMAIN th = Thread
    BY <1>1 DEF PlacesInv, InPlace, Spot, Spots, Placed, Tables
  <1>3. CASE halt_fail(t)
    <2> DEFINE q == [th[u] EXCEPT !.ast = @ \ {"halt"}]
    <2>1. /\ Typed(q) /\ q.state = th[u].state /\ q.intr = th[u].intr /\ q.swap = th[u].swap
          /\ q.unsw = th[u].unsw /\ q.runq = th[u].runq /\ q.event = th[u].event
      BY <1>2 DEF Typed, Fields
    <2>2. th' = Wakeup([th EXCEPT ![u] = q], WakeActive(u), "interrupted") /\ Goto(t, "release")
      BY <1>3 DEF halt_fail
    <2> HIDE DEF q
    <2>3. Changed(th[u], q, Spot(u))
      BY <1>1, <2>1, FieldsChanged
    <2>4. WakeActive(u) # NoEvent /\ "interrupted" \in WaitResults /\ q.event # WakeActive(u)
      BY <1>1, <2>1, OwnEvents DEF WaitResults, PlacesInv
    <2>5. DOMAIN th' = Thread /\ \A v \in Thread : Changed(th[v], th'[v], Spot(v))
      BY <1>1, <2>2, <2>3, <2>4, WakeupChanged, ZenonT(30)
    <2> QED
      BY <1>0, <1>1, <2>2, <2>5, HaltDoneStep, ZenonT(30)
  <1>4. CASE HaltDone(t) /\ UNCHANGED th
    BY <1>0, <1>1, <1>4, SameChanged, HaltDoneStep
  <1>5. CASE th' = [th EXCEPT ![u] = ForceRun(@)] /\ Goto(t, "dowait")
    <2>1. th' = [th EXCEPT ![u] = ForceRun(th[u])] /\ Changed(th[u], ForceRun(th[u]), Spot(u))
      BY <1>2, <1>5, ForceRunChanged
    <2>2. DOMAIN th' = Thread /\ \A v \in Thread : Changed(th[v], th'[v], Spot(v))
      BY <1>1, <2>1, OneChanged, ZenonT(30)
    <2> QED
      BY <1>0, <1>1, <1>5, <2>2, HaltDoneStep
  <1> QED
    BY <1>3, <1>4, <1>5 DEF halt_check

\* thread_set_timeout on the wait that was just asserted.
LEMMA SetTimeoutStep ==
  ASSUME PlacesInv, NEW t \in Thread, thread_set_timeout(t)
  PROVE  Good
  <1>0. /\ t \in oncpu /\ pc[t] = "set_timeout" /\ UNCHANGED <<oncpu, swapper>> /\ UNCHANGED_op
        /\ Goto(t, "asserted") /\ dead' \subseteq unref' /\ unref' \subseteq Thread /\ Processors'
    BY DEF thread_set_timeout, At, Running, UNCHANGED_rest, PlacesInv, Tables, Processors
  <1>1. Placed(th[t], Spot(t)) /\ Spot(t) \in Spots /\ Typed(th[t]) /\ DOMAIN th = Thread
    BY DEF PlacesInv, InPlace, Spot, Spots, Placed, Tables
  <1>2. DOMAIN th' = Thread /\ \A v \in Thread : Changed(th[v], th'[v], Spot(v))
    <2>1. CASE "wait" \in th[t].state
      <3> DEFINE q == [th[t] EXCEPT !.timer_set = TRUE, !.armed = @ + 1]
      <3>1. /\ Typed(q) /\ q.state = th[t].state /\ q.intr = th[t].intr /\ q.swap = th[t].swap
            /\ q.unsw = th[t].unsw /\ q.runq = th[t].runq /\ q.event = th[t].event
        BY <1>1 DEF Typed, Fields
      <3>2. th' = [th EXCEPT ![t] = q]
        BY <1>1, <2>1 DEF thread_set_timeout, Typed, Fields
      <3> HIDE DEF q
      <3>3. Changed(th[t], q, Spot(t))
        BY <3>1, FieldsChanged
      <3> QED
        BY <3>2, <3>3, OneChanged, ZenonT(30)
    <2>2. CASE "wait" \notin th[t].state
      <3>1. UNCHANGED th
        BY <2>2 DEF thread_set_timeout
      <3> QED
        BY <3>1, SameChanged
    <2> QED
      BY <2>1, <2>2
  <1>3. Moves(t, "asserted", tgt[t])
    BY <1>0, MovesAre DEF PlacesInv
  <1>4. /\ Placed(th'[t], Spot(t)') /\ Along(th[t], th'[t])
        /\ Pinned(th[t]) => Pinned(th'[t])
        /\ Leaving(th[t]) => Leaving(th'[t])
    BY <1>0, <1>2 DEF Changed, Spot
  <1>5. th'[t].event \notin {WakeActive(t), SwapState(t)}
    <2>1. InPlace(t) /\ th'[t].event \in {th[t].event, NoEvent}
      BY <1>2 DEF Changed, PlacesInv
    <2> QED
      BY <2>1, OwnEvents
  <1>6. \A v \in Thread \ {t} : Changed(th[v], th'[v], Spot(v)) /\ (v \in oncpu' <=> v \in oncpu)
    BY <1>0, <1>2
  <1>7. "asserted" \in WaitPcs /\ "asserted" \notin TargetPcs /\ "asserted" \notin OtherPcs
        /\ "asserted" \notin SwapPcs
    BY DEF WaitPcs, TargetPcs, OtherPcs, SwapPcs
  <1> QED
    BY <1>0, <1>2, <1>3, <1>4, <1>5, <1>6, <1>7, StepKeeps

\* Where a thread goes on after thread_block.
LEMMA AfterBlockIs ==
  ASSUME NEW l \in DOMAIN AfterBlock
  PROVE  /\ AfterBlock[l] \in TargetPcs => l \in TargetPcs
         /\ AfterBlock[l] \in OtherPcs => l \in OtherPcs
         /\ AfterBlock[l] \in SwapPcs => l \in SwapPcs
  <1>1. l \in {"user", "asserted", "dowait_sleep", "halt_sleep", "swappable_sleep", "block_self",
               "halted", "zombie"}
    BY DEF AfterBlock
  <1>2. /\ AfterBlock["user"] = "user" /\ AfterBlock["asserted"] = "woken"
        /\ AfterBlock["halted"] = "user" /\ AfterBlock["zombie"] = "walks"
        /\ AfterBlock["dowait_sleep"] = "dowait_retest" /\ AfterBlock["halt_sleep"] = "halt_retest"
        /\ AfterBlock["swappable_sleep"] = "swappable_retest"
        /\ AfterBlock["block_self"] = "dowait_done"
    BY DEF AfterBlock
  <1>3. CASE l \in {"user", "asserted", "halted", "zombie"}
    <2>1. AfterBlock[l] \in {"user", "woken", "walks"}
      BY <1>2, <1>3
    <2> QED
      BY <2>1 DEF TargetPcs, OtherPcs, SwapPcs
  <1>4. CASE l \in {"dowait_sleep", "halt_sleep"}
    <2>1. AfterBlock[l] \in {"dowait_retest", "halt_retest"}
      BY <1>2, <1>4
    <2> QED
      BY <1>4, <2>1 DEF TargetPcs, OtherPcs, SwapPcs
  <1>5. CASE l \in {"swappable_sleep", "block_self"}
    BY <1>2, <1>5 DEF TargetPcs, OtherPcs, SwapPcs
  <1> QED
    BY <1>1, <1>3, <1>4, <1>5

\* thread_continue of a thread that leaves its processor, and the wakeup of those who
\* wait for it to stop.
LEMMA StoppingChanged ==
  ASSUME PlacesInv, NEW t \in Thread, t \in oncpu, th' = Stopping(th, t)
  PROVE  /\ DOMAIN th' = Thread /\ Changed(th[t], th'[t], "off")
         /\ \A v \in Thread \ {t} : Changed(th[v], th'[v], Spot(v))
  <1> DEFINE q == thread_continue(th[t])
             g == [th EXCEPT ![t] = q]
  <1>1. \A v \in Thread : Placed(th[v], Spot(v)) /\ Typed(th[v]) /\ Spot(v) \in Spots
    BY DEF PlacesInv, InPlace, Placed, Spot, Spots
  <1>2. DOMAIN g = Thread /\ g[t] = q /\ \A v \in Thread \ {t} : g[v] = th[v]
    BY DEF PlacesInv, Tables
  <1>3. Placed(th[t], "cpu")
    BY <1>1 DEF Spot
  <1>4. Changed(th[t], q, "off")
    BY <1>3, ContinueChanged
  <1>5. th' = g \/ th' = Wakeup(g, WakeActive(t), "awakened")
    BY DEF Stopping
  <1> HIDE DEF q, g
  <1>6. q.event # WakeActive(t) /\ WakeActive(t) # NoEvent /\ "awakened" \in WaitResults
    <2>1. q.event \in {th[t].event, NoEvent}
      BY <1>4 DEF Changed
    <2> QED
      BY <2>1, OwnEvents DEF PlacesInv, WaitResults
  <1>7. \A v \in Thread \ {t} : Changed(th[v], th[v], Spot(v))
    BY <1>1, OtherFields
  <1>8. CASE th' = g
    <2>1. th'[t] = q /\ \A v \in Thread \ {t} : th'[v] = th[v]
      BY <1>2, <1>8
    <2> QED
      BY <1>2, <1>4, <1>7, <1>8, <2>1
  <1>9. CASE th' = Wakeup(g, WakeActive(t), "awakened")
    <2>1. th' = [v \in Thread |-> IF g[v].event = WakeActive(t) THEN Woken(g[v], "awakened") ELSE g[v]]
      BY <1>2, <1>9 DEF Wakeup
    <2>2. th'[t] = q
      BY <1>2, <1>6, <2>1
    <2>3. ASSUME NEW v \in Thread \ {t} PROVE Changed(th[v], th'[v], Spot(v))
      <3>1. CASE th[v].event = WakeActive(t)
        <4>1. th'[v] = Woken(th[v], "awakened")
          BY <1>2, <2>1, <3>1
        <4> QED
          BY <1>1, <1>6, <3>1, <4>1, WokenChanged
      <3>2. CASE th[v].event # WakeActive(t)
        <4>1. th'[v] = th[v]
          BY <1>2, <2>1, <3>2
        <4> QED
          BY <1>7, <4>1
      <3> QED
        BY <3>1, <3>2
    <2> QED
      BY <1>4, <2>1, <2>2, <2>3
  <1> QED
    BY <1>5, <1>8, <1>9

\* thread_block: the thread leaves its processor, or nothing else is runnable.
LEMMA BlockStep ==
  ASSUME PlacesInv, NEW t \in Thread, thread_block(t)
  PROVE  Good
  <1>0. /\ t \in oncpu /\ pc[t] \in DOMAIN AfterBlock /\ Goto(t, AfterBlock[pc[t]]) /\ UNCHANGED_op
        /\ UNCHANGED swapper /\ dead' \subseteq unref' /\ unref' \subseteq Thread
    BY DEF thread_block, Running, UNCHANGED_rest, PlacesInv, Tables
  <1> DEFINE l == AfterBlock[pc[t]]
  <1>1. InPlace(t) /\ Tables /\ Processors
    BY DEF PlacesInv
  <1>2. Moves(t, l, tgt[t]) /\ op'[t] = op[t]
    BY <1>0, <1>1, MovesAre
  <1>3. /\ l \in TargetPcs => pc[t] \in TargetPcs
        /\ l \in OtherPcs => pc[t] \in OtherPcs
        /\ l \in SwapPcs => pc[t] \in SwapPcs
    BY <1>0, AfterBlockIs
  <1> HIDE DEF l
  <1>4. /\ l \in TargetPcs => tgt[t] \in Thread
        /\ l \in OtherPcs => tgt[t] # t
        /\ l \in SwapPcs => op[t] = "unswappable" /\ Pinned(th[tgt[t]]) /\ tgt[t] \in Thread
    BY <1>1, <1>3 DEF InPlace, SwapPcs, TargetPcs
  <1>5. ASSUME NEW at, Spot(t)' = at, Changed(th[t], th'[t], at), DOMAIN th' = Thread,
               \A v \in Thread \ {t} : Changed(th[v], th'[v], Spot(v)) /\ (v \in oncpu' <=> v \in oncpu),
               Processors', t \in oncpu' => "wait" \notin th[t].state
        PROVE  Good
    <2>1. /\ Placed(th'[t], Spot(t)') /\ Along(th[t], th'[t])
          /\ Pinned(th[t]) => Pinned(th'[t])
          /\ Leaving(th[t]) => Leaving(th'[t])
      BY <1>5 DEF Changed
    <2>2. th'[t].event \notin {WakeActive(t), SwapState(t)}
      <3>1. th'[t].event \in {th[t].event, NoEvent}
        BY <1>5 DEF Changed
      <3> QED
        BY <1>1, <3>1, OwnEvents
    <2>3. t \in oncpu' => "wait" \notin th'[t].state
      BY <1>5 DEF Changed
    <2>4. l \in SwapPcs => op'[t] = "unswappable" /\ Pinned(th'[tgt[t]])
      BY <1>2, <1>4, <1>5 DEF Changed
    <2>5. /\ DOMAIN th' = Thread /\ Processors'
          /\ \A v \in Thread \ {t} : Changed(th[v], th'[v], Spot(v)) /\ (v \in oncpu' <=> v \in oncpu)
      BY <1>5
    <2> QED
      BY <1>0, <1>2, <1>4, <2>1, <2>2, <2>3, <2>4, <2>5, StepKeeps
  <1>6. CASE NothingElse(t)
    <2>1. UNCHANGED <<th, oncpu>> /\ th[t].state = {"run"}
      BY <1>6 DEF thread_block, NothingElse
    <2>2. DOMAIN th' = Thread /\ \A v \in Thread : Changed(th[v], th'[v], Spot(v))
      BY <2>1, SameChanged
    <2>3. Spot(t)' = Spot(t) /\ Processors' /\ "wait" \notin th[t].state
      BY <1>1, <2>1 DEF Spot, Processors
    <2> QED
      BY <1>5, <2>1, <2>2, <2>3
  <1>7. CASE ~NothingElse(t)
    <2>1. th' = Stopping(th, t) /\ oncpu' = oncpu \ {t}
      BY <1>7 DEF thread_block
    <2>2. /\ DOMAIN th' = Thread /\ Changed(th[t], th'[t], "off")
          /\ \A v \in Thread \ {t} : Changed(th[v], th'[v], Spot(v))
      BY <1>0, <2>1, StoppingChanged
    <2>3. Spot(t)' = "off"
      BY <2>1 DEF Spot
    <2>4. IsFiniteSet(oncpu \ {t}) /\ Cardinality(oncpu \ {t}) = Cardinality(oncpu) - 1
      BY <1>0, <1>1, FS_RemoveElement DEF Processors
    <2>5. Cardinality(oncpu) \in Nat /\ NCPUS \in Nat
      BY <1>1, FS_CardinalityType, CpuAssumption DEF Processors
    <2>6. Processors'
      BY <1>1, <2>1, <2>4, <2>5 DEF Processors
    <2> QED
      BY <1>5, <2>1, <2>2, <2>3, <2>6
  <1> QED
    BY <1>6, <1>7

\* A thread comes to a free processor.
LEMMA DispatchStep ==
  ASSUME PlacesInv, NEW t \in Thread, Dispatch(t)
  PROVE  Good
  <1>0. /\ th[t].runq /\ Cardinality(oncpu) < NCPUS /\ oncpu' = oncpu \cup {t} /\ UNCHANGED pc
        /\ UNCHANGED_op /\ UNCHANGED swapper /\ dead' \subseteq unref' /\ unref' \subseteq Thread
    BY DEF Dispatch, UNCHANGED_rest, PlacesInv, Tables
  <1>1. InPlace(t) /\ Tables /\ Processors
    BY DEF PlacesInv
  <1>2. t \notin oncpu /\ Placed(th[t], "off")
    BY <1>0, <1>1, ZenonT(30) DEF InPlace, Placed, Bits, Spot
  <1>3. PICK q : th' = [th EXCEPT ![t] = q] /\ Changed(th[t], q, "cpu")
    BY <1>0, <1>2, DispatchedChanged, ZenonT(30) DEF Dispatch
  <1>4. DOMAIN th' = Thread /\ th'[t] = q /\ \A v \in Thread \ {t} : th'[v] = th[v]
    BY <1>1, <1>3 DEF Tables
  <1>5. \A v \in Thread : Placed(th[v], Spot(v)) /\ Typed(th[v]) /\ Spot(v) \in Spots
    BY DEF PlacesInv, InPlace, Placed, Spot, Spots
  <1>6. \A v \in Thread \ {t} : Changed(th[v], th'[v], Spot(v)) /\ (v \in oncpu' <=> v \in oncpu)
    BY <1>0, <1>4, <1>5, OtherFields
  <1>7. IsFiniteSet(oncpu \cup {t}) /\ Cardinality(oncpu \cup {t}) = Cardinality(oncpu) + 1
    BY <1>1, <1>2, FS_AddElement DEF Processors
  <1>8. Cardinality(oncpu) \in Nat /\ NCPUS \in Nat
    BY <1>1, FS_CardinalityType, CpuAssumption DEF Processors
  <1>9. Processors'
    BY <1>0, <1>1, <1>7, <1>8 DEF Processors
  <1>10. "wait" \notin th'[t].state
    <2>1. "wait" \notin th[t].state
      BY <1>0, <1>2 DEF Placed, Bits
    <2> QED
      BY <1>3, <1>4, <2>1 DEF Changed
  <1>11. /\ Placed(th'[t], Spot(t)') /\ Along(th[t], th'[t])
         /\ Pinned(th[t]) => Pinned(th'[t])
         /\ Leaving(th[t]) => Leaving(th'[t])
    BY <1>0, <1>3, <1>4 DEF Changed, Spot
  <1>12. th'[t].event \notin {WakeActive(t), SwapState(t)}
    <2>1. th'[t].event \in {th[t].event, NoEvent}
      BY <1>3, <1>4 DEF Changed
    <2> QED
      BY <1>1, <2>1, OwnEvents
  <1>13. Moves(t, pc[t], tgt[t]) /\ op'[t] = op[t]
    BY <1>0, <1>1 DEF Moves, Tables, UNCHANGED_op
  <1>14. /\ pc[t] \in TargetPcs => tgt[t] \in Thread
         /\ pc[t] \in OtherPcs => tgt[t] # t
         /\ pc[t] \in SwapPcs => op[t] = "unswappable" /\ Pinned(th[tgt[t]]) /\ tgt[t] \in Thread
    BY <1>1 DEF InPlace, SwapPcs, TargetPcs
  <1>15. pc[t] \in SwapPcs => op'[t] = "unswappable" /\ Pinned(th'[tgt[t]])
    BY <1>6, <1>11, <1>13, <1>14 DEF Changed
  <1> QED
    BY <1>0, <1>4, <1>6, <1>9, <1>10, <1>11, <1>12, <1>13, <1>14, <1>15, StepKeeps

\* The initial states.
LEMMA InitPlaces ==
  Init => PlacesInv
  <1> SUFFICES ASSUME Init PROVE PlacesInv
    OBVIOUS
  <1>1. load.threads \subseteq Thread
    BY WorkloadAssumption DEF Init
  <1>2. Tables
    BY <1>1, NoThreadAssumption DEF Init, Tables
  <1>3. Processors
    BY FS_EmptySet, CpuAssumption DEF Init, Processors
  <1>4. ASSUME NEW t \in Thread PROVE InPlace(t)
    <2>1. th[t] \in {NewThread(NoEvent), Destroyed} /\ Spot(t) = "off" /\ pc[t] \in {"user", "zombie"}
      BY DEF Init, Spot
    <2>2. NoEvent \in WaitEvents /\ 0 \in 0..MaxStop /\ NoEvent \notin {WakeActive(t), SwapState(t)}
      BY StopAssumption DEF WaitEvents, NoEvent, WakeActive, SwapState
    <2>3. pc[t] \notin TargetPcs /\ pc[t] \notin OtherPcs /\ pc[t] \notin SwapPcs /\ t \notin oncpu
      BY <2>1 DEF TargetPcs, OtherPcs, SwapPcs, Init
    <2>4. ASSUME NEW r \in {NewThread(NoEvent), Destroyed} PROVE Placed(r, "off") /\ r.event = NoEvent
      <3> DEFINE n == NewThread(NoEvent)
      <3>0. /\ DOMAIN n = Fields /\ n.event = NoEvent /\ n.result = "awakened" /\ n.ast = {}
            /\ n.suspend_count = 0 /\ n.user_stop_count = 0 /\ n.armed = 0 /\ n.panic = {}
            /\ n.intr = TRUE /\ n.swap = "in" /\ n.unsw = FALSE
            /\ n.state = {"run"} /\ n.runq = TRUE
        BY ZenonT(30) DEF NewThread, Fields
      <3> HIDE DEF n
      <3>1. r = n \/ r = [n EXCEPT !.state = {"susp"}, !.suspend_count = 1, !.runq = FALSE,
                                  !.active = FALSE, !.halted = TRUE]
        BY DEF Destroyed, n
      <3>2. /\ DOMAIN r = Fields /\ r.event = NoEvent /\ r.result = "awakened" /\ r.ast = {}
            /\ r.suspend_count \in {0, 1} /\ r.user_stop_count = 0 /\ r.armed = 0 /\ r.panic = {}
            /\ r.intr = TRUE /\ r.swap = "in" /\ r.unsw = FALSE
            /\ \/ r.state = {"run"} /\ r.runq = TRUE
               \/ r.state = {"susp"} /\ r.runq = FALSE
        <4>1. CASE r = n
          BY <3>0, <4>1
        <4>2. CASE r = [n EXCEPT !.state = {"susp"}, !.suspend_count = 1, !.runq = FALSE,
                                 !.active = FALSE, !.halted = TRUE]
          BY <3>0, <4>2 DEF Fields
        <4> QED
          BY <3>1, <4>1, <4>2, ZenonT(30)
      <3>3. Typed(r)
        BY <2>2, <3>2 DEF Typed, WaitResults
      <3>4. Bits(r.state, r.intr, r.swap, r.unsw, r.runq, "off")
        BY <3>2, ZenonT(30) DEF Bits, StateBits, SwapStates
      <3> QED
        BY <3>2, <3>3, <3>4 DEF Placed
    <2> QED
      BY <2>1, <2>2, <2>3, <2>4 DEF InPlace
  <1>5. swapper \notin Thread
    BY NoThreadAssumption DEF Init
  <1> QED
    BY <1>2, <1>3, <1>4, <1>5 DEF PlacesInv

\* Every step of the kernel keeps every thread in its place and on the table.
LEMMA NextGood ==
  ASSUME PlacesInv, [Next]_vars
  PROVE  Good
  <1>1. CASE UNCHANGED vars
    <2>1. UNCHANGED <<th, oncpu, pc, op, tgt, swapper, unref, dead>>
      BY <1>1 DEF vars
    <2>2. PlacesInv'
      BY <2>1 DEF PlacesInv, Tables, Processors, InPlace, Spot
    <2>3. \A v \in Thread : Along(th[v], th'[v])
      BY <2>1 DEF Along
    <2> QED
      BY <2>2, <2>3 DEF Good
  <1>2. ASSUME NEW t \in Thread, KernelCall(t) PROVE Good
    BY <1>2, AssertStep, CallSteps, SuspendStep, ResumeStep, TerminateStep, ForceStep, SwappableStep
       DEF KernelCall
  <1>3. ASSUME NEW t \in Thread, KernelStep(t) PROVE Good
    BY <1>3, SetTimeoutStep, ClearSteps, HoldSteps, IdleSteps, HaltSelfSteps, DowaitStep,
       DowaitRetestStep, HaltStep, HaltRetestStep, HaltOtherSteps, SwappableRetestStep
       DEF KernelStep
  <1>4. ASSUME NEW t \in Thread, SwapperStep(t) PROVE Good
    BY <1>4, ScanStep, SwapoutStep, SwapinStep DEF SwapperStep
  <1>5. ASSUME NEW ev \in Event, thread_wakeup(ev) \/ thread_wakeup_one(ev) PROVE Good
    BY <1>5, WakeupSteps
  <1> QED
    BY <1>1, <1>2, <1>3, <1>4, <1>5, BlockStep, DispatchStep, TimerSteps, ReaperStep, DeallocateStep
       DEF Next

\* Every thread stays in its place, whatever the threads, the clock, the swapper and
\* the reaper do.
THEOREM StayInPlace == Spec => []PlacesInv
  <1>1. PlacesInv /\ [Next]_vars => PlacesInv'
    BY NextGood DEF Good
  <1> QED
    BY <1>1, InitPlaces, PTL DEF Spec

\* A thread is on a processor, on a run queue or with the swapper exactly when its
\* state bits say so, on the wait queue only while it waits, and the panics of the
\* routines that switch, wake and swap threads are out of reach.
THEOREM ThreadsInPlace == Spec => []ThreadInv
  <1>1. PlacesInv => ThreadInv
    <2> SUFFICES ASSUME PlacesInv PROVE ThreadInv
      OBVIOUS
    <2>1. /\ Tables /\ Processors
          /\ \A t \in Thread : Placed(th[t], Spot(t)) /\ Typed(th[t])
      BY DEF PlacesInv, InPlace, Placed
    <2>2. TypeOK
      <3>1. \A t \in Thread : th[t].state \subseteq StateBits /\ th[t].swap \in SwapStates
        BY <2>1 DEF Placed, Bits
      <3> QED
        BY <2>1, <3>1 DEF TypeOK, Typed, Tables, Processors
    <2>3. NoSwitchPanic
      BY <2>1 DEF NoSwitchPanic, Typed
    <2>4. RunnableInOnePlace
      <3> SUFFICES ASSUME NEW t \in Thread
                   PROVE  /\ th[t].runq => t \notin oncpu
                          /\ (th[t].runq \/ t \in oncpu)
                               <=> ("run" \in th[t].state /\ "swapped" \notin th[t].state)
                          /\ {"run", "swapped"} \subseteq th[t].state
                               => th[t].swap \in {"want_in", "coming_in"}
        BY DEF RunnableInOnePlace
      <3>1. Spot(t) = "cpu" <=> t \in oncpu
        BY DEF Spot
      <3>2. Bits(th[t].state, th[t].intr, th[t].swap, th[t].unsw, th[t].runq, Spot(t))
        BY <2>1 DEF Placed
      <3> QED
        BY <3>1, <3>2 DEF Bits
    <2>5. WaitQueueExclusive
      <3> SUFFICES ASSUME NEW t \in Thread, th[t].event # NoEvent
                   PROVE  ~th[t].runq /\ "wait" \in th[t].state
        BY DEF WaitQueueExclusive
      <3>1. "wait" \in th[t].state /\ Spot(t) \in Spots
        BY <2>1 DEF Placed, Spot, Spots
      <3>2. Bits(th[t].state, th[t].intr, th[t].swap, th[t].unsw, th[t].runq, Spot(t))
        BY <2>1 DEF Placed
      <3> QED
        BY <3>1, <3>2 DEF Bits, Spots
    <2>6. SwapStateAgrees
      BY <2>1 DEF SwapStateAgrees, Placed, Bits
    <2> QED
      BY <2>2, <2>3, <2>4, <2>5, <2>6 DEF ThreadInv
  <1> QED
    BY <1>1, StayInPlace, PTL

\* Every step of the kernel moves every thread along the state table at the head of
\* sched_prim.c, corrected where the code differs.
THEOREM ThreadsFollowTable == Spec => FollowsStateTable
  <1>1. PlacesInv /\ [Next]_vars => [\A t \in Thread : Along(th[t], th'[t])]_vars
    BY NextGood DEF Good
  <1> QED
    BY <1>1, StayInPlace, PTL DEF Spec, FollowsStateTable
=============================================================================

---------------------------- MODULE ThreadPlaces ----------------------------
(***************************************************************************)
(* What each routine of ThreadState does to a thread that is where its     *)
(* fields say: it stays so, and its state bits move along the table at the *)
(* head of sched_prim.c.  Then the inductive invariant of ThreadSched that *)
(* says so of every thread, PlacesInv, and what is enough for a step of a  *)
(* given shape to keep it.  ThreadSteps and ThreadSchedProofs apply these  *)
(* facts to the actions.                                                   *)
(***************************************************************************)
EXTENDS ThreadSched, TLAPS

\* The provers, in turn, of a leaf that names none.
USE SMTT(30), ZenonT(30), Z3T(30), SMTT(60), Z3T(60), SMTT(90)

Fields == {"state", "event", "intr", "result", "timer_set", "armed", "wake_active",
           "suspend_count", "user_stop_count", "halted", "ast", "active", "swap", "unsw",
           "runq", "panic"}

(* The fields that the state machine does not look at. *)
Typed(r) ==
  /\ DOMAIN r = Fields
  /\ r.event \in WaitEvents /\ r.result \in WaitResults /\ r.ast \subseteq Asts
  /\ r.suspend_count \in Int /\ r.user_stop_count \in 0..MaxStop /\ r.armed \in Nat
  /\ r.panic \cap SwitchPanics = {}

(* A thread is in one place: on a processor (at), on a run queue, on its   *)
(* way through the swapper, waiting or suspended.  A non-interruptible     *)
(* thread waits in memory or has been set running and not dispatched yet.  *)
Spots == {"cpu", "off"}

Bits(state, intr, swap, unsw, runq, at) ==
  /\ state \subseteq StateBits /\ swap \in SwapStates
  /\ intr \in BOOLEAN /\ unsw \in BOOLEAN /\ runq \in BOOLEAN
  /\ runq => at # "cpu"
  /\ (runq \/ at = "cpu") <=> ("run" \in state /\ "swapped" \notin state)
  /\ "run" \in state /\ "swapped" \in state => swap \in {"want_in", "coming_in"}
  /\ "swapped" \in state <=> swap \notin {"in", "unswappable"}
  /\ unsw => swap \in {"want_in", "coming_in"}
  /\ "run" \in state /\ at # "cpu" => "wait" \notin state
  /\ ~intr => IF "wait" \in state THEN "swapped" \notin state ELSE "run" \in state /\ at # "cpu"
  /\ "run" \in state \/ "wait" \in state \/ "susp" \in state

Placed(r, at) ==
  /\ Typed(r)
  /\ Bits(r.state, r.intr, r.swap, r.unsw, r.runq, at)
  /\ r.event # NoEvent => "wait" \in r.state

(* thread_swappable(u, FALSE) keeps u in memory once it is there; the      *)
(* swapper is writing u out.                                               *)
Pinned(r) == r.swap = "unswappable" \/ (r.swap \in {"want_in", "coming_in"} /\ r.unsw)
Leaving(r) == r.swap \in {"going_out", "want_in"}

(* What every routine but assert_wait does to a thread, which is on a      *)
(* processor afterwards or not.                                            *)
Changed(r, q, at) ==
  /\ Placed(q, at) /\ Along(r, q)
  /\ "wait" \in q.state => "wait" \in r.state
  /\ q.event \in {r.event, NoEvent}
  /\ Pinned(r) => Pinned(q)
  /\ Leaving(r) => Leaving(q)

(* The sets of state bits a thread can have. *)
OnStates == {{R}, {R,W}, {R,S}, {R,W,S}}
OffStates == {{R}, {R,S}, {W}, {W,S}, {S}, {R,O}, {R,S,O}, {W,O}, {W,S,O}, {S,O}}

\* A thread has one of the sets of bits the table at the head of sched_prim.c names.
LEMMA StatesAre ==
  ASSUME NEW r, NEW at \in Spots, Placed(r, at)
  PROVE  /\ at = "cpu" => r.state \in OnStates
         /\ at # "cpu" => r.state \in OffStates
  <1> USE DEF Placed, Bits, R, W, S, O, StateBits, Spots
  <1>1. CASE at = "cpu"
    BY <1>1 DEF OnStates
  <1>2. CASE at # "cpu"
    <2>1. CASE "swapped" \in r.state
      BY <1>2, <2>1 DEF OffStates
    <2>2. CASE "swapped" \notin r.state
      BY <1>2, <2>2 DEF OffStates
    <2> QED
      BY <2>1, <2>2
  <1> QED
    BY <1>1, <1>2

(* The table has a row from x to y. *)
Tabled(x, y) == <<x, y>> \in StateTable

\* The rows from interruptible threads to interruptible threads.
LEMMA TableRows ==
  /\ Tabled({R}, {R,W}) /\ Tabled({R}, {R,S})
  /\ Tabled({R,S}, {R,W,S}) /\ Tabled({R,S}, {S}) /\ Tabled({R,S}, {R})
  /\ Tabled({R,W}, {W}) /\ Tabled({R,W}, {R}) /\ Tabled({R,W}, {R,W,S})
  /\ Tabled({R,W,S}, {W,S}) /\ Tabled({R,W,S}, {R,S}) /\ Tabled({R,W,S}, {R,W})
  /\ Tabled({W}, {R}) /\ Tabled({W}, {W,S}) /\ Tabled({W}, {W,O})
  /\ Tabled({S}, {R}) /\ Tabled({S}, {S,O})
  /\ Tabled({W,S}, {S}) /\ Tabled({W,S}, {W}) /\ Tabled({W,S}, {W,S,O})
  /\ Tabled({W,O}, {R,O}) /\ Tabled({W,O}, {W,S,O}) /\ Tabled({W,O}, {W})
  /\ Tabled({S,O}, {R,O}) /\ Tabled({S,O}, {S})
  /\ Tabled({W,S,O}, {S,O}) /\ Tabled({W,S,O}, {W,O}) /\ Tabled({W,S,O}, {W,S})
  /\ Tabled({R,O}, {R,S,O}) /\ Tabled({R,O}, {R})
  /\ Tabled({R,S,O}, {R,O}) /\ Tabled({R,S,O}, {R,S})
  <1> USE DEF Tabled, Row
  <1>1. /\ Tabled({R}, {R,W}) /\ Tabled({R}, {R,S})
        /\ Tabled({R,S}, {R,W,S}) /\ Tabled({R,S}, {S}) /\ Tabled({R,S}, {R})
        /\ Tabled({R,W}, {W}) /\ Tabled({R,W}, {R}) /\ Tabled({R,W}, {R,W,S})
        /\ Tabled({R,W,S}, {W,S}) /\ Tabled({R,W,S}, {R,S}) /\ Tabled({R,W,S}, {R,W})
    BY ZenonT(30) DEF StateTable, RunningRows
  <1>2. /\ Tabled({W}, {R}) /\ Tabled({W}, {W,S}) /\ Tabled({W}, {W,O})
        /\ Tabled({S}, {R}) /\ Tabled({S}, {S,O})
        /\ Tabled({W,S}, {S}) /\ Tabled({W,S}, {W}) /\ Tabled({W,S}, {W,S,O})
        /\ Tabled({W,O}, {R,O}) /\ Tabled({W,O}, {W,S,O}) /\ Tabled({S,O}, {R,O})
        /\ Tabled({W,S,O}, {S,O}) /\ Tabled({W,S,O}, {W,O})
        /\ Tabled({R,O}, {R,S,O}) /\ Tabled({R,O}, {R})
        /\ Tabled({R,S,O}, {R,O}) /\ Tabled({R,S,O}, {R,S})
    BY ZenonT(30) DEF StateTable, StoppedRows
  <1>3. Tabled({W,O}, {W}) /\ Tabled({S,O}, {S}) /\ Tabled({W,S,O}, {W,S})
    BY ZenonT(30) DEF StateTable, UnswappableMoves
  <1> QED
    BY <1>1, <1>2, <1>3, ZenonT(30)

\* The rows from or to non-interruptible threads.
LEMMA NoninterruptibleRows ==
  /\ Tabled({R} \cup {N}, {R,W} \cup {N}) /\ Tabled({R} \cup {N}, {R,S} \cup {N})
  /\ Tabled({R,S} \cup {N}, {R,W,S} \cup {N}) /\ Tabled({R,S} \cup {N}, {R} \cup {N})
  /\ Tabled({R,W} \cup {N}, {W} \cup {N}) /\ Tabled({R,W} \cup {N}, {R,W,S} \cup {N})
  /\ Tabled({R,W,S} \cup {N}, {W,S} \cup {N}) /\ Tabled({R,W,S} \cup {N}, {R,W} \cup {N})
  /\ Tabled({W} \cup {N}, {R} \cup {N}) /\ Tabled({W} \cup {N}, {W,S} \cup {N})
  /\ Tabled({W,S} \cup {N}, {R,S} \cup {N}) /\ Tabled({W,S} \cup {N}, {W} \cup {N})
  /\ Tabled({R,S,O} \cup {N}, {R,S} \cup {N}) /\ Tabled({R,S,O} \cup {N}, {R,O} \cup {N})
  /\ Tabled({R,O} \cup {N}, {R,S,O} \cup {N}) /\ Tabled({R,O} \cup {N}, {R} \cup {N})
  /\ Tabled({R} \cup {N}, {R}) /\ Tabled({R,S} \cup {N}, {R,S})
  /\ Tabled({R,W} \cup {N}, {R}) /\ Tabled({R,W,S} \cup {N}, {R,S})
  /\ Tabled({R}, {R,W} \cup {N}) /\ Tabled({R,S}, {R,W,S} \cup {N})
  /\ Tabled({S}, {R,S} \cup {N}) /\ Tabled({S,O}, {R,S,O} \cup {N})
  <1>1. /\ {R} \cup {N} = {R,N} /\ {W} \cup {N} = {W,N} /\ {R,W} \cup {N} = {R,W,N}
        /\ {R,S} \cup {N} = {R,N,S} /\ {W,S} \cup {N} = {W,N,S} /\ {R,W,S} \cup {N} = {R,W,N,S}
        /\ {R,O} \cup {N} = {R,N,O} /\ {R,S,O} \cup {N} = {R,N,S,O}
    OBVIOUS
  <1>2. /\ Tabled({R,N}, {R,W,N}) /\ Tabled({R,N}, {R,N,S}) /\ Tabled({R,N}, {R})
        /\ Tabled({R,N,S}, {R,W,N,S}) /\ Tabled({R,N,S}, {R,N}) /\ Tabled({R,N,S}, {R,S})
        /\ Tabled({R,W,N}, {W,N}) /\ Tabled({R,W,N}, {R,W,N,S})
        /\ Tabled({R,W,N,S}, {W,N,S}) /\ Tabled({R,W,N,S}, {R,W,N})
        /\ Tabled({R}, {R,W,N}) /\ Tabled({R,S}, {R,W,N,S})
    BY ZenonT(30) DEF Tabled, Row, StateTable, RunningRows
  <1>3. /\ Tabled({W,N}, {R,N}) /\ Tabled({W,N}, {W,N,S})
        /\ Tabled({W,N,S}, {R,N,S}) /\ Tabled({W,N,S}, {W,N})
    BY ZenonT(30) DEF Tabled, Row, StateTable, StoppedRows
  <1>4. /\ Tabled({R,W,N}, {R}) /\ Tabled({R,W,N,S}, {R,S})
        /\ Tabled({S}, {R,N,S}) /\ Tabled({S,O}, {R,N,S,O}) /\ Tabled({R,N,S,O}, {R,N,S})
        /\ Tabled({R,N,S,O}, {R,N,O}) /\ Tabled({R,N,O}, {R,N,S,O}) /\ Tabled({R,N,O}, {R,N})
    BY ZenonT(30) DEF Tabled, StateTable, CodeClearsTo, HaltMoves
  <1> QED
    BY <1>1, <1>2, <1>3, <1>4

\* A thread moves along the table by a row for its bits and its interruptibility.
LEMMA AlongRow ==
  ASSUME NEW r, NEW q
  PROVE  /\ r.state = q.state /\ r.intr = q.intr => Along(r, q)
         /\ r.intr /\ q.intr /\ Tabled(r.state, q.state) => Along(r, q)
         /\ ~r.intr /\ ~q.intr /\ Tabled(r.state \cup {N}, q.state \cup {N}) => Along(r, q)
         /\ ~r.intr /\ q.intr /\ Tabled(r.state \cup {N}, q.state) => Along(r, q)
         /\ r.intr /\ ~q.intr /\ Tabled(r.state, q.state \cup {N}) => Along(r, q)
  <1>1. /\ r.intr => Letters(r) = r.state
        /\ ~r.intr => Letters(r) = r.state \cup {N}
        /\ q.intr => Letters(q) = q.state
        /\ ~q.intr => Letters(q) = q.state \cup {N}
    BY DEF Letters
  <1>2. r.state = q.state /\ r.intr = q.intr => Letters(r) = Letters(q)
    BY DEF Letters
  <1> QED
    BY <1>1, <1>2, ZenonT(30) DEF Along, Tabled

\* A routine that touches none of the fields the state machine looks at.
LEMMA OtherFields ==
  ASSUME NEW r, NEW at \in Spots, Placed(r, at), NEW q, Typed(q),
         q.state = r.state, q.intr = r.intr, q.swap = r.swap, q.unsw = r.unsw,
         q.runq = r.runq, q.event \in {r.event, NoEvent}
  PROVE  Changed(r, q, at)
  BY DEF Changed, Placed, Along, Letters, Pinned, Leaving

\* thread_swapin of a thread that is swapped out or on its way: it does not panic,
\* and the swapper will bring the thread in.
LEMMA SwapinIs ==
  ASSUME NEW r, DOMAIN r = Fields, r.swap \in {"going_out", "out", "want_in", "coming_in"},
         r.unsw \in BOOLEAN, NEW m \in BOOLEAN, r.unsw => r.swap \in {"want_in", "coming_in"}
  PROVE  thread_swapin(r, m) =
           [r EXCEPT !.swap = IF r.swap \in {"out", "coming_in"} THEN "coming_in" ELSE "want_in",
                     !.unsw = r.unsw \/ m]
  <1>1. CASE r.swap = "out"
    BY <1>1, ZenonT(30) DEF thread_swapin, Fields
  <1>2. CASE r.swap = "going_out"
    BY <1>2, ZenonT(30) DEF thread_swapin, Fields
  <1>3. CASE r.swap = "want_in"
    BY <1>3, ZenonT(30) DEF thread_swapin, Fields
  <1>4. CASE r.swap = "coming_in"
    BY <1>4, ZenonT(30) DEF thread_swapin, Fields
  <1> QED
    BY <1>1, <1>2, <1>3, <1>4

\* The bits and the swap state of a thread after a routine say where it went.
LEMMA ChangedIs ==
  ASSUME NEW r, NEW at \in Spots, Placed(r, at), NEW q, NEW to \in Spots, Typed(q),
         Bits(q.state, q.intr, q.swap, q.unsw, q.runq, to), Along(r, q),
         "wait" \in q.state => "wait" \in r.state,
         q.event = NoEvent \/ (q.event = r.event /\ "wait" \in q.state),
         \/ q.swap = r.swap /\ q.unsw = r.unsw
         \/ r.swap = "out" /\ q.swap = "coming_in"
         \/ r.swap = "going_out" /\ q.swap = "want_in"
         \/ r.swap \in {"want_in", "coming_in"} /\ q.swap = r.swap /\ (r.unsw => q.unsw)
  PROVE  Changed(r, q, to)
  BY DEF Changed, Placed, Pinned, Leaving

\* The end of a wait in clear_wait and thread_wakeup_prim.
LEMMA AwakenChanged ==
  ASSUME NEW r, NEW at \in Spots, Placed(r, at), r.event = NoEvent, NEW result \in WaitResults
  PROVE  Changed(r, Awaken(r, result), at)
  <1> DEFINE q == Awaken(r, result)
  <1> USE DEF R, W, S, O, N
  <1>0. DOMAIN r = Fields
    BY DEF Placed, Typed
  <1>1. CASE r.state = {"wait", "susp"} /\ r.intr
    <2>1. q = [r EXCEPT !.state = {"susp"}, !.result = result]
      <3>1. r.state # {"wait"} /\ r.state # {"wait", "swapped"}
        BY <1>1
      <3> QED
        BY <1>1, <3>1 DEF Awaken
    <2>2. /\ Typed(q) /\ q.state = {"susp"} /\ q.intr = r.intr /\ q.swap = r.swap
          /\ q.unsw = r.unsw /\ q.runq = r.runq /\ q.event = r.event
      BY <1>0, <2>1 DEF Typed, Placed, Fields
    <2> HIDE DEF q
    <2>3. Bits(q.state, q.intr, q.swap, q.unsw, q.runq, at)
      BY <1>1, <2>2 DEF Placed, Bits, StateBits
    <2>4. Along(r, q)
      BY <1>1, <2>2, TableRows, NoninterruptibleRows, AlongRow, ZenonT(30)
    <2> QED
      BY <1>1, <2>2, <2>3, <2>4, ChangedIs, ZenonT(30) DEF q
  <1>2. CASE (r.state = {"wait", "susp"} /\ ~r.intr) \/ r.state = {"wait"}
    <2>1. q = [r EXCEPT !.state = (@ \ {"wait"}) \cup {"run"}, !.result = result, !.runq = TRUE]
      <3>1. r.state # {"wait", "swapped"}
        BY <1>2
      <3>2. q = thread_setrun([r EXCEPT !.state = (@ \ {"wait"}) \cup {"run"}, !.result = result])
        BY <1>2, <3>1 DEF Awaken
      <3> QED
        BY <3>2 DEF thread_setrun
    <2>2. /\ Typed(q) /\ q.state = (r.state \ {"wait"}) \cup {"run"} /\ q.intr = r.intr
          /\ q.swap = r.swap /\ q.unsw = r.unsw /\ q.runq = TRUE /\ q.event = r.event
      BY <1>0, <2>1 DEF Typed, Placed, Fields
    <2> HIDE DEF q
    <2>3. Bits(q.state, q.intr, q.swap, q.unsw, q.runq, at)
      <3>1. "run" \in q.state /\ "wait" \notin q.state /\ "swapped" \notin q.state
            /\ q.state \subseteq StateBits
        BY <1>2, <2>2 DEF StateBits
      <3>2. "run" \notin r.state /\ "wait" \in r.state /\ "swapped" \notin r.state
        BY <1>2
      <3> QED
        BY <2>2, <3>1, <3>2, ZenonT(30) DEF Placed, Bits
    <2>4. Along(r, q)
      <3>1. r.intr \in BOOLEAN
        BY DEF Placed, Bits
      <3>2. CASE r.state = {"wait"}
        <4>1. q.state = {"run"}
          BY <2>2, <3>2
        <4>2. Tabled(r.state, q.state) /\ Tabled(r.state \cup {N}, q.state \cup {N})
          BY <3>2, <4>1, TableRows, NoninterruptibleRows, ZenonT(30)
        <4> QED
          BY <2>2, <3>1, <4>2, AlongRow
      <3>3. CASE r.state = {"wait", "susp"} /\ ~r.intr
        <4>1. q.state = {"run", "susp"}
          BY <2>2, <3>3
        <4>2. Tabled(r.state \cup {N}, q.state \cup {N})
          BY <3>3, <4>1, NoninterruptibleRows, ZenonT(30)
        <4> QED
          BY <2>2, <3>3, <4>2, AlongRow
      <3> QED
        BY <1>2, <3>2, <3>3
    <2> QED
      BY <1>2, <2>2, <2>3, <2>4, ChangedIs DEF q
  <1>3. CASE r.state = {"wait", "swapped"}
    <2> DEFINE p == [r EXCEPT !.state = {"run", "swapped"}, !.result = result]
    <2>1. /\ Typed(p) /\ p.state = {"run", "swapped"} /\ p.intr = r.intr /\ p.swap = r.swap
          /\ p.unsw = r.unsw /\ p.runq = r.runq /\ p.event = r.event
      BY <1>0 DEF Typed, Placed, Fields
    <2>2. q = thread_swapin(p, FALSE)
      <3>1. r.state # {"wait"} /\ r.state # {"wait", "susp"}
        BY <1>3
      <3> QED
        BY <1>3, <3>1 DEF Awaken
    <2> HIDE DEF p
    <2>3. /\ r.swap \in {"going_out", "out", "want_in", "coming_in"} /\ r.unsw \in BOOLEAN
          /\ r.unsw => r.swap \in {"want_in", "coming_in"}
      BY <1>3 DEF Placed, Bits, SwapStates
    <2>4. q = [p EXCEPT !.swap = IF p.swap \in {"out", "coming_in"} THEN "coming_in" ELSE "want_in",
                        !.unsw = p.unsw \/ FALSE]
      BY <2>1, <2>2, <2>3, SwapinIs, ZenonT(30) DEF Typed
    <2>5. /\ Typed(q) /\ q.state = {"run", "swapped"} /\ q.intr = r.intr
          /\ q.swap = IF r.swap \in {"out", "coming_in"} THEN "coming_in" ELSE "want_in"
          /\ q.unsw = r.unsw /\ q.runq = r.runq /\ q.event = r.event
      BY <2>1, <2>3, <2>4 DEF Typed, Fields
    <2> HIDE DEF q
    <2>6. Bits(q.state, q.intr, q.swap, q.unsw, q.runq, at)
      BY <1>3, <2>3, <2>5 DEF Placed, Bits, StateBits, SwapStates
    <2>7. Along(r, q)
      BY <1>3, <2>5, TableRows, NoninterruptibleRows, AlongRow, ZenonT(30) DEF Placed, Bits
    <2> QED
      BY <1>3, <2>3, <2>5, <2>6, <2>7, ChangedIs DEF q
  <1>4. CASE r.state \in {{R,W}, {R,W,S}, {W,S,O}}
    <2>1. q = [r EXCEPT !.state = @ \ {"wait"}, !.result = result, !.intr = TRUE]
      <3>1. /\ r.state # {"wait"} /\ r.state # {"wait", "susp"} /\ r.state # {"wait", "swapped"}
            /\ "wait" \in r.state
        BY <1>4
      <3> QED
        BY <3>1 DEF Awaken
    <2>2. /\ Typed(q) /\ q.state = r.state \ {"wait"} /\ q.intr = TRUE
          /\ q.swap = r.swap /\ q.unsw = r.unsw /\ q.runq = r.runq /\ q.event = r.event
      BY <1>0, <2>1 DEF Typed, Placed, Fields
    <2> HIDE DEF q
    <2>3. Bits(q.state, q.intr, q.swap, q.unsw, q.runq, at)
      BY <1>4, <2>2, ZenonT(30) DEF Placed, Bits, StateBits
    <2>4. Along(r, q)
      <3>1. r.intr \in BOOLEAN
        BY DEF Placed, Bits
      <3>2. CASE r.state = {"run", "wait"}
        <4>1. q.state = {"run"}
          BY <3>2, <2>2
        <4>2. Tabled(r.state, q.state) /\ Tabled(r.state \cup {N}, q.state)
          BY <3>2, <4>1, TableRows, NoninterruptibleRows, ZenonT(30)
        <4> QED
          BY <3>1, <2>2, <4>2, AlongRow, ZenonT(30)
      <3>3. CASE r.state = {"run", "wait", "susp"}
        <4>1. q.state = {"run", "susp"}
          BY <3>3, <2>2
        <4>2. Tabled(r.state, q.state) /\ Tabled(r.state \cup {N}, q.state)
          BY <3>3, <4>1, TableRows, NoninterruptibleRows, ZenonT(30)
        <4> QED
          BY <3>1, <2>2, <4>2, AlongRow, ZenonT(30)
      <3>4. CASE r.state = {"wait", "susp", "swapped"}
        <4>1. q.state = {"susp", "swapped"} /\ r.intr
          BY <3>4, <2>2 DEF Placed, Bits
        <4> QED
          BY <3>4, <4>1, <2>2, TableRows, NoninterruptibleRows, AlongRow, ZenonT(30)
      <3> QED
        BY <1>4, <3>2, <3>3, <3>4
    <2> QED
      BY <1>4, <2>2, <2>3, <2>4, ChangedIs DEF q
  <1>5. CASE "wait" \notin r.state
    <2>1. q = r
      <3>1. /\ r.state # {"wait"} /\ r.state # {"wait", "susp"} /\ r.state # {"wait", "swapped"}
        BY <1>5
      <3> QED
        BY <1>5, <3>1 DEF Awaken
    <2> QED
      BY <2>1, OtherFields DEF Placed
  <1> QED
    BY <1>1, <1>2, <1>3, <1>4, <1>5, StatesAre DEF OnStates, OffStates

\* untimeout changes nothing that the state machine looks at.
LEMMA CancelIs ==
  ASSUME NEW r, Typed(r), NEW q, q = CancelTimer(r)
  PROVE  /\ Typed(q) /\ q.state = r.state /\ q.intr = r.intr /\ q.swap = r.swap
         /\ q.unsw = r.unsw /\ q.runq = r.runq /\ q.event = r.event
  <1>1. CASE r.timer_set
    <2>1. q = [r EXCEPT !.timer_set = FALSE, !.armed = IF r.armed > 0 THEN r.armed - 1 ELSE 0]
      BY <1>1 DEF CancelTimer
    <2>2. (IF r.armed > 0 THEN r.armed - 1 ELSE 0) \in Nat
      BY DEF Typed
    <2> QED
      BY <2>1, <2>2 DEF Typed, Fields
  <1>2. CASE ~r.timer_set
    BY <1>2 DEF CancelTimer
  <1> QED
    BY <1>1, <1>2

\* A thread that is awakened after its event has been cleared and its timeout taken back.
LEMMA ClearedChanged ==
  ASSUME NEW r, NEW at \in Spots, Placed(r, at), NEW result \in WaitResults
  PROVE  Changed(r, Cleared([r EXCEPT !.event = NoEvent], result), at)
  <1> DEFINE p == [r EXCEPT !.event = NoEvent]
             c == CancelTimer(p)
  <1>1. /\ Typed(p) /\ p.state = r.state /\ p.intr = r.intr /\ p.swap = r.swap
        /\ p.unsw = r.unsw /\ p.runq = r.runq /\ p.event = NoEvent
    BY DEF Placed, Typed, Fields, WaitEvents
  <1> HIDE DEF p
  <1>2. /\ Typed(c) /\ c.state = r.state /\ c.intr = r.intr /\ c.swap = r.swap
        /\ c.unsw = r.unsw /\ c.runq = r.runq /\ c.event = NoEvent
    BY <1>1, CancelIs
  <1> HIDE DEF c
  <1>3. Placed(c, at)
    BY <1>2 DEF Placed
  <1>4. Changed(c, Awaken(c, result), at)
    BY <1>2, <1>3, AwakenChanged
  <1>5. Changed(r, Awaken(c, result), at)
    BY <1>2, <1>4 DEF Changed, Along, Letters, Pinned, Leaving
  <1> QED
    BY <1>5 DEF c, p, Cleared

\* clear_wait of a thread that is on no wait queue.
LEMMA ClearedNoEvent ==
  ASSUME NEW r, NEW at \in Spots, Placed(r, at), NEW result \in WaitResults, r.event = NoEvent
  PROVE  Changed(r, Cleared(r, result), at)
  <1> DEFINE c == CancelTimer(r)
  <1>2. /\ Typed(c) /\ c.state = r.state /\ c.intr = r.intr /\ c.swap = r.swap
        /\ c.unsw = r.unsw /\ c.runq = r.runq /\ c.event = NoEvent
    BY CancelIs DEF Placed
  <1> HIDE DEF c
  <1>3. Placed(c, at)
    BY <1>2 DEF Placed
  <1>4. Changed(c, Awaken(c, result), at)
    BY <1>2, <1>3, AwakenChanged
  <1>5. Changed(r, Awaken(c, result), at)
    BY <1>2, <1>4 DEF Changed, Along, Letters, Pinned, Leaving
  <1> QED
    BY <1>5 DEF c, Cleared

\* thread_wakeup finds TH_WAIT set in every thread of its queue, and does not panic.
LEMMA WokenChanged ==
  ASSUME NEW r, NEW at \in Spots, Placed(r, at), NEW result \in WaitResults, r.event # NoEvent
  PROVE  Changed(r, Woken(r, result), at)
  <1> DEFINE p == [r EXCEPT !.event = NoEvent]
             c == CancelTimer(p)
  <1>1. Typed(p) /\ p.state = r.state
    BY DEF Placed, Typed, Fields, WaitEvents
  <1> HIDE DEF p
  <1>2. "wait" \in c.state
    BY <1>1, CancelIs DEF Placed
  <1>3. Woken(r, result) = Awaken(c, result)
    BY <1>2 DEF Woken, p, c
  <1> QED
    BY <1>3, ClearedChanged DEF Cleared, p, c

\* thread_hold.
LEMMA HoldChanged ==
  ASSUME NEW r, NEW at \in Spots, Placed(r, at)
  PROVE  Changed(r, thread_hold(r), at)
  <1> DEFINE q == thread_hold(r)
  <1> USE DEF R, W, S, O, N
  <1>1. /\ Typed(q) /\ q.state = r.state \cup {"susp"} /\ q.intr = r.intr /\ q.swap = r.swap
        /\ q.unsw = r.unsw /\ q.runq = r.runq /\ q.event = r.event
    BY DEF thread_hold, Placed, Typed, Fields
  <1> HIDE DEF q
  <1>2. Bits(q.state, q.intr, q.swap, q.unsw, q.runq, at)
    BY <1>1 DEF Placed, Bits, StateBits
  <1>3. Along(r, q)
    <2>1. CASE "susp" \in r.state
      <3>1. q.state = r.state
        BY <1>1, <2>1
      <3> QED
        BY <1>1, <3>1, TableRows, NoninterruptibleRows, AlongRow, ZenonT(30)
    <2>2. CASE r.state = {"run"}
      <3>1. q.state = {"run", "susp"}
        BY <1>1, <2>2
      <3>2. Tabled(r.state, q.state) /\ Tabled(r.state \cup {N}, q.state \cup {N})
        BY <2>2, <3>1, TableRows, NoninterruptibleRows, ZenonT(30)
      <3> QED
        BY <1>1, <3>2, AlongRow
    <2>3. CASE r.state = {"run", "wait"}
      <3>1. q.state = {"run", "wait", "susp"}
        BY <1>1, <2>3
      <3>2. Tabled(r.state, q.state) /\ Tabled(r.state \cup {N}, q.state \cup {N})
        BY <2>3, <3>1, TableRows, NoninterruptibleRows, ZenonT(30)
      <3> QED
        BY <1>1, <3>2, AlongRow
    <2>4. CASE r.state = {"wait"}
      <3>1. q.state = {"wait", "susp"}
        BY <1>1, <2>4
      <3>2. Tabled(r.state, q.state) /\ Tabled(r.state \cup {N}, q.state \cup {N})
        BY <2>4, <3>1, TableRows, NoninterruptibleRows, ZenonT(30)
      <3> QED
        BY <1>1, <3>2, AlongRow
    <2>5. CASE r.state = {"run", "swapped"}
      <3>1. q.state = {"run", "susp", "swapped"}
        BY <1>1, <2>5
      <3>2. Tabled(r.state, q.state) /\ Tabled(r.state \cup {N}, q.state \cup {N})
        BY <2>5, <3>1, TableRows, NoninterruptibleRows, ZenonT(30)
      <3> QED
        BY <1>1, <3>2, AlongRow
    <2>6. CASE r.state = {"wait", "swapped"}
      <3>1. q.state = {"wait", "susp", "swapped"} /\ r.intr
        BY <1>1, <2>6 DEF Placed, Bits
      <3> QED
        BY <1>1, <2>6, <3>1, TableRows, NoninterruptibleRows, AlongRow, ZenonT(30)
    <2> QED
      BY <2>1, <2>2, <2>3, <2>4, <2>5, <2>6, StatesAre DEF OnStates, OffStates
  <1>4. q.event = NoEvent \/ (q.event = r.event /\ "wait" \in q.state)
    BY <1>1 DEF Placed
  <1> QED
    BY <1>1, <1>2, <1>3, <1>4, ChangedIs DEF q

\* The locked part of thread_release up to the switch on the state.
ReleasedState(r) == [r EXCEPT !.suspend_count = @ - 1, !.halted = FALSE, !.state = @ \ {"susp"}]

\* thread_release: only a thread that is merely suspended is set running.
LEMMA ReleaseIs ==
  ASSUME NEW r, NEW at \in Spots, Placed(r, at)
  PROVE  thread_release(r) =
           IF r.suspend_count # 1 THEN [r EXCEPT !.suspend_count = @ - 1]
           ELSE IF r.state = {"susp", "swapped"}
                THEN thread_swapin([ReleasedState(r) EXCEPT !.state = {"run", "swapped"}], FALSE)
           ELSE IF r.state = {"susp"} THEN thread_setrun([ReleasedState(r) EXCEPT !.state = {"run"}])
           ELSE ReleasedState(r)
  <1> DEFINE q == [r EXCEPT !.suspend_count = @ - 1]
             d == [q EXCEPT !.halted = FALSE, !.state = @ \ {"susp"}]
             c == ReleasedState(r)
  <1>0. DOMAIN r = Fields /\ r.suspend_count \in Int
    BY DEF Placed, Typed
  <1>1. d = c
    BY <1>0 DEF Fields, ReleasedState
  <1>2. q.suspend_count = r.suspend_count - 1 /\ c.state = r.state \ {"susp"}
    BY <1>0 DEF Fields, ReleasedState
  <1>3. c.state = {"swapped"} <=> r.state = {"susp", "swapped"}
    BY <1>2, StatesAre DEF OnStates, OffStates, R, W, S, O
  <1>4. c.state = {} <=> r.state = {"susp"}
    BY <1>2, StatesAre DEF OnStates, OffStates, R, W, S, O
  <1>5. thread_release(r) =
          CASE q.suspend_count # 0 -> q
            [] q.suspend_count = 0 /\ d.state = {"swapped"} ->
                 thread_swapin([d EXCEPT !.state = {"run", "swapped"}], FALSE)
            [] q.suspend_count = 0 /\ d.state = {} -> thread_setrun([d EXCEPT !.state = {"run"}])
            [] OTHER -> d
    BY DEF thread_release
  <1> HIDE DEF d, c, q
  <1>6. CASE r.suspend_count # 1
    BY <1>0, <1>2, <1>5, <1>6 DEF q
  <1>7. CASE r.suspend_count = 1 /\ r.state = {"susp", "swapped"}
    <2>1. d.state = {"swapped"} /\ d.state # {} /\ q.suspend_count = 0
      BY <1>0, <1>1, <1>2, <1>3, <1>7
    <2>2. thread_release(r) = thread_swapin([d EXCEPT !.state = {"run", "swapped"}], FALSE)
      BY <1>5, <2>1, ZenonT(30)
    <2> QED
      BY <1>1, <1>7, <2>2 DEF c
  <1>8. CASE r.suspend_count = 1 /\ r.state = {"susp"}
    <2>1. /\ d.state = {} /\ d.state # {"swapped"} /\ r.state # {"susp", "swapped"}
          /\ q.suspend_count = 0
      BY <1>0, <1>1, <1>2, <1>4, <1>8
    <2>2. thread_release(r) = thread_setrun([d EXCEPT !.state = {"run"}])
      BY <1>5, <2>1
    <2> QED
      BY <1>1, <1>8, <2>1, <2>2 DEF c
  <1>9. CASE r.suspend_count = 1 /\ r.state # {"susp", "swapped"} /\ r.state # {"susp"}
    <2>1. d.state # {} /\ d.state # {"swapped"} /\ q.suspend_count = 0
      BY <1>0, <1>1, <1>2, <1>3, <1>4, <1>9
    <2>2. thread_release(r) = d
      BY <1>5, <2>1
    <2> QED
      BY <1>1, <1>9, <2>2 DEF c
  <1> QED
    BY <1>6, <1>7, <1>8, <1>9, ZenonT(30)

\* thread_release.
LEMMA ReleaseChanged ==
  ASSUME NEW r, NEW at \in Spots, Placed(r, at)
  PROVE  Changed(r, thread_release(r), at)
  <1> DEFINE q == thread_release(r)
             c == ReleasedState(r)
  <1> USE DEF R, W, S, O, N
  <1>0. DOMAIN r = Fields /\ r.suspend_count \in Int /\ r.intr \in BOOLEAN
    BY DEF Placed, Typed, Bits
  <1>1. /\ Typed(c) /\ c.state = r.state \ {"susp"} /\ c.intr = r.intr /\ c.swap = r.swap
        /\ c.unsw = r.unsw /\ c.runq = r.runq /\ c.event = r.event
    BY <1>0 DEF ReleasedState, Placed, Typed, Fields
  <1>2. CASE r.suspend_count # 1
    <2>1. q = [r EXCEPT !.suspend_count = @ - 1]
      BY <1>2, ReleaseIs, ZenonT(30)
    <2>2. /\ Typed(q) /\ q.state = r.state /\ q.intr = r.intr /\ q.swap = r.swap
          /\ q.unsw = r.unsw /\ q.runq = r.runq /\ q.event = r.event
      BY <1>0, <2>1 DEF Placed, Typed, Fields
    <2> HIDE DEF q
    <2> QED
      BY <2>2, OtherFields DEF q
  <1>3. CASE r.suspend_count = 1 /\ r.state = {"susp", "swapped"}
    <2> DEFINE p == [c EXCEPT !.state = {"run", "swapped"}]
    <2>1. /\ Typed(p) /\ p.state = {"run", "swapped"} /\ p.intr = r.intr /\ p.swap = r.swap
          /\ p.unsw = r.unsw /\ p.runq = r.runq /\ p.event = r.event
      BY <1>1 DEF Typed, Fields
    <2>2. q = thread_swapin(p, FALSE)
      BY <1>3, ReleaseIs, ZenonT(30)
    <2> HIDE DEF p, c
    <2>3. /\ r.swap \in {"going_out", "out", "want_in", "coming_in"} /\ r.unsw \in BOOLEAN
          /\ r.unsw => r.swap \in {"want_in", "coming_in"}
      BY <1>3 DEF Placed, Bits, SwapStates
    <2>4. q = [p EXCEPT !.swap = IF p.swap \in {"out", "coming_in"} THEN "coming_in" ELSE "want_in",
                        !.unsw = p.unsw \/ FALSE]
      BY <2>1, <2>2, <2>3, SwapinIs, ZenonT(30) DEF Typed
    <2>5. /\ Typed(q) /\ q.state = {"run", "swapped"} /\ q.intr = r.intr
          /\ q.swap = IF r.swap \in {"out", "coming_in"} THEN "coming_in" ELSE "want_in"
          /\ q.unsw = r.unsw /\ q.runq = r.runq /\ q.event = r.event
      BY <2>1, <2>3, <2>4 DEF Typed, Fields
    <2> HIDE DEF q
    <2>6. Bits(q.state, q.intr, q.swap, q.unsw, q.runq, at)
      BY <1>3, <2>3, <2>5 DEF Placed, Bits, StateBits, SwapStates
    <2>7. Along(r, q)
      BY <1>3, <2>5, TableRows, NoninterruptibleRows, AlongRow, ZenonT(30) DEF Placed, Bits
    <2>8. q.event = NoEvent
      BY <1>3, <2>5 DEF Placed
    <2> QED
      BY <2>3, <2>5, <2>6, <2>7, <2>8, ChangedIs DEF q
  <1>4. CASE r.suspend_count = 1 /\ r.state = {"susp"}
    <2>1. q = [c EXCEPT !.state = {"run"}, !.runq = TRUE]
      <3>1. r.state # {"susp", "swapped"}
        BY <1>4
      <3>2. q = thread_setrun([c EXCEPT !.state = {"run"}])
        BY <1>4, <3>1, ReleaseIs, ZenonT(30)
      <3> QED
        BY <3>2 DEF thread_setrun
    <2> HIDE DEF c
    <2>2. /\ Typed(q) /\ q.state = {"run"} /\ q.intr = r.intr /\ q.swap = r.swap
          /\ q.unsw = r.unsw /\ q.runq = TRUE /\ q.event = r.event
      BY <1>1, <2>1 DEF Typed, Fields
    <2> HIDE DEF q
    <2>3. Bits(q.state, q.intr, q.swap, q.unsw, q.runq, at)
      BY <1>4, <2>2, ZenonT(30) DEF Placed, Bits, StateBits
    <2>4. Along(r, q)
      BY <1>4, <2>2, TableRows, NoninterruptibleRows, AlongRow, ZenonT(30) DEF Placed, Bits
    <2>5. q.event = NoEvent
      BY <1>4, <2>2 DEF Placed
    <2> QED
      BY <2>2, <2>3, <2>4, <2>5, ChangedIs DEF q
  <1>5. CASE r.suspend_count = 1 /\ r.state # {"susp", "swapped"} /\ r.state # {"susp"}
    <2>1. q = c
      BY <1>5, ReleaseIs, ZenonT(30)
    <2> HIDE DEF c, q
    <2>2. Bits(q.state, q.intr, q.swap, q.unsw, q.runq, at)
      BY <1>1, <1>5, <2>1, StatesAre DEF Placed, Bits, StateBits, OnStates, OffStates
    <2>3. Along(r, q)
      <3>1. q.state = r.state \ {"susp"} /\ q.intr = r.intr
        BY <1>1, <2>1
      <3>2. CASE "susp" \notin r.state
        <4>1. q.state = r.state
          BY <3>1, <3>2
        <4> QED
          BY <3>1, <4>1, TableRows, NoninterruptibleRows, AlongRow, ZenonT(30)
      <3>3. CASE r.state = {"run", "susp"}
        <4>1. q.state = {"run"}
          BY <3>1, <3>3
        <4> QED
          BY <1>0, <3>1, <3>3, <4>1, TableRows, NoninterruptibleRows, AlongRow, ZenonT(30)
      <3>4. CASE r.state = {"run", "wait", "susp"}
        <4>1. q.state = {"run", "wait"}
          BY <3>1, <3>4
        <4> QED
          BY <1>0, <3>1, <3>4, <4>1, TableRows, NoninterruptibleRows, AlongRow, ZenonT(30)
      <3>5. CASE r.state = {"wait", "susp"}
        <4>1. q.state = {"wait"}
          BY <3>1, <3>5
        <4> QED
          BY <1>0, <3>1, <3>5, <4>1, TableRows, NoninterruptibleRows, AlongRow, ZenonT(30)
      <3>6. CASE r.state = {"run", "susp", "swapped"}
        <4>1. q.state = {"run", "swapped"}
          BY <3>1, <3>6
        <4> QED
          BY <1>0, <3>1, <3>6, <4>1, TableRows, NoninterruptibleRows, AlongRow, ZenonT(30)
      <3>7. CASE r.state = {"wait", "susp", "swapped"}
        <4>1. q.state = {"wait", "swapped"} /\ r.intr
          BY <3>1, <3>7 DEF Placed, Bits
        <4> QED
          BY <3>1, <3>7, <4>1, TableRows, NoninterruptibleRows, AlongRow, ZenonT(30)
      <3> QED
        BY <1>5, <3>2, <3>3, <3>4, <3>5, <3>6, <3>7, StatesAre DEF OnStates, OffStates
    <2>4. q.event = NoEvent \/ (q.event = r.event /\ "wait" \in q.state)
      BY <1>1, <2>1 DEF Placed
    <2> QED
      BY <1>1, <2>1, <2>2, <2>3, <2>4, ChangedIs DEF q
  <1> QED
    BY <1>0, <1>2, <1>3, <1>4, <1>5

\* thread_halt sets a stopped thread running.
LEMMA ForceRunChanged ==
  ASSUME NEW r, NEW at \in Spots, Placed(r, at)
  PROVE  Changed(r, ForceRun(r), at)
  <1> DEFINE q == ForceRun(r)
  <1> USE DEF R, W, S, O, N
  <1>0. DOMAIN r = Fields
    BY DEF Placed, Typed
  <1>1. CASE r.state = {"susp", "swapped"}
    <2> DEFINE p == [r EXCEPT !.state = @ \cup {"run"}, !.intr = FALSE]
    <2>1. /\ Typed(p) /\ p.state = {"run", "susp", "swapped"} /\ p.intr = FALSE /\ p.swap = r.swap
          /\ p.unsw = r.unsw /\ p.runq = r.runq /\ p.event = r.event
      BY <1>0, <1>1 DEF Placed, Typed, Fields
    <2>2. q = thread_swapin(p, FALSE)
      <3>1. r.state # {"susp"}
        BY <1>1
      <3> QED
        BY <1>1, <3>1 DEF ForceRun
    <2> HIDE DEF p
    <2>3. /\ r.swap \in {"going_out", "out", "want_in", "coming_in"} /\ r.unsw \in BOOLEAN
          /\ r.unsw => r.swap \in {"want_in", "coming_in"}
          /\ r.intr
      BY <1>1 DEF Placed, Bits, SwapStates
    <2>4. q = [p EXCEPT !.swap = IF p.swap \in {"out", "coming_in"} THEN "coming_in" ELSE "want_in",
                        !.unsw = p.unsw \/ FALSE]
      BY <2>1, <2>2, <2>3, SwapinIs, ZenonT(30) DEF Typed
    <2>5. /\ Typed(q) /\ q.state = {"run", "susp", "swapped"} /\ q.intr = FALSE
          /\ q.swap = IF r.swap \in {"out", "coming_in"} THEN "coming_in" ELSE "want_in"
          /\ q.unsw = r.unsw /\ q.runq = r.runq /\ q.event = r.event
      BY <2>1, <2>3, <2>4 DEF Typed, Fields
    <2> HIDE DEF q
    <2>6. Bits(q.state, q.intr, q.swap, q.unsw, q.runq, at)
      BY <1>1, <2>3, <2>5, ZenonT(30) DEF Placed, Bits, StateBits, SwapStates
    <2>7. Along(r, q)
      <3>1. Letters(r) = {S,O}
        BY <1>1, <2>3 DEF Letters
      <3>2. Letters(q) = {R,N,S,O}
        BY <2>5 DEF Letters
      <3>3. <<{S,O}, {R,N,S,O}>> \in StateTable
        BY ZenonT(30) DEF StateTable, HaltMoves
      <3> QED
        BY <3>1, <3>2, <3>3, ZenonT(30) DEF Along
    <2>8. q.event = NoEvent
      BY <1>1, <2>5 DEF Placed
    <2> QED
      BY <2>3, <2>5, <2>6, <2>7, <2>8, ChangedIs DEF q
  <1>2. CASE r.state = {"susp"}
    <2>1. q = [r EXCEPT !.state = @ \cup {"run"}, !.intr = FALSE, !.runq = TRUE]
      <3>1. r.state # {"susp", "swapped"}
        BY <1>2
      <3>2. q = thread_setrun([r EXCEPT !.state = @ \cup {"run"}, !.intr = FALSE])
        BY <1>2, <3>1 DEF ForceRun
      <3> QED
        BY <3>2 DEF thread_setrun
    <2>2. /\ Typed(q) /\ q.state = {"run", "susp"} /\ q.intr = FALSE /\ q.swap = r.swap
          /\ q.unsw = r.unsw /\ q.runq = TRUE /\ q.event = r.event
      BY <1>0, <1>2, <2>1 DEF Placed, Typed, Fields
    <2> HIDE DEF q
    <2>3. Bits(q.state, q.intr, q.swap, q.unsw, q.runq, at) /\ r.intr
      BY <1>2, <2>2, ZenonT(30) DEF Placed, Bits, StateBits
    <2>4. Along(r, q)
      BY <1>2, <2>2, <2>3, TableRows, NoninterruptibleRows, AlongRow, ZenonT(30)
    <2>5. q.event = NoEvent
      BY <1>2, <2>2 DEF Placed
    <2> QED
      BY <2>2, <2>3, <2>4, <2>5, ChangedIs DEF q
  <1>3. CASE r.state # {"susp", "swapped"} /\ r.state # {"susp"}
    <2>1. q = [r EXCEPT !.panic = @ \cup {"thread_halt"}]
      BY <1>3 DEF ForceRun, Panic
    <2>2. /\ Typed(q) /\ q.state = r.state /\ q.intr = r.intr /\ q.swap = r.swap
          /\ q.unsw = r.unsw /\ q.runq = r.runq /\ q.event = r.event
      BY <1>0, <2>1 DEF Placed, Typed, Fields, SwitchPanics
    <2> HIDE DEF q
    <2> QED
      BY <2>2, OtherFields DEF q
  <1> QED
    BY <1>1, <1>2, <1>3

\* thread_dowait takes a suspended thread off its run queue.
LEMMA PulledChanged ==
  ASSUME NEW r, NEW at \in Spots, Placed(r, at), Pullable(r)
  PROVE  Changed(r, Pulled(r), at)
  <1> DEFINE q == Pulled(r)
  <1>1. /\ Typed(q) /\ q.state = {"susp"} /\ q.intr = r.intr /\ q.swap = r.swap
        /\ q.unsw = r.unsw /\ q.runq = FALSE /\ q.event = r.event
    BY DEF Pulled, Placed, Typed, Fields
  <1> HIDE DEF q
  <1>2. Bits(q.state, q.intr, q.swap, q.unsw, q.runq, at)
    BY <1>1, ZenonT(30) DEF Pullable, Placed, Bits, StateBits
  <1>3. Along(r, q)
    BY <1>1, TableRows, NoninterruptibleRows, AlongRow, ZenonT(30)
       DEF Pullable, R, W, S, O, N
  <1>4. q.event = NoEvent
    BY <1>1 DEF Placed, Pullable
  <1> QED
    BY <1>1, <1>2, <1>3, <1>4, ChangedIs DEF q

\* thread_block puts the chosen thread on the processor.
LEMMA DispatchedChanged ==
  ASSUME NEW r, Placed(r, "off"), r.runq
  PROVE  /\ Changed(r, Dispatched(r), "cpu")
         /\ Changed(r, Panic(Dispatched(r), "thread_halt_self"), "cpu")
  <1> DEFINE q == Dispatched(r)
             p == Panic(q, "thread_halt_self")
  <1>0. "wait" \notin r.state
    BY DEF Placed, Bits
  <1>1. /\ Typed(q) /\ q.state = r.state /\ q.intr = TRUE /\ q.swap = r.swap
        /\ q.unsw = r.unsw /\ q.runq = FALSE /\ q.event = r.event
    BY DEF Dispatched, Placed, Typed, Fields
  <1> HIDE DEF q
  <1>2. /\ Typed(p) /\ p.state = r.state /\ p.intr = TRUE /\ p.swap = r.swap
        /\ p.unsw = r.unsw /\ p.runq = FALSE /\ p.event = r.event
    BY <1>1 DEF Panic, Typed, Fields, SwitchPanics
  <1> HIDE DEF p
  <1>3. Bits(r.state, TRUE, r.swap, r.unsw, FALSE, "cpu")
    BY DEF Placed, Bits, StateBits
  <1>4. Along(r, q) /\ Along(r, p)
    <2>1. r.state \in {{"run"}, {"run", "susp"}} /\ r.intr \in BOOLEAN
      <3>1. r.state \in OffStates
        BY StatesAre DEF Spots
      <3>2. "run" \in r.state /\ "swapped" \notin r.state /\ r.intr \in BOOLEAN
        BY DEF Placed, Bits
      <3> QED
        BY <1>0, <3>1, <3>2 DEF OffStates, R, W, S, O
    <2>2. Tabled(r.state \cup {N}, r.state)
      <3>1. CASE r.state = {"run"}
        BY <3>1, NoninterruptibleRows, ZenonT(30) DEF R, W, S, O, N
      <3>2. CASE r.state = {"run", "susp"}
        BY <3>2, NoninterruptibleRows, ZenonT(30) DEF R, W, S, O, N
      <3> QED
        BY <2>1, <3>1, <3>2
    <2> QED
      BY <1>1, <1>2, <2>1, <2>2, AlongRow, ZenonT(30)
  <1>5. r.event = NoEvent
    BY <1>0 DEF Placed
  <1>6. Changed(r, q, "cpu")
    BY <1>0, <1>1, <1>3, <1>4, <1>5, ChangedIs, ZenonT(30) DEF Spots
  <1>7. Changed(r, p, "cpu")
    BY <1>0, <1>2, <1>3, <1>4, <1>5, ChangedIs, ZenonT(30) DEF Spots
  <1> QED
    BY <1>6, <1>7 DEF p, q

\* thread_continue of a thread that leaves the processor finds one of the states it
\* is written for.
LEMMA ContinueChanged ==
  ASSUME NEW r, Placed(r, "cpu")
  PROVE  Changed(r, thread_continue(r), "off")
  <1> DEFINE q == thread_continue(r)
  <1> USE DEF R, W, S, O, N
  <1>0. DOMAIN r = Fields /\ r.intr \in BOOLEAN /\ ("wait" \notin r.state => r.intr)
    BY DEF Placed, Typed, Bits
  <1>1. r.state \in OnStates
    BY StatesAre DEF Spots
  <1>2. CASE r.state = {"run"}
    <2>1. q = [r EXCEPT !.runq = TRUE]
      <3>1. ~Stops(r) /\ r.state \in {{"run"}, {"run", "susp"}}
            /\ r.state \notin {{"run", "wait"}, {"run", "wait", "susp"}}
        BY <1>2 DEF Stops
      <3> QED
        BY <3>1 DEF thread_continue, thread_setrun
    <2>2. /\ Typed(q) /\ q.state = {"run"} /\ q.intr = r.intr /\ q.swap = r.swap
          /\ q.unsw = r.unsw /\ q.runq = TRUE /\ q.event = r.event
      BY <1>0, <1>2, <2>1 DEF Placed, Typed, Fields
    <2> HIDE DEF q
    <2>3. Bits(q.state, q.intr, q.swap, q.unsw, q.runq, "off")
      BY <1>2, <2>2, ZenonT(30) DEF Placed, Bits
    <2>4. Along(r, q)
      BY <1>2, <2>2, TableRows, NoninterruptibleRows, AlongRow, ZenonT(30)
    <2>5. q.event = NoEvent
      BY <1>2, <2>2 DEF Placed
    <2> QED
      BY <2>2, <2>3, <2>4, <2>5, ChangedIs DEF q, Spots
  <1>3. CASE r.state \in {{"run", "susp"}, {"run", "wait"}, {"run", "wait", "susp"}}
    <2>1. /\ Typed(q) /\ q.state = r.state \ {"run"} /\ q.intr = r.intr /\ q.swap = r.swap
          /\ q.unsw = r.unsw /\ q.runq = r.runq /\ q.event = r.event
      <3>1. CASE Stops(r)
        <4>1. q = [r EXCEPT !.state = @ \ {"run"}, !.wake_active = FALSE]
          BY <3>1 DEF thread_continue
        <4> QED
          BY <1>0, <4>1 DEF Placed, Typed, Fields
      <3>2. CASE ~Stops(r)
        <4>1. r.state \notin {{"run"}, {"run", "susp"}}
              /\ r.state \in {{"run", "wait"}, {"run", "wait", "susp"}}
          BY <1>0, <1>3, <3>2 DEF Stops
        <4>2. q = [r EXCEPT !.state = @ \ {"run"}]
          BY <3>2, <4>1 DEF thread_continue
        <4> QED
          BY <1>0, <4>2 DEF Placed, Typed, Fields
      <3> QED
        BY <3>1, <3>2
    <2> HIDE DEF q
    <2>2. Bits(q.state, q.intr, q.swap, q.unsw, q.runq, "off")
      BY <1>3, <2>1 DEF Placed, Bits, StateBits
    <2>3. Along(r, q)
      <3>1. CASE r.state = {"run", "susp"}
        <4>1. q.state = {"susp"} /\ r.intr
          BY <1>0, <2>1, <3>1
        <4> QED
          BY <2>1, <3>1, <4>1, TableRows, NoninterruptibleRows, AlongRow, ZenonT(30)
      <3>2. CASE r.state = {"run", "wait"}
        <4>1. q.state = {"wait"}
          BY <2>1, <3>2
        <4> QED
          BY <1>0, <2>1, <3>2, <4>1, TableRows, NoninterruptibleRows, AlongRow, ZenonT(30)
      <3>3. CASE r.state = {"run", "wait", "susp"}
        <4>1. q.state = {"wait", "susp"}
          BY <2>1, <3>3
        <4> QED
          BY <1>0, <2>1, <3>3, <4>1, TableRows, NoninterruptibleRows, AlongRow, ZenonT(30)
      <3> QED
        BY <1>3, <3>1, <3>2, <3>3
    <2>4. q.event = NoEvent \/ (q.event = r.event /\ "wait" \in q.state)
      BY <2>1 DEF Placed
    <2> QED
      BY <2>1, <2>2, <2>3, <2>4, ChangedIs DEF q, Spots
  <1> QED
    BY <1>1, <1>2, <1>3 DEF OnStates

\* assert_wait by a running thread that does not wait yet does not panic.
LEMMA AssertWaitIs ==
  ASSUME NEW r, Placed(r, "cpu"), "wait" \notin r.state, NEW ev \in WaitEvents,
         NEW q, \E i \in BOOLEAN : q = assert_wait(r, ev, i, NoEvent)
  PROVE  /\ Placed(q, "cpu") /\ Along(r, q) /\ q.event = ev
         /\ Pinned(r) => Pinned(q)
         /\ Leaving(r) => Leaving(q)
  <1> USE DEF R, W, S, O, N
  <1>1. r.event = NoEvent
    BY DEF Placed
  <1>2. PICK i \in BOOLEAN : q = [r EXCEPT !.event = ev, !.state = @ \cup {"wait"}, !.intr = i]
    BY <1>1, ZenonT(30) DEF assert_wait
  <1>3. /\ Typed(q) /\ q.state = r.state \cup {"wait"} /\ q.intr = i /\ q.swap = r.swap
        /\ q.unsw = r.unsw /\ q.runq = r.runq /\ q.event = ev
    BY <1>2 DEF Placed, Typed, Fields
  <1>4. r.state \in {{"run"}, {"run", "susp"}} /\ r.intr
    <2>1. r.state \in OnStates
      BY StatesAre DEF Spots
    <2>2. r.intr
      BY DEF Placed, Bits
    <2> QED
      BY <2>1, <2>2 DEF OnStates
  <1>5. Bits(q.state, q.intr, q.swap, q.unsw, q.runq, "cpu")
    BY <1>3, <1>4 DEF Placed, Bits, StateBits
  <1>6. Along(r, q)
    <2>1. CASE r.state = {"run"}
      <3>1. q.state = {"run", "wait"}
        BY <1>3, <2>1
      <3>2. Tabled(r.state, q.state) /\ Tabled(r.state, q.state \cup {N})
        BY <2>1, <3>1, TableRows, NoninterruptibleRows, ZenonT(30)
      <3> QED
        BY <1>3, <1>4, <3>2, AlongRow, ZenonT(30)
    <2>2. CASE r.state = {"run", "susp"}
      <3>1. q.state = {"run", "wait", "susp"}
        BY <1>3, <2>2
      <3>2. Tabled(r.state, q.state) /\ Tabled(r.state, q.state \cup {N})
        BY <2>2, <3>1, TableRows, NoninterruptibleRows, ZenonT(30)
      <3> QED
        BY <1>3, <1>4, <3>2, AlongRow, ZenonT(30)
    <2> QED
      BY <1>4, <2>1, <2>2
  <1> QED
    BY <1>3, <1>5, <1>6 DEF Placed, Pinned, Leaving

\* thread_swapin(r, TRUE) of a thread that is not in memory: it will stay there.
LEMMA SwapinPinned ==
  ASSUME NEW r, NEW at \in Spots, Placed(r, at), r.swap \notin {"in", "unswappable"}
  PROVE  Changed(r, thread_swapin(r, TRUE), at) /\ Pinned(thread_swapin(r, TRUE))
  <1> DEFINE q == thread_swapin(r, TRUE)
  <1>1. /\ DOMAIN r = Fields /\ r.swap \in {"going_out", "out", "want_in", "coming_in"}
        /\ r.unsw \in BOOLEAN
        /\ r.unsw => r.swap \in {"want_in", "coming_in"}
    BY DEF Placed, Typed, Bits, SwapStates
  <1>2. q = [r EXCEPT !.swap = IF r.swap \in {"out", "coming_in"} THEN "coming_in" ELSE "want_in",
                      !.unsw = r.unsw \/ TRUE]
    BY <1>1, SwapinIs, ZenonT(30)
  <1>3. /\ Typed(q) /\ q.state = r.state /\ q.intr = r.intr
        /\ q.swap = IF r.swap \in {"out", "coming_in"} THEN "coming_in" ELSE "want_in"
        /\ q.unsw = TRUE /\ q.runq = r.runq /\ q.event = r.event
    BY <1>1, <1>2, ZenonT(60) DEF Placed, Typed, Fields
  <1> HIDE DEF q
  <1>4. Bits(q.state, q.intr, q.swap, q.unsw, q.runq, at)
    BY <1>1, <1>3, ZenonT(30) DEF Placed, Bits, SwapStates
  <1>5. Along(r, q)
    BY <1>3, TableRows, NoninterruptibleRows, AlongRow, ZenonT(30)
  <1>6. q.event = NoEvent \/ (q.event = r.event /\ "wait" \in q.state)
    BY <1>3 DEF Placed
  <1>7. Changed(r, q, at)
    BY <1>1, <1>3, <1>4, <1>5, <1>6, ChangedIs, ZenonT(30)
  <1>8. Pinned(q)
    BY <1>1, <1>3 DEF Pinned
  <1> QED
    BY <1>7, <1>8, ZenonT(30) DEF q

\* The swapper has written a thread out: it finds it still going out, or wanted back.
LEMMA SwapoutIs ==
  ASSUME NEW r, NEW at \in Spots, Placed(r, at), Leaving(r), NEW q, q = thread_swapout(r)
  PROVE  /\ Placed(q, at) /\ Along(r, q) /\ q.state = r.state /\ q.event = r.event
         /\ Pinned(r) => Pinned(q)
  <1>0. DOMAIN r = Fields
    BY DEF Placed, Typed
  <1>1. CASE r.swap = "going_out"
    <2>1. q = [r EXCEPT !.swap = "out", !.unsw = FALSE]
      BY <1>1 DEF thread_swapout
    <2>2. /\ Typed(q) /\ q.state = r.state /\ q.intr = r.intr /\ q.swap = "out"
          /\ q.unsw = FALSE /\ q.runq = r.runq /\ q.event = r.event
      BY <1>0, <2>1 DEF Placed, Typed, Fields
    <2>3. Bits(q.state, q.intr, q.swap, q.unsw, q.runq, at)
      BY <1>1, <2>2, ZenonT(30) DEF Placed, Bits, SwapStates
    <2> QED
      BY <1>1, <2>2, <2>3 DEF Placed, Along, Letters, Pinned
  <1>2. CASE r.swap = "want_in"
    <2> DEFINE p == [r EXCEPT !.swap = "out", !.unsw = FALSE]
    <2>1. q = thread_swapin(p, r.unsw)
      BY <1>2 DEF thread_swapout
    <2>2. /\ Typed(p) /\ p.state = r.state /\ p.intr = r.intr /\ p.swap = "out"
          /\ p.unsw = FALSE /\ p.runq = r.runq /\ p.event = r.event
      BY <1>0 DEF Placed, Typed, Fields
    <2> HIDE DEF p
    <2>3. r.unsw \in BOOLEAN
      BY DEF Placed, Bits
    <2>4. q = [p EXCEPT !.swap = IF p.swap \in {"out", "coming_in"} THEN "coming_in" ELSE "want_in",
                        !.unsw = p.unsw \/ r.unsw]
      BY <2>1, <2>2, <2>3, SwapinIs, ZenonT(30) DEF Typed
    <2>5. /\ Typed(q) /\ q.state = r.state /\ q.intr = r.intr /\ q.swap = "coming_in"
          /\ q.unsw = r.unsw /\ q.runq = r.runq /\ q.event = r.event
      BY <2>2, <2>3, <2>4 DEF Typed, Fields
    <2>6. Bits(q.state, q.intr, q.swap, q.unsw, q.runq, at)
      BY <1>2, <2>5 DEF Placed, Bits, SwapStates
    <2> QED
      BY <1>2, <2>5, <2>6 DEF Placed, Along, Letters, Pinned
  <1> QED
    BY <1>1, <1>2 DEF Leaving

\* The swapper has brought a thread in.
LEMMA DoswapinIs ==
  ASSUME NEW r, NEW at \in Spots, Placed(r, at), "swapped" \in r.state,
         NEW q, q = thread_doswapin(r)
  PROVE  /\ Placed(q, at) /\ Along(r, q) /\ q.event = r.event
         /\ "wait" \in q.state => "wait" \in r.state
         /\ Pinned(r) => Pinned(q)
  <1> USE DEF R, W, S, O, N
  <1> DEFINE p == [r EXCEPT !.swap = IF r.unsw THEN "unswappable" ELSE "in",
                            !.unsw = FALSE, !.state = @ \ {"swapped"}]
  <1>0. DOMAIN r = Fields /\ r.intr \in BOOLEAN
    BY DEF Placed, Typed, Bits
  <1>1. q = IF "run" \in p.state THEN thread_setrun(p) ELSE p
    BY DEF thread_doswapin
  <1>2. /\ Typed(p) /\ p.state = r.state \ {"swapped"} /\ p.intr = r.intr
        /\ p.swap = IF r.unsw THEN "unswappable" ELSE "in"
        /\ p.unsw = FALSE /\ p.runq = r.runq /\ p.event = r.event
    BY <1>0 DEF Placed, Typed, Fields
  <1> HIDE DEF p
  <1>3. /\ Typed(q) /\ q.state = r.state \ {"swapped"} /\ q.intr = r.intr
        /\ q.swap = IF r.unsw THEN "unswappable" ELSE "in"
        /\ q.unsw = FALSE /\ q.event = r.event
        /\ q.runq = IF "run" \in r.state THEN TRUE ELSE r.runq
    <2>1. CASE "run" \in p.state
      <3>1. q = [p EXCEPT !.runq = TRUE]
        BY <1>1, <2>1 DEF thread_setrun
      <3> QED
        BY <1>2, <2>1, <3>1, ZenonT(30) DEF Typed, Fields
    <2>2. CASE "run" \notin p.state
      BY <1>1, <1>2, <2>2, ZenonT(30)
    <2> QED
      BY <2>1, <2>2, ZenonT(30)
  <1>4. Bits(q.state, q.intr, q.swap, q.unsw, q.runq, at)
    BY <1>3, ZenonT(30) DEF Placed, Bits, StateBits, SwapStates
  <1>5. Along(r, q)
    <2>0. r.state \in {{R,O}, {R,S,O}, {W,O}, {W,S,O}, {S,O}}
      BY StatesAre DEF OnStates, OffStates
    <2>1. CASE r.state = {R,O}
      <3>1. q.state = {R}
        BY <1>3, <2>1
      <3> QED
        BY <1>0, <1>3, <2>1, <3>1, TableRows, NoninterruptibleRows, AlongRow, ZenonT(30)
    <2>2. CASE r.state = {R,S,O}
      <3>1. q.state = {R,S}
        BY <1>3, <2>2
      <3> QED
        BY <1>0, <1>3, <2>2, <3>1, TableRows, NoninterruptibleRows, AlongRow, ZenonT(30)
    <2>3. CASE r.state = {W,O}
      <3>1. q.state = {W} /\ r.intr
        BY <1>3, <2>3 DEF Placed, Bits
      <3> QED
        BY <1>3, <2>3, <3>1, TableRows, NoninterruptibleRows, AlongRow, ZenonT(30)
    <2>4. CASE r.state = {W,S,O}
      <3>1. q.state = {W,S} /\ r.intr
        BY <1>3, <2>4 DEF Placed, Bits
      <3> QED
        BY <1>3, <2>4, <3>1, TableRows, NoninterruptibleRows, AlongRow, ZenonT(30)
    <2>5. CASE r.state = {S,O}
      <3>1. q.state = {S} /\ r.intr
        BY <1>3, <2>5 DEF Placed, Bits
      <3> QED
        BY <1>3, <2>5, <3>1, TableRows, NoninterruptibleRows, AlongRow, ZenonT(30)
    <2> QED
      BY <2>0, <2>1, <2>2, <2>3, <2>4, <2>5
  <1>6. Pinned(r) => Pinned(q)
    BY <1>3 DEF Pinned, Placed, Bits
  <1> QED
    BY <1>3, <1>4, <1>5, <1>6, ZenonT(30) DEF Placed

\* swapout_scan starts to swap a thread out.
LEMMA ScanChanged ==
  ASSUME NEW r, NEW at \in Spots, Placed(r, at), Swappable(r),
         NEW q, q = [r EXCEPT !.state = @ \cup {"swapped"}, !.swap = "going_out"]
  PROVE  Changed(r, q, at) /\ Leaving(q)
  <1> USE DEF R, W, S, O, N
  <1>1. /\ Typed(q) /\ q.state = r.state \cup {"swapped"} /\ q.intr = r.intr
        /\ q.swap = "going_out" /\ q.unsw = r.unsw /\ q.runq = r.runq /\ q.event = r.event
    BY DEF Placed, Typed, Fields
  <1>2. r.swap = "in" /\ ~r.unsw /\ r.intr /\ "run" \notin r.state /\ "swapped" \notin r.state
    BY DEF Swappable
  <1>3. Bits(q.state, q.intr, q.swap, q.unsw, q.runq, at)
    BY <1>1, <1>2, ZenonT(30) DEF Placed, Bits, StateBits, SwapStates
  <1>4. Along(r, q)
    <2>0. r.state \in {{W}, {W,S}, {S}}
      BY <1>2, StatesAre DEF OnStates, OffStates
    <2>1. CASE r.state = {W}
      <3>1. q.state = {W,O}
        BY <1>1, <2>1
      <3> QED
        BY <1>1, <1>2, <2>1, <3>1, TableRows, NoninterruptibleRows, AlongRow, ZenonT(30)
    <2>2. CASE r.state = {W,S}
      <3>1. q.state = {W,S,O}
        BY <1>1, <2>2
      <3> QED
        BY <1>1, <1>2, <2>2, <3>1, TableRows, NoninterruptibleRows, AlongRow, ZenonT(30)
    <2>3. CASE r.state = {S}
      <3>1. q.state = {S,O}
        BY <1>1, <2>3
      <3> QED
        BY <1>1, <1>2, <2>3, <3>1, TableRows, NoninterruptibleRows, AlongRow, ZenonT(30)
    <2> QED
      BY <2>0, <2>1, <2>2, <2>3
  <1> QED
    BY <1>1, <1>2, <1>3, <1>4 DEF Changed, Placed, Pinned, Leaving

----------------------------------------------------------------------------
(* Where an operation has a target, where the target is another thread,    *)
(* where a thread on a processor may have asserted a wait, and where it    *)
(* waits for a thread to be swapped in.                                    *)
TargetPcs == {"clear1", "clear2", "hold", "release", "dowait", "dowait_sleep", "dowait_retest",
              "dowait_done", "getstatus", "halt", "halt_sleep", "halt_retest", "halt_fail",
              "halt_check", "reap", "swappable_sleep", "swappable_retest", "block_self"}
OtherPcs == {"halt", "halt_sleep", "halt_retest", "dowait_sleep", "dowait_retest",
             "swappable_sleep", "swappable_retest"}
WaitPcs == {"set_timeout", "asserted", "dowait_sleep", "halt_sleep", "swappable_sleep"}
SwapPcs == {"swappable_sleep", "swappable_retest"}

Spot(t) == IF t \in oncpu THEN "cpu" ELSE "off"

(* Thread t is where its fields say and stands in an operation that fits.  *)
InPlace(t) ==
  /\ Placed(th[t], Spot(t))
  /\ pc[t] \in TargetPcs => tgt[t] \in Thread
  /\ pc[t] \in OtherPcs => tgt[t] # t
  /\ t \in oncpu /\ "wait" \in th[t].state => pc[t] \in WaitPcs
  /\ th[t].event \notin {WakeActive(t), SwapState(t)}
  /\ pc[t] \in SwapPcs => op[t] = "unswappable" /\ Pinned(th[tgt[t]])

Tables ==
  /\ DOMAIN th = Thread /\ DOMAIN pc = Thread /\ DOMAIN op = Thread
  /\ tgt \in [Thread -> Thread \cup {NoThread}]
  /\ swapper \in Thread \cup {NoThread}
  /\ dead \subseteq unref /\ unref \subseteq Thread

Processors == oncpu \subseteq Thread /\ IsFiniteSet(oncpu) /\ Cardinality(oncpu) <= NCPUS

PlacesInv ==
  /\ Tables /\ Processors
  /\ \A t \in Thread : InPlace(t)
  /\ swapper \in Thread => Leaving(th[swapper])

(* A step keeps the invariant and moves every thread along the table.      *)
Good == PlacesInv' /\ \A v \in Thread : Along(th[v], th'[v])

(* Thread t goes to label l, its target is u; the other threads stay.      *)
Moves(t, l, u) ==
  /\ DOMAIN pc' = Thread /\ DOMAIN op' = Thread /\ tgt' \in [Thread -> Thread \cup {NoThread}]
  /\ pc'[t] = l /\ tgt'[t] = u
  /\ \A v \in Thread \ {t} : pc'[v] = pc[v] /\ op'[v] = op[v] /\ tgt'[v] = tgt[v]

\* The three ways an operation goes on.
LEMMA MovesAre ==
  ASSUME Tables, NEW t \in Thread
  PROVE  /\ \A l : Goto(t, l) /\ UNCHANGED_op => Moves(t, l, tgt[t]) /\ op'[t] = op[t]
         /\ Finish(t) => Moves(t, "user", NoThread)
         /\ \A o, l : \A u \in Thread \cup {NoThread} :
              Begin(t, o, u, l) => Moves(t, l, u) /\ op'[t] = o
  BY DEF Tables, Goto, UNCHANGED_op, Finish, Begin, Moves

\* A thread waits for nothing that it would have to bring about itself.
LEMMA OwnEvents ==
  ASSUME NEW t \in Thread, InPlace(t), NEW e \in {th[t].event, NoEvent}
  PROVE  e \notin {WakeActive(t), SwapState(t)} /\ WakeActive(t) # NoEvent
  <1>1. WakeActive(t) # NoEvent /\ SwapState(t) # NoEvent
    BY DEF WakeActive, SwapState, NoEvent
  <1>2. th[t].event \notin {WakeActive(t), SwapState(t)}
    BY DEF InPlace
  <1> QED
    BY <1>1, <1>2

\* What is left to show of the thread that makes a step, when nothing takes the
\* pinning of a thread, or a thread being swapped out, away.
LEMMA StepKeeps ==
  ASSUME PlacesInv, NEW t \in Thread, NEW l, NEW u, Moves(t, l, u),
         DOMAIN th' = Thread, Processors',
         \A v \in Thread \ {t} : /\ Changed(th[v], th'[v], Spot(v))
                                 /\ v \in oncpu' <=> v \in oncpu,
         Placed(th'[t], Spot(t)'), Along(th[t], th'[t]),
         Pinned(th[t]) => Pinned(th'[t]), Leaving(th[t]) => Leaving(th'[t]),
         UNCHANGED swapper, dead' \subseteq unref', unref' \subseteq Thread,
         l \in TargetPcs => u \in Thread,
         l \in OtherPcs => u # t,
         t \in oncpu' /\ "wait" \in th'[t].state => l \in WaitPcs,
         th'[t].event \notin {WakeActive(t), SwapState(t)},
         l \in SwapPcs => op'[t] = "unswappable" /\ Pinned(th'[u])
  PROVE  Good
  <1>1. \A v \in Thread : (Pinned(th[v]) => Pinned(th'[v])) /\ (Leaving(th[v]) => Leaving(th'[v]))
    BY ZenonT(30) DEF Changed
  <1>2. \A v \in Thread : Along(th[v], th'[v])
    BY DEF Changed
  <1>3. Tables'
    BY DEF Moves, PlacesInv, Tables
  <1>4. swapper' \in Thread => Leaving(th'[swapper'])
    BY <1>1, ZenonT(30) DEF PlacesInv
  <1>5. ASSUME NEW v \in Thread PROVE InPlace(v)'
    <2>1. CASE v = t
      BY <2>1, ZenonT(30) DEF Moves, InPlace, WakeActive, SwapState
    <2>2. CASE v # t
      <3>1. InPlace(v) /\ Changed(th[v], th'[v], Spot(v))
        BY <2>2 DEF PlacesInv
      <3>2. pc'[v] = pc[v] /\ op'[v] = op[v] /\ tgt'[v] = tgt[v] /\ (v \in oncpu' <=> v \in oncpu)
        BY <2>2 DEF Moves
      <3>3. Placed(th'[v], Spot(v)')
        BY <3>1, <3>2 DEF Changed, Spot
      <3>4. v \in oncpu' /\ "wait" \in th'[v].state => pc'[v] \in WaitPcs
        BY <3>1, <3>2, ZenonT(30) DEF Changed, InPlace
      <3>5. th'[v].event \notin {WakeActive(v), SwapState(v)}
        <4>1. th'[v].event \in {th[v].event, NoEvent}
          BY <3>1 DEF Changed
        <4> QED
          BY <3>1, <4>1, OwnEvents, ZenonT(30)
      <3>6. pc'[v] \in SwapPcs => op'[v] = "unswappable" /\ Pinned(th'[tgt'[v]])
        <4>1. pc[v] \in SwapPcs => tgt[v] \in Thread
          BY <3>1 DEF InPlace, SwapPcs, TargetPcs
        <4> QED
          BY <1>1, <3>1, <3>2, <4>1, ZenonT(30) DEF InPlace
      <3>7. /\ pc'[v] \in TargetPcs => tgt'[v] \in Thread
            /\ pc'[v] \in OtherPcs => tgt'[v] # v
        BY <3>1, <3>2, ZenonT(30) DEF InPlace
      <3> QED
        BY <3>3, <3>4, <3>5, <3>6, <3>7 DEF InPlace, WakeActive, SwapState
    <2> QED
      BY <2>1, <2>2, ZenonT(30)
  <1> QED
    BY <1>2, <1>3, <1>4, <1>5, ZenonT(30) DEF PlacesInv, Good

\* A thread on a processor that has not asserted a wait does something to others or
\* to itself, and goes on.
LEMMA ActorStep ==
  ASSUME PlacesInv, NEW t \in Thread, t \in oncpu, pc[t] \notin WaitPcs,
         NEW l, NEW u, Moves(t, l, u),
         DOMAIN th' = Thread, \A v \in Thread : Changed(th[v], th'[v], Spot(v)),
         UNCHANGED <<oncpu, swapper>>, dead' \subseteq unref', unref' \subseteq Thread,
         l \in TargetPcs => u \in Thread, l \in OtherPcs => u # t, l \notin SwapPcs
  PROVE  Good
  <1>1. InPlace(t) /\ Changed(th[t], th'[t], Spot(t)) /\ Processors'
    BY DEF PlacesInv, Processors
  <1>2. "wait" \notin th'[t].state
    BY <1>1, ZenonT(30) DEF InPlace, Changed
  <1>3. th'[t].event \notin {WakeActive(t), SwapState(t)}
    <2>1. th'[t].event \in {th[t].event, NoEvent}
      BY <1>1 DEF Changed
    <2> QED
      BY <1>1, <2>1, OwnEvents
  <1>4. /\ Placed(th'[t], Spot(t)') /\ Along(th[t], th'[t])
        /\ Pinned(th[t]) => Pinned(th'[t])
        /\ Leaving(th[t]) => Leaving(th'[t])
    BY <1>1 DEF Changed, Spot
  <1> QED
    BY <1>1, <1>2, <1>3, <1>4, StepKeeps, ZenonT(30)

\* It asserts a wait for something that another thread will bring about.
LEMMA SleepStep ==
  ASSUME PlacesInv, NEW t \in Thread, t \in oncpu, pc[t] \notin WaitPcs,
         NEW l \in WaitPcs, NEW u, Moves(t, l, u),
         NEW ev \in WaitEvents, NEW i \in BOOLEAN, ev \notin {WakeActive(t), SwapState(t)},
         DOMAIN th' = Thread, th'[t] = assert_wait(th[t], ev, i, NoEvent),
         \A v \in Thread \ {t} : Changed(th[v], th'[v], Spot(v)),
         UNCHANGED <<oncpu, swapper, dead, unref>>,
         l \in TargetPcs => u \in Thread, l \in OtherPcs => u # t,
         l \in SwapPcs => op'[t] = "unswappable" /\ Pinned(th'[u])
  PROVE  Good
  <1>1. InPlace(t) /\ Processors' /\ dead' \subseteq unref' /\ unref' \subseteq Thread
    BY ZenonT(30) DEF PlacesInv, Processors, Tables
  <1>2. Placed(th[t], "cpu") /\ "wait" \notin th[t].state
    BY <1>1, ZenonT(30) DEF InPlace, Spot
  <1>3. /\ Placed(th'[t], "cpu") /\ Along(th[t], th'[t]) /\ th'[t].event = ev
        /\ Pinned(th[t]) => Pinned(th'[t])
        /\ Leaving(th[t]) => Leaving(th'[t])
    <2>1. \E j \in BOOLEAN : th'[t] = assert_wait(th[t], ev, j, NoEvent)
      BY ZenonT(30)
    <2> QED
      BY <1>2, <2>1, AssertWaitIs, ZenonT(30)
  <1>4. Placed(th'[t], Spot(t)')
    BY <1>3, ZenonT(30) DEF Spot
  <1> QED
    BY <1>1, <1>3, <1>4, StepKeeps, ZenonT(30)

\* Something happens to the threads that is no thread's doing.
LEMMA QuietStep ==
  ASSUME PlacesInv, NEW t \in Thread, UNCHANGED <<pc, op, tgt, oncpu, swapper>>,
         DOMAIN th' = Thread, \A v \in Thread : Changed(th[v], th'[v], Spot(v)),
         dead' \subseteq unref', unref' \subseteq Thread
  PROVE  Good
  <1>1. InPlace(t) /\ Changed(th[t], th'[t], Spot(t)) /\ Processors'
    BY ZenonT(30) DEF PlacesInv, Processors
  <1>2. Moves(t, pc[t], tgt[t])
    BY DEF PlacesInv, Tables, Moves
  <1>3. th'[t].event \notin {WakeActive(t), SwapState(t)}
    <2>1. th'[t].event \in {th[t].event, NoEvent}
      BY <1>1 DEF Changed
    <2> QED
      BY <1>1, <2>1, OwnEvents
  <1>4. /\ Placed(th'[t], Spot(t)') /\ Along(th[t], th'[t])
        /\ Pinned(th[t]) => Pinned(th'[t])
        /\ Leaving(th[t]) => Leaving(th'[t])
        /\ t \in oncpu' /\ "wait" \in th'[t].state => pc[t] \in WaitPcs
    BY <1>1, ZenonT(30) DEF Changed, InPlace, Spot
  <1>5. pc[t] \in SwapPcs => op'[t] = "unswappable" /\ Pinned(th'[tgt[t]])
    <2>1. pc[t] \in SwapPcs => tgt[t] \in Thread
      BY <1>1 DEF InPlace, SwapPcs, TargetPcs
    <2> QED
      BY <1>1, <2>1 DEF InPlace, Changed
  <1>6. (pc[t] \in TargetPcs => tgt[t] \in Thread) /\ (pc[t] \in OtherPcs => tgt[t] # t)
    BY <1>1 DEF InPlace
  <1> QED
    BY <1>1, <1>2, <1>3, <1>4, <1>5, <1>6, StepKeeps, ZenonT(30)

\* No thread is changed.
LEMMA SameChanged ==
  ASSUME PlacesInv, UNCHANGED th
  PROVE  DOMAIN th' = Thread /\ \A v \in Thread : Changed(th[v], th'[v], Spot(v))
  <1>1. \A v \in Thread : Placed(th[v], Spot(v)) /\ Typed(th[v]) /\ Spot(v) \in Spots
    BY DEF PlacesInv, InPlace, Placed, Spot, Spots
  <1> QED
    BY <1>1, OtherFields DEF PlacesInv, Tables

\* One thread is changed.
LEMMA OneChanged ==
  ASSUME PlacesInv, NEW u \in Thread, NEW q, Changed(th[u], q, Spot(u)),
         th' = [th EXCEPT ![u] = q]
  PROVE  DOMAIN th' = Thread /\ \A v \in Thread : Changed(th[v], th'[v], Spot(v))
  <1>1. \A v \in Thread : Placed(th[v], Spot(v)) /\ Typed(th[v]) /\ Spot(v) \in Spots
    BY DEF PlacesInv, InPlace, Placed, Spot, Spots
  <1>2. \A v \in Thread : Changed(th[v], th[v], Spot(v))
    BY <1>1, OtherFields
  <1> QED
    BY <1>2 DEF PlacesInv, Tables

\* thread_wakeup after something happened to u, which does not wait for it.
LEMMA WakeupChanged ==
  ASSUME PlacesInv, NEW u \in Thread, NEW q, Changed(th[u], q, Spot(u)),
         NEW ev, ev # NoEvent, q.event # ev, NEW result \in WaitResults,
         th' = Wakeup([th EXCEPT ![u] = q], ev, result)
  PROVE  DOMAIN th' = Thread /\ \A v \in Thread : Changed(th[v], th'[v], Spot(v))
  <1> DEFINE g == [th EXCEPT ![u] = q]
  <1>1. \A v \in Thread : Placed(th[v], Spot(v)) /\ Typed(th[v]) /\ Spot(v) \in Spots
    BY DEF PlacesInv, InPlace, Placed, Spot, Spots
  <1>2. DOMAIN g = Thread /\ g[u] = q /\ \A v \in Thread \ {u} : g[v] = th[v]
    BY DEF PlacesInv, Tables
  <1> HIDE DEF g
  <1>3. th' = [v \in DOMAIN g |-> IF g[v].event = ev THEN Woken(g[v], result) ELSE g[v]]
    BY DEF Wakeup, g
  <1>4. ASSUME NEW v \in Thread PROVE Changed(th[v], th'[v], Spot(v))
    <2>1. CASE v = u
      BY <1>2, <1>3, <2>1, ZenonT(30)
    <2>2. CASE v # u /\ th[v].event = ev
      <3>1. th'[v] = Woken(th[v], result)
        BY <1>2, <1>3, <2>2, ZenonT(30)
      <3> QED
        BY <1>1, <2>2, <3>1, WokenChanged
    <2>3. CASE v # u /\ th[v].event # ev
      <3>1. th'[v] = th[v]
        BY <1>2, <1>3, <2>3, ZenonT(30)
      <3> QED
        BY <1>1, <3>1, OtherFields
    <2> QED
      BY <2>1, <2>2, <2>3
  <1> QED
    BY <1>2, <1>3, <1>4, ZenonT(30)

----------------------------------------------------------------------------
(* The ways a thread goes on, when it has done something to threads.       *)

\* A thread goes on in its operation.
LEMMA GotoStep ==
  ASSUME PlacesInv, NEW t \in Thread, t \in oncpu, pc[t] \notin WaitPcs,
         NEW l, Goto(t, l), UNCHANGED_op, UNCHANGED <<oncpu, swapper, unref, dead>>,
         DOMAIN th' = Thread, \A v \in Thread : Changed(th[v], th'[v], Spot(v)),
         l \in TargetPcs => tgt[t] \in Thread, l \in OtherPcs => tgt[t] # t, l \notin SwapPcs
  PROVE  Good
  <1>1. Moves(t, l, tgt[t]) /\ dead' \subseteq unref' /\ unref' \subseteq Thread
    BY MovesAre, ZenonT(30) DEF PlacesInv, Tables
  <1> QED
    BY <1>1, ActorStep

\* A thread goes back to user mode.
LEMMA FinishStep ==
  ASSUME PlacesInv, NEW t \in Thread, t \in oncpu, pc[t] \notin WaitPcs,
         Finish(t), UNCHANGED <<oncpu, swapper>>, dead' \subseteq unref', unref' \subseteq Thread,
         DOMAIN th' = Thread, \A v \in Thread : Changed(th[v], th'[v], Spot(v))
  PROVE  Good
  <1>1. Moves(t, "user", NoThread)
    BY MovesAre, ZenonT(30) DEF PlacesInv
  <1> QED
    BY <1>1, ActorStep DEF TargetPcs, OtherPcs, SwapPcs

\* A thread enters the kernel.
LEMMA BeginStep ==
  ASSUME PlacesInv, NEW t \in Thread, AtUser(t), UNCHANGED oncpu, UNCHANGED_rest,
         NEW o, NEW u \in Thread, NEW l, Begin(t, o, u, l), l \in OtherPcs => u # t, l \notin SwapPcs,
         DOMAIN th' = Thread, \A v \in Thread : Changed(th[v], th'[v], Spot(v))
  PROVE  Good
  <1>1. Moves(t, l, u) /\ dead' \subseteq unref' /\ unref' \subseteq Thread
    BY MovesAre, ZenonT(30) DEF PlacesInv, Tables, UNCHANGED_rest
  <1>2. t \in oncpu /\ pc[t] \notin WaitPcs
    BY ZenonT(30) DEF AtUser, At, Running, WaitPcs
  <1> QED
    BY <1>1, <1>2, ActorStep DEF UNCHANGED_rest

\* A call that does nothing but a small change to a thread.
LEMMA UserStep ==
  ASSUME PlacesInv, NEW t \in Thread, UNCHANGED <<pc, op, tgt, oncpu>>, UNCHANGED_rest,
         DOMAIN th' = Thread, \A v \in Thread : Changed(th[v], th'[v], Spot(v))
  PROVE  Good
  <1>1. dead' \subseteq unref' /\ unref' \subseteq Thread
    BY DEF PlacesInv, Tables, UNCHANGED_rest
  <1> QED
    BY <1>1, QuietStep DEF UNCHANGED_rest

\* A change to fields that the state machine does not look at.
LEMMA FieldsChanged ==
  ASSUME PlacesInv, NEW u \in Thread, NEW q, Typed(q),
         q.state = th[u].state, q.intr = th[u].intr, q.swap = th[u].swap, q.unsw = th[u].unsw,
         q.runq = th[u].runq, q.event = th[u].event
  PROVE  Changed(th[u], q, Spot(u))
  <1>1. Placed(th[u], Spot(u)) /\ Spot(u) \in Spots
    BY DEF PlacesInv, InPlace, Spot, Spots
  <1> QED
    BY <1>1, OtherFields
=============================================================================

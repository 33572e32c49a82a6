------------------------------ MODULE MsgQueue ------------------------------
(***************************************************************************)
(* Mach message queues: msg_queue and msg_dequeue of kern/ipc_basics.c,    *)
(* port sets (kern/ipc_kset.c, kern/ipc_port.c) and the death of ports and *)
(* sets (kern/ipc_kport.c).                                                *)
(*                                                                         *)
(* A message is queued on its port, or on the set the port is in.  It is   *)
(* handed to a thread asleep on that queue if there is one.  Senders sleep *)
(* on the port while port_message_count is at port_backlog.  One step is   *)
(* what a thread does between taking its first lock and giving up its      *)
(* last one; what it does after that, with no lock held, is another step.  *)
(* With MP = FALSE no thread runs beside one that is between two steps and *)
(* will not block, as on one processor; wakeups from interrupt level come  *)
(* at any time.                                                            *)
(*                                                                         *)
(* One task holds all receive rights.  Each sending thread is a task of    *)
(* its own.  Message bodies, references and the ports of kernel objects    *)
(* are left out.                                                           *)
(***************************************************************************)
EXTENDS Integers, Sequences, FiniteSets, SequencesExt

CONSTANTS
  Sender,       \* threads that send
  Receiver,     \* threads of the task with the receive rights
  NoThread,
  Port,
  Set,          \* port sets
  NoSet,
  NoPort,
  SendSize,     \* SendSize[t]: the sizes of the messages t sends
  ReceiveSize,  \* ReceiveSize[t]: the sizes of t's receive buffers
  SendOptions,  \* options senders use: sets of SEND_ALWAYS, SEND_TIMEOUT, SEND_NOTIFY
  ReceiveOptions, \* options receivers use: {} or {RCV_TIMEOUT}
  MaxBacklog,   \* bound on port_backlog
  MaxSent,      \* bound on the messages sent to a port
  WWA,          \* MACH_IPC_WWA: one sender is woken for each message received
  MP            \* several processors

Thread == Sender \cup Receiver

ASSUME NamesAssumption == NoThread \notin Thread /\ NoSet \notin Set /\ NoPort \notin Port
                          /\ Port \cap Set = {} /\ Sender \cap Receiver = {}
ASSUME SizeAssumption == SendSize \in [Sender -> SUBSET Nat] 
                         /\ ReceiveSize \in [Receiver -> SUBSET Nat]
ASSUME BoundAssumption == MaxBacklog \in Nat \ {0} /\ MaxSent \in Nat
ASSUME OptionsAssumption ==
  /\ SendOptions \subseteq SUBSET {"SEND_ALWAYS", "SEND_TIMEOUT", "SEND_NOTIFY"}
  /\ ReceiveOptions \subseteq SUBSET {"RCV_TIMEOUT"}
ASSUME ConfigAssumption == WWA \in BOOLEAN /\ MP \in BOOLEAN

VARIABLES
  port,   \* port[p]: in_use, receiver, set, count, backlog, and the blocked senders
  set,    \* set[s]: in_use and set_traversal
  mq,     \* mq[q], q a port or a set: messages and blocked receivers
  th,     \* th[t]: the thread's ipc fields, wait state and locals
  entry,  \* entry[t][p]: the kmsg of t's translation of p; 0 none, -1 no translation
  sender, \* sender[p][i]: sender_entry of the i-th message to p
  sent,   \* sent[p]: messages queued on p so far
  taken   \* taken[p]: messages of p that receivers have got so far

vars == <<port, set, mq, th, entry, sender, sent, taken>>

Idle == [pc |-> "idle", obj |-> NoPort, option |-> {}, tout |-> 0, size |-> 0,
         ipc_state |-> "none", kmsg |-> <<>>, target |-> NoThread,
         member |-> NoPort, waiting |-> FALSE, timed |-> FALSE, result |-> "none"]

Init ==
  /\ port = [p \in Port |-> [in_use |-> TRUE, receiver |-> "task", set |-> NoSet,
                             count |-> 0, backlog |-> 1, senders |-> <<>>]]
  /\ set = [s \in Set |-> [in_use |-> TRUE, traversal |-> NoPort]]
  /\ mq = [q \in Port \cup Set |-> [messages |-> <<>>, receivers |-> <<>>]]
  /\ th = [t \in Thread |-> Idle]
  /\ entry = [t \in Sender |-> [p \in Port |-> 0]]
  /\ sender = [p \in Port |-> [i \in 1..MaxSent |-> NoThread]]
  /\ sent = [p \in Port |-> 0] /\ taken = [p \in Port |-> 0]

\* Where a thread that holds no lock will not block before its next one.
Busy == {"go", "count", "poke", "poked", "traverse"}
Turn(t) == MP \/ \A u \in Thread \ {t} : th[u].pc \notin Busy

Return(T, t) == [T EXCEPT ![t] = Idle]

-----------------------------------------------------------------------------
(* Waiting and waking: thread_will_wait, thread_go, clear_wait.            *)
WillWait(r) == [r EXCEPT !.waiting = TRUE, !.timed = r.tout # 0]

Woken(r, why) ==
  [r EXCEPT !.waiting = FALSE, !.timed = FALSE, !.result = IF r.waiting THEN why ELSE @]

thread_go(r) == Woken(r, "THREAD_AWAKENED")

Interrupt(t) ==
  /\ th[t].waiting
  /\ th' = [th EXCEPT ![t] = Woken(@, "THREAD_INTERRUPTED")]
  /\ UNCHANGED <<port, set, mq, entry, sender, sent, taken>>

thread_timeout(t) ==
  /\ th[t].waiting /\ th[t].timed
  /\ th' = [th EXCEPT ![t] = Woken(@, "THREAD_TIMED_OUT")]
  /\ UNCHANGED <<port, set, mq, entry, sender, sent, taken>>

\* T with the threads us woken and told state.
Told(T, us, state) ==
  [t \in Thread |-> IF t \in us THEN thread_go([T[t] EXCEPT !.ipc_state = state]) ELSE T[t]]

-----------------------------------------------------------------------------
(* Offering a message to the receivers asleep on a queue: those it is too  *)
(* large for are sent away, the first it fits gets it, else it is queued.  *)
Offer(x, m) ==
  LET n == SelectInSeq(x.receivers, LAMBDA u : m.size <= x.th[u].size)
      away == ToSet(IF n = 0 THEN x.receivers ELSE SubSeq(x.receivers, 1, n - 1))
      T == Told(x.th, away, "RCV_TOO_LARGE")
  IN IF n = 0
     THEN [messages |-> Append(x.messages, m), receivers |-> <<>>, th |-> T, got |-> x.got]
     ELSE LET u == x.receivers[n]
          IN [messages |-> x.messages, receivers |-> SubSeq(x.receivers, n + 1, Len(x.receivers)),
              th |-> [T EXCEPT ![u].ipc_state = "RCV_SUCCESS", ![u].kmsg = m],
              got |-> Append(x.got, u)]

Offered(q, T, ms) ==
  FoldLeft(Offer, [messages |-> mq[q].messages, receivers |-> mq[q].receivers,
                   th |-> T, got |-> <<>>], ms)

Home(p) == IF port[p].set = NoSet THEN p ELSE port[p].set

-----------------------------------------------------------------------------
(* msg_queue.                                                              *)

\* The port is alive and has room, or the sender does not care.  thread_go
\* for the receiver that got the message comes after the locks.
Enqueue(t, p, T, P) ==
  LET m == [port |-> p, id |-> sent[p] + 1, size |-> T[t].size]
      x == Offered(Home(p), T, <<m>>)
  IN /\ port' = [P EXCEPT ![p].count = @ + 1]
     /\ mq' = [mq EXCEPT ![Home(p)] = [messages |-> x.messages, receivers |-> x.receivers]]
     /\ sent' = [sent EXCEPT ![p] = @ + 1]
     /\ taken' = [taken EXCEPT ![p] = @ + Len(x.got)]
     /\ th' = IF x.got = <<>> THEN Return(x.th, t)
              ELSE [x.th EXCEPT ![t] = [Idle EXCEPT !.pc = "go", !.target = x.got[1]]]
     /\ UNCHANGED set

GiveUp(t, T, P) ==
  /\ port' = P /\ th' = Return(T, t)
  /\ UNCHANGED <<set, mq, entry, sender, sent, taken>>

\* SEND_NOTIFY on a full port: the translation remembers the message.
NotifyAccepted(t, p, T, P) ==
  \/ entry[t][p] # 0 /\ GiveUp(t, T, P)
  \/ /\ entry[t][p] = 0
     /\ entry' = [entry EXCEPT ![t][p] = sent[p] + 1]
     /\ sender' = [sender EXCEPT ![p][sent[p] + 1] = t]
     /\ Enqueue(t, p, T, P)

\* The loop that obeys the backlog; T and P are th and port as it finds them.
Attempt(t, T, P) ==
  LET r == T[t]
      p == r.obj
      full == P[p].count >= P[p].backlog /\ "SEND_ALWAYS" \notin r.option
      out == r.tout = 0
  IN \/ ~P[p].in_use /\ GiveUp(t, T, P)
     \/ P[p].in_use /\ ~full /\ Enqueue(t, p, T, P) /\ UNCHANGED <<entry, sender>>
     \/ P[p].in_use /\ full /\ out /\ "SEND_NOTIFY" \in r.option /\ NotifyAccepted(t, p, T, P)
     \/ /\ P[p].in_use /\ full /\ out /\ "SEND_NOTIFY" \notin r.option
        /\ "SEND_TIMEOUT" \in r.option
        /\ GiveUp(t, T, P)
     \/ /\ P[p].in_use /\ full
        /\ out => r.option \cap {"SEND_NOTIFY", "SEND_TIMEOUT"} = {}
        /\ port' = [P EXCEPT ![p].senders = Append(@, t)]
        /\ th' = [T EXCEPT ![t] = WillWait([@ EXCEPT !.pc = "sleep", !.ipc_state = "SEND_IN_PROGRESS"])]
        /\ UNCHANGED <<set, mq, entry, sender, sent, taken>>

\* msg_copyin has found the port; its lock is not held until msg_queue.
msg_send(t) ==
  /\ th[t].pc = "idle" /\ t \in Sender
  /\ \E p \in Port, o \in SendOptions, n \in SendSize[t], wait \in 0..1 :
       /\ entry[t][p] >= 0
       /\ sent[p] + Cardinality({u \in Sender : th[u].obj = p}) < MaxSent
       /\ "SEND_TIMEOUT" \notin o => wait = 0
       /\ th' = [th EXCEPT ![t] = [Idle EXCEPT !.pc = "queue", !.obj = p, !.option = o,
                                               !.tout = wait, !.size = n]]
  /\ UNCHANGED <<port, set, mq, entry, sender, sent, taken>>

msg_queue(t) == th[t].pc = "queue" /\ Attempt(t, th, port)

\* Back from thread_block.
msg_queue_woken(t) ==
  /\ th[t].pc = "sleep" /\ ~th[t].waiting
  /\ LET P == [port EXCEPT ![th[t].obj].senders = Remove(@, t)]
         T == [th EXCEPT ![t].tout = IF th[t].result = "THREAD_TIMED_OUT" THEN 0 ELSE @]
     IN \/ th[t].ipc_state = "SEND_SUCCESS" /\ Attempt(t, th, port)
        \/ /\ th[t].ipc_state = "SEND_IN_PROGRESS" /\ th[t].result = "THREAD_INTERRUPTED"
           /\ GiveUp(t, th, P)
        \/ /\ th[t].ipc_state = "SEND_IN_PROGRESS" /\ th[t].result # "THREAD_INTERRUPTED"
           /\ Attempt(t, T, P)

msg_queue_go(t) ==
  /\ th[t].pc = "go"
  /\ th' = [Return(th, t) EXCEPT ![th[t].target] = thread_go(@)]
  /\ UNCHANGED <<port, set, mq, entry, sender, sent, taken>>

-----------------------------------------------------------------------------
(* msg_dequeue.                                                            *)
DequeueLoop(t, T, Q) ==
  LET r == T[t]
      q == r.obj
      ms == Q[q].messages
  IN \/ /\ ms # <<>> /\ Head(ms).size > r.size
        /\ mq' = Q /\ th' = Return(T, t)
        /\ UNCHANGED taken
     \/ /\ ms # <<>> /\ Head(ms).size <= r.size
        /\ mq' = [Q EXCEPT ![q].messages = Tail(@)]
        /\ th' = [T EXCEPT ![t] = [Idle EXCEPT !.pc = "count", !.kmsg = Head(ms)]]
        /\ taken' = [taken EXCEPT ![Head(ms).port] = @ + 1]
     \/ /\ ms = <<>> /\ "RCV_TIMEOUT" \in r.option /\ r.tout = 0
        /\ mq' = Q /\ th' = Return(T, t)
        /\ UNCHANGED taken
     \/ /\ ms = <<>> /\ ("RCV_TIMEOUT" \in r.option => r.tout # 0)
        /\ mq' = [Q EXCEPT ![q].receivers = Append(@, t)]
        /\ th' = [T EXCEPT ![t] = WillWait([@ EXCEPT !.pc = "receive", !.ipc_state = "RCV_IN_PROGRESS"])]
        /\ UNCHANGED taken

\* Only from a port outside of any set, or from a set.
msg_receive_trap(t) ==
  /\ th[t].pc = "idle" /\ t \in Receiver
  /\ \E q \in Port \cup Set, n \in ReceiveSize[t], o \in ReceiveOptions, wait \in 0..1 :
       /\ q \in Port => port[q].in_use /\ port[q].receiver = "task" /\ port[q].set = NoSet
       /\ q \in Set => set[q].in_use
       /\ o = {} => wait = 0
       /\ DequeueLoop(t, [th EXCEPT ![t] = [Idle EXCEPT !.obj = q, !.size = n, !.option = o,
                                                        !.tout = wait]], mq)
  /\ UNCHANGED <<port, set, entry, sender, sent>>

\* Mutant: a receiver whose wait was cut short leaves itself on the queue.
msg_dequeue_woken_Stays(t) ==
  /\ th[t].pc = "receive" /\ ~th[t].waiting
  /\ \/ /\ th[t].ipc_state = "RCV_SUCCESS"
        /\ th' = [th EXCEPT ![t] = [Idle EXCEPT !.pc = "count", !.kmsg = th[t].kmsg]]
     \/ th[t].ipc_state # "RCV_SUCCESS" /\ th' = Return(th, t)
  /\ UNCHANGED <<port, set, mq, entry, sender, sent, taken>>

msg_dequeue_woken(t) ==
  /\ th[t].pc = "receive" /\ ~th[t].waiting
  /\ LET r == th[t]
         Q == [mq EXCEPT ![r.obj].receivers = Remove(@, t)]
     IN \/ /\ r.ipc_state = "RCV_SUCCESS"
           /\ th' = [th EXCEPT ![t] = [Idle EXCEPT !.pc = "count", !.kmsg = r.kmsg]]
           /\ UNCHANGED <<mq, taken>>
        \/ /\ r.ipc_state \in {"RCV_TOO_LARGE", "RCV_PORT_CHANGE", "RCV_INVALID_PORT"}
           /\ th' = Return(th, t)
           /\ UNCHANGED <<mq, taken>>
        \/ /\ r.ipc_state = "RCV_IN_PROGRESS" /\ r.result # "THREAD_AWAKENED"
           /\ th' = Return(th, t) /\ mq' = Q
           /\ UNCHANGED taken
        \/ /\ r.ipc_state = "RCV_IN_PROGRESS" /\ r.result = "THREAD_AWAKENED"
           /\ DequeueLoop(t, th, Q)
  /\ UNCHANGED <<port, set, entry, sender, sent>>

\* Mutant: the count before the message was taken is tested.
SendersToWake_OldCount(p, n) == IF n + 1 = 0 THEN ToSet(port[p].senders) ELSE {}

\* Who is woken when a message of p has been received and n are left.
SendersToWake(p, n) ==
  LET s == port[p].senders
  IN CASE s = <<>> -> {}
       [] s # <<>> /\ WWA -> {Head(s)}
       [] s # <<>> /\ ~WWA -> IF n = 0 THEN ToSet(s) ELSE {}

\* The receiver has its message and accounts for it, under the port lock.
msg_dequeue_count(t) ==
  /\ th[t].pc = "count"
  /\ LET m == th[t].kmsg
         p == m.port
         us == SendersToWake(p, port[p].count - 1)
         e == sender[p][m.id]
     IN /\ port' = [port EXCEPT ![p].count = @ - 1,
                                ![p].senders = SelectSeq(@, LAMBDA u : u \notin us)]
        /\ th' = Return(Told(th, us, "SEND_SUCCESS"), t)
        /\ entry' = IF e = NoThread THEN entry ELSE [entry EXCEPT ![e][p] = 0]
        /\ sender' = [sender EXCEPT ![p][m.id] = NoThread]
  /\ UNCHANGED <<set, mq, sent, taken>>

-----------------------------------------------------------------------------
(* Port sets.  set_add_member and set_remove_member take the state of both *)
(* objects as x and return it changed: both stay locked throughout.        *)
Messages(q, p) == SelectSeq(mq[q].messages, LAMBDA m : m.port = p)

\* msg_queue_changed: everyone asleep in receive on q is told why.
msg_queue_changed(x, q, state) ==
  [x EXCEPT !.th = Told(@, ToSet(x.mq[q].receivers), state),
            !.mq = [@ EXCEPT ![q].receivers = <<>>]]

Objects == [port |-> port, set |-> set, mq |-> mq, th |-> th, got |-> <<>>]

set_add_member(x, s, p) ==
  LET y == FoldLeft(Offer, [messages |-> x.mq[s].messages, receivers |-> x.mq[s].receivers,
                            th |-> x.th, got |-> <<>>], x.mq[p].messages)
      T == [t \in Thread |-> IF t \in ToSet(y.got) THEN thread_go(y.th[t]) ELSE y.th[t]]
  IN msg_queue_changed(
       [x EXCEPT !.port = [@ EXCEPT ![p].set = s],
                 !.mq = [@ EXCEPT ![s] = [messages |-> y.messages, receivers |-> y.receivers],
                                  ![p].messages = <<>>],
                 !.th = T, !.got = y.got],
       p, "RCV_PORT_CHANGE")

\* Mutant: the port leaves without its messages.
set_remove_member_Leaves(x, s, p) ==
  [x EXCEPT !.port = [@ EXCEPT ![p].set = NoSet],
            !.set = [@ EXCEPT ![s].traversal = IF @ = p THEN NoPort ELSE @]]

\* Mutant: set_destroy is not told that the port has left.
set_remove_member_KeepsNote(x, s, p) ==
  [x EXCEPT !.port = [@ EXCEPT ![p].set = NoSet],
            !.mq = [@ EXCEPT ![s].messages = SelectSeq(@, LAMBDA m : m.port # p),
                             ![p].messages = @ \o SelectSeq(x.mq[s].messages, LAMBDA m : m.port = p)]]

set_remove_member(x, s, p) ==
  [x EXCEPT !.port = [@ EXCEPT ![p].set = NoSet],
            !.set = [@ EXCEPT ![s].traversal = IF @ = p THEN NoPort ELSE @],
            !.mq = [@ EXCEPT ![s].messages = SelectSeq(@, LAMBDA m : m.port # p),
                             ![p].messages = @ \o SelectSeq(x.mq[s].messages, LAMBDA m : m.port = p)]]

Become(x) == port' = x.port /\ set' = x.set /\ mq' = x.mq /\ th' = x.th

Receives(t, p) == t \in Receiver /\ th[t].pc = "idle" /\ port[p].in_use /\ port[p].receiver = "task"

port_set_add(t, s, p) ==
  /\ Receives(t, p) /\ set[s].in_use /\ port[p].set # s
  /\ LET o == port[p].set
         x == set_add_member(IF o = NoSet THEN Objects ELSE set_remove_member(Objects, o, p), s, p)
     IN Become(x) /\ taken' = [taken EXCEPT ![p] = @ + Len(x.got)]
  /\ UNCHANGED <<entry, sender, sent>>

port_set_remove(t, p) ==
  /\ Receives(t, p) /\ port[p].set # NoSet /\ set[port[p].set].in_use
  /\ Become(set_remove_member(Objects, port[p].set, p))
  /\ UNCHANGED <<entry, sender, sent, taken>>

\* set_destroy's loop, the set locked: it needs the lock of the next member,
\* which comes before the set's, so it leaves a note and unlocks the set.
\* Which member is the next is left open.
DestroyLoop(t, s, x) ==
  LET members == {p \in Port : x.port[p].set = s}
  IN \/ /\ members = {}
        /\ LET y == msg_queue_changed(x, s, "RCV_INVALID_PORT")
           IN Become([y EXCEPT !.th = Return(@, t)])
     \/ \E p \in members :
          Become([x EXCEPT !.set = [@ EXCEPT ![s].traversal = p],
                           !.th = [@ EXCEPT ![t] = [Idle EXCEPT !.pc = "traverse",
                                                                !.obj = s, !.member = p]]])

port_set_deallocate(t, s) ==
  /\ t \in Receiver /\ th[t].pc = "idle" /\ set[s].in_use
  /\ DestroyLoop(t, s, [Objects EXCEPT !.set = [@ EXCEPT ![s].in_use = FALSE]])
  /\ UNCHANGED <<entry, sender, sent, taken>>

\* Port and set locked again; the port may have left the set meanwhile.
set_destroy_member(t) ==
  /\ th[t].pc = "traverse"
  /\ LET s == th[t].obj
         p == th[t].member
     IN DestroyLoop(t, s, IF set[s].traversal = NoPort THEN Objects
                          ELSE set_remove_member(Objects, s, p))
  /\ UNCHANGED <<entry, sender, sent, taken>>

-----------------------------------------------------------------------------
(* Receive rights: set_backlog, moving a right, the death of a port.       *)
\* Mutant: the senders are taken off the queue and woken, but not told why.
port_set_backlog_Untold(t, p) ==
  /\ Receives(t, p)
  /\ \E b \in 1..MaxBacklog \ {port[p].backlog} :
       LET s == port[p].senders
           space == b - port[p].backlog
           n == IF space <= 0 THEN 0 ELSE IF space < Len(s) THEN space ELSE Len(s)
       IN /\ port' = [port EXCEPT ![p].backlog = b, ![p].senders = SubSeq(s, n + 1, Len(s))]
          /\ th' = Told(th, ToSet(SubSeq(s, 1, n)), "SEND_IN_PROGRESS")
  /\ UNCHANGED <<set, mq, entry, sender, sent, taken>>

port_set_backlog(t, p) ==
  /\ Receives(t, p)
  /\ \E b \in 1..MaxBacklog \ {port[p].backlog} :
       LET s == port[p].senders
           space == b - port[p].backlog
           n == IF space <= 0 THEN 0 ELSE IF space < Len(s) THEN space ELSE Len(s)
       IN /\ port' = [port EXCEPT ![p].backlog = b, ![p].senders = SubSeq(s, n + 1, Len(s))]
          /\ th' = Told(th, ToSet(SubSeq(s, 1, n)), "SEND_SUCCESS")
  /\ UNCHANGED <<set, mq, entry, sender, sent, taken>>

port_clear_receiver(x, p, receiver) ==
  LET y == IF x.port[p].set # NoSet THEN set_remove_member(x, x.port[p].set, p)
           ELSE msg_queue_changed(x, p, "RCV_INVALID_PORT")
  IN [y EXCEPT !.port = [@ EXCEPT ![p].receiver = receiver]]

\* The receive right is put into a message ...
port_copyin_receive_own(t, p) ==
  /\ Receives(t, p)
  /\ Become(port_clear_receiver(Objects, p, "ipc_soft_task"))
  /\ UNCHANGED <<entry, sender, sent, taken>>

\* ... and taken out of it.
port_copyout_receive_own(t, p) ==
  /\ t \in Receiver /\ th[t].pc = "idle" /\ port[p].receiver = "ipc_soft_task"
  /\ port' = [port EXCEPT ![p].receiver = "task"]
  /\ UNCHANGED <<set, mq, th, entry, sender, sent, taken>>

\* port_destroy up to its first port_unlock.
Destroying(x, t, p) ==
  Become([x EXCEPT !.port = [@ EXCEPT ![p].in_use = FALSE, ![p].receiver = "none"],
                   !.th = [@ EXCEPT ![t] = [Idle EXCEPT !.pc = "discard", !.member = p]]])

port_dealloc(t, p) ==
  /\ Receives(t, p)
  /\ Destroying(port_clear_receiver(Objects, p, "none"), t, p)
  /\ UNCHANGED <<entry, sender, sent, taken>>

\* A message that carries the receive right is destroyed.
port_destroy_receive_own(t, p) ==
  /\ t \in Receiver /\ th[t].pc = "idle" /\ port[p].receiver = "ipc_soft_task"
  /\ Destroying(Objects, t, p)
  /\ UNCHANGED <<entry, sender, sent, taken>>

\* One message, or the end of them.
port_destroy_message(t) ==
  /\ th[t].pc = "discard"
  /\ LET p == th[t].member
         ms == mq[p].messages
         e == sender[p][Head(ms).id]
     IN \/ /\ ms = <<>>
           /\ th' = [th EXCEPT ![t].pc = "poke"]
           /\ UNCHANGED <<mq, entry, sender>>
        \/ /\ ms # <<>>
           /\ mq' = [mq EXCEPT ![p].messages = Tail(@)]
           /\ entry' = IF e = NoThread THEN entry ELSE [entry EXCEPT ![e][p] = 0]
           /\ sender' = [sender EXCEPT ![p][Head(ms).id] = NoThread]
           /\ UNCHANGED th
  /\ UNCHANGED <<port, set, sent, taken>>

\* A sleeping sender is taken off the queue, with the port unlocked ...
port_destroy_poke(t) ==
  /\ th[t].pc = "poke"
  /\ LET p == th[t].member
     IN \/ /\ port[p].senders = <<>>
           /\ th' = [th EXCEPT ![t].pc = "rights"]
           /\ UNCHANGED port
        \/ /\ port[p].senders # <<>>
           /\ port' = [port EXCEPT ![p].senders = Tail(@)]
           /\ th' = [th EXCEPT ![t].pc = "poked", ![t].target = Head(port[p].senders)]
  /\ UNCHANGED <<set, mq, entry, sender, sent, taken>>

\* ... then told.
port_destroy_poked(t) ==
  /\ th[t].pc = "poked"
  /\ th' = Told([th EXCEPT ![t].pc = "poke", ![t].target = NoThread], {th[t].target}, "SEND_SUCCESS")
  /\ UNCHANGED <<port, set, mq, entry, sender, sent, taken>>

\* Mutant: the message keeps its pointer to the translation.
obj_entry_remove_Dangles(t, p) ==
  /\ entry' = [entry EXCEPT ![t][p] = -1]
  /\ UNCHANGED sender

\* The state after t's translation of p is removed.
obj_entry_remove(t, p) ==
  /\ entry' = [entry EXCEPT ![t][p] = -1]
  /\ sender' = IF entry[t][p] > 0 THEN [sender EXCEPT ![p][entry[t][p]] = NoThread] ELSE sender

\* obj_destroy_rights: one translation, or the end of them.
port_destroy_rights(t) ==
  /\ th[t].pc = "rights"
  /\ LET p == th[t].member
         left == {u \in Sender : entry[u][p] >= 0}
     IN \/ left = {} /\ th' = Return(th, t) /\ UNCHANGED <<entry, sender>>
        \/ \E u \in left : obj_entry_remove(u, p) /\ UNCHANGED th
  /\ UNCHANGED <<port, set, mq, sent, taken>>

\* Another thread of the sender's task gives the send right up.
port_dealloc_send(t, p) ==
  /\ entry[t][p] >= 0
  /\ obj_entry_remove(t, p)
  /\ UNCHANGED <<port, set, mq, th, sent, taken>>

-----------------------------------------------------------------------------
Sending(t) == msg_send(t) \/ msg_queue(t) \/ msg_queue_woken(t) \/ msg_queue_go(t)
Receiving(t) == msg_receive_trap(t) \/ msg_dequeue_woken(t) \/ msg_dequeue_count(t)
SetCalls(t) ==
  \/ \E s \in Set, p \in Port : port_set_add(t, s, p)
  \/ \E p \in Port : port_set_remove(t, p)
  \/ \E s \in Set : port_set_deallocate(t, s)
  \/ set_destroy_member(t)
PortCalls(t) ==
  \/ \E p \in Port : \/ port_set_backlog(t, p) \/ port_copyin_receive_own(t, p)
                     \/ port_copyout_receive_own(t, p) \/ port_dealloc(t, p)
                     \/ port_destroy_receive_own(t, p)
  \/ port_destroy_message(t) \/ port_destroy_poke(t) \/ port_destroy_poked(t)
  \/ port_destroy_rights(t)

Next ==
  \/ \E t \in Thread : Turn(t) /\ (Sending(t) \/ Receiving(t) \/ SetCalls(t) \/ PortCalls(t))
  \/ \E t \in Sender, p \in Port : port_dealloc_send(t, p) /\ \A u \in Thread : Turn(u)
  \/ \E t \in Thread : Interrupt(t) \/ thread_timeout(t)

Spec == Init /\ [][Next]_vars

-----------------------------------------------------------------------------
(* Properties.                                                             *)
Queue == Port \cup Set
Message == [port : Port, id : 1..MaxSent, size : Nat]

\* The ports, sets and queues of the ipc_*.c files and the threads on them keep
\* their types; port_message_count never becomes negative, and port_set_backlog
\* leaves every port room for a message.
TypeOK ==
  /\ \A p \in Port : /\ port[p].in_use \in BOOLEAN
                     /\ port[p].receiver \in {"task", "ipc_soft_task", "none"}
                     /\ port[p].set \in Set \cup {NoSet}
                     /\ port[p].count \in 0..MaxSent /\ port[p].backlog \in 1..MaxBacklog
                     /\ port[p].senders \in Seq(Sender)
  /\ \A s \in Set : set[s].in_use \in BOOLEAN /\ set[s].traversal \in Port \cup {NoPort}
  /\ \A q \in Queue : mq[q].messages \in Seq(Message) /\ mq[q].receivers \in Seq(Receiver)
  /\ \A t \in Thread : th[t].waiting \in BOOLEAN /\ th[t].tout \in 0..1
  /\ entry \in [Sender -> [Port -> -1..MaxSent]]
  /\ sender \in [Port -> [1..MaxSent -> Sender \cup {NoThread}]]
  /\ sent \in [Port -> 0..MaxSent] /\ taken \in [Port -> 0..MaxSent]

\* The messages of a live port are in its home queue, whole and in the order
\* they were sent, whatever sets the port has been through; receivers got the
\* ones before them.
QueueInOrder ==
  \A p \in Port : port[p].in_use =>
    /\ Len(Messages(Home(p), p)) = sent[p] - taken[p]
    /\ \A i \in 1..(sent[p] - taken[p]) : Messages(Home(p), p)[i].id = taken[p] + i
    /\ \A q \in Queue \ {Home(p)} : Messages(q, p) = <<>>

\* Threads that have a message of p and have not counted it yet.
Uncounted(p) ==
  {t \in Receiver : /\ th[t].kmsg # <<>> /\ th[t].kmsg.port = p
                    /\ th[t].pc = "count" \/ (th[t].pc = "receive" /\ th[t].ipc_state = "RCV_SUCCESS")}

\* port_message_count is the number of messages queued on the port or handed
\* to a receiver that has not accounted for it: msg_dequeue counts under the
\* port lock what it took under the queue's.
CountAgrees ==
  \A p \in Port : port[p].in_use =>
    port[p].count = Len(Messages(Home(p), p)) + Cardinality(Uncounted(p))

\* No message is lost, duplicated, reordered or miscounted while its port moves
\* in and out of sets and receivers give up.
QueueInv == TypeOK /\ QueueInOrder /\ CountAgrees

\* Nobody sleeps in receive on a queue that holds a message: msg_queue,
\* set_add_member and set_remove_member hand it over or send the thread away.
NeverBothWait == \A q \in Queue : mq[q].messages # <<>> => mq[q].receivers = <<>>

\* A sender asleep on a live port has a message before it, whose reception
\* will wake it, or a sender that was woken for the room there is.
SendersHaveHope ==
  \A p \in Port : port[p].in_use /\ port[p].senders # <<>> =>
    \/ port[p].count > 0
    \/ \E t \in Sender : th[t].pc = "sleep" /\ th[t].obj = p /\ ~th[t].waiting

Sleepers(q) == IF q \in Port THEN mq[q].receivers \o port[q].senders ELSE mq[q].receivers
InProgress(t) == th[t].ipc_state \in {"SEND_IN_PROGRESS", "RCV_IN_PROGRESS"}

\* A thread that wakes for a reason other than its message finds itself on the
\* queue of the live object it went to sleep on, where msg_queue and msg_dequeue
\* remove it; a queue holds no thread twice and none that has been told what
\* happened.
InProgressIsQueued ==
  /\ \A t \in Thread : InProgress(t) /\ (t \in Sender => port[th[t].obj].in_use) =>
       Contains(Sleepers(th[t].obj), t)
  /\ \A q \in Queue : /\ \A t \in ToSet(Sleepers(q)) : InProgress(t) /\ th[t].obj = q
                      /\ IsInjective(Sleepers(q))

\* A sender that wakes for another reason can take itself off the wakeup queue,
\* also when its port is being destroyed.
SenderFindsItself ==
  \A t \in Sender : InProgress(t) /\ ~th[t].waiting /\ Turn(t) =>
    Contains(port[th[t].obj].senders, t)

\* A thread that waits is on a queue, or someone is about to wake it: no
\* wakeup is lost between taking a thread off the queue and thread_go.
WaitersAreFound ==
  \A t \in Thread : th[t].waiting =>
    \/ Contains(Sleepers(th[t].obj), t)
    \/ \E u \in Thread : th[u].pc \in {"go", "poked"} /\ th[u].target = t

\* The wait queues are right at every step: nobody sleeps beside a message, a
\* thread in progress is on its queue, and one that waits will be found.
SleepersInv == NeverBothWait /\ InProgressIsQueued /\ WaitersAreFound

\* The two halves of a SEND_NOTIFY agree: a translation's kmsg is a message
\* still on its way whose sender_entry is that translation, and the reverse.
NotifyAgrees ==
  \A p \in Port, i \in 1..MaxSent, t \in Sender :
    /\ (sender[p][i] = t) <=> (entry[t][p] = i)
    /\ entry[t][p] = i =>
         \/ \E q \in Queue : \E m \in ToSet(mq[q].messages) : m.port = p /\ m.id = i
         \/ \E u \in Uncounted(p) : th[u].kmsg.id = i

\* Nobody sleeps on what is gone: receivers on a port that is dead, in
\* transit or in a set, or on a set that is dead and not being taken apart;
\* senders on a dead port whose destroyer is past them.
DeadWakeAll ==
  /\ \A p \in Port : (port[p].receiver # "task" \/ port[p].set # NoSet) => mq[p].receivers = <<>>
  /\ \A p \in Port : port[p].set # NoSet => mq[p].messages = <<>>
  /\ \A s \in Set : mq[s].receivers # <<>> =>
       set[s].in_use \/ \E t \in Receiver : th[t].pc = "traverse" /\ th[t].obj = s
  /\ \A p \in Port : ~port[p].in_use /\ port[p].senders # <<>> =>
       \E t \in Receiver : th[t].pc \in {"discard", "poke", "poked"} /\ th[t].member = p

\* set_traversal names a member of the set while set_destroy waits for its
\* lock; when it is cleared the port has left.  A dead set is empty when its
\* destroyer is done.
TraversalAgrees ==
  /\ \A t \in Receiver : th[t].pc = "traverse" =>
       LET s == th[t].obj
           p == th[t].member
       IN set[s].traversal = IF port[p].set = s THEN p ELSE NoPort
  /\ \A s \in Set : (\E p \in Port : port[p].set = s) =>
       set[s].in_use \/ \E t \in Receiver : th[t].pc = "traverse" /\ th[t].obj = s

\* A port or set is taken apart completely, however the steps of set_destroy,
\* port_destroy and the threads that use both interleave.
DeathInv == DeadWakeAll /\ TraversalAgrees
=============================================================================

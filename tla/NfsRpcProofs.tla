---------------------------- MODULE NfsRpcProofs ----------------------------
(***************************************************************************)
(* Proofs about NfsRpc, for any clients, nfsds, workload and size of the   *)
(* duplicate cache: what a client is told was done was done (ReplyIsTrue), *)
(* and buffers are kept (RpcInv, with what NfsRpcBuffers says of steps).   *)
(*                                                                         *)
(* The argument follows an answer backwards.  An NFS_OK answers a request  *)
(* that was performed (Done), on its way from rfs_dispatch or the cache    *)
(* through the network to the client.  A client takes only the answer to   *)
(* its latest transaction id, and a transaction id belongs to one call     *)
(* (Latest).  Both facts are kept as the sets the datagrams, requests and  *)
(* cache entries are taken from, and these sets only grow.                 *)
(***************************************************************************)
EXTENDS NfsRpcBuffers

\* The provers, in turn, of a leaf that names none.
USE SMTT(30), ZenonT(30), Z3T(30), SMTT(60), Z3T(60), SMTT(90)

\* A sequence of members of a set is one of members of a larger set.
LEMMA SeqGrows ==
  ASSUME NEW S, NEW T, S \subseteq T, NEW s \in Seq(S)
  PROVE  s \in Seq(T)
  OBVIOUS

\* The first member of a sequence, and the others.
LEMMA SeqHeadTail ==
  ASSUME NEW S, NEW s \in Seq(S), s # <<>>
  PROVE  Head(s) \in S /\ Tail(s) \in Seq(S)
  OBVIOUS

\* The handle of a client, as far as the argument goes.
IsHandle(x) ==
    /\ DOMAIN x = {"pc", "op", "call", "xid", "stries", "rtries", "asleep", "bufbusy",
                   "outbuf", "rcv", "status", "told", "down"}
    /\ x.call \in Nat /\ x.xid \in Nat

Clients == DOMAIN clnt = Client /\ \A c \in Client : IsHandle(clnt[c])

Nfsds ==
    /\ DOMAIN nfsd = Nfsd
    /\ \A n \in Nfsd :
         DOMAIN nfsd[n] = {"pc", "req", "lookup", "again", "status", "busy"}

Keys == [from : Client, xid : Nat, op : Ops]

\* The request c sent with this transaction id has been performed.
Done(c, xid) == \E q \in performed : q.from = c /\ q.xid = xid

\* A client's latest transaction id is that of its latest call.
Latest(c, xid, call) ==
    xid < clnt[c].xid \/ (xid = clnt[c].xid /\ call = clnt[c].call)

\* What may be on its way or in use: requests with a number their client has
\* given out, answers that are true, cache entries for what was performed.
Sent == {d \in Own : Latest(d.from, d.xid, d.call)}
TrueReplies(c) == {d \in Replies : d.from = c /\ (d.status = "NFS_OK" => Done(c, d.xid))}
Known == {k \in Keys : Done(k.from, k.xid)}
Log == {q \in [from : Client, call : Nat, xid : Nat] : Latest(q.from, q.xid, q.call)}

\* A client with handle x: it waits with its latest number, and what it holds as
\* an answer or has told its caller is true.
ClientInv(c, x) ==
    /\ x.rcv \in Seq(TrueReplies(c))
    /\ x.pc # "idle" => x.op \in Ops /\ x.told = {}
    /\ x.pc = "receive" => x.outbuf = x.xid
    /\ x.pc = "drain" /\ x.status = "NFS_OK" => Done(c, x.xid)
    /\ x.told = {"NFS_OK"} => Done(c, x.xid)

\* An nfsd with transport x: it has one request, which has been performed when it
\* was found in the cache or is about to be answered with NFS_OK.
NfsdInv(x) ==
    /\ x.req \subseteq Sent
    /\ \A r, q \in x.req : r = q
    /\ x.pc = "svc_run" => ~x.lookup /\ x.status = "none"
    /\ x.pc \in {"rfs_dispatch", "send"} => x.status \in {"NFS_OK", "NFSERR"}
    /\ x.lookup \/ x.status = "NFS_OK" => \A r \in x.req : Done(r.from, r.xid)

\* The inductive invariant.
AnswerInv ==
    /\ load \in Workload
    /\ Clients /\ Nfsds
    /\ \A c \in Client : ClientInv(c, clnt[c])
    /\ \A n \in Nfsd : NfsdInv(nfsd[n])
    /\ sock \in Seq(Sent)
    /\ cache \in Seq(Known)
    /\ \A d \in net : d \in Sent \/ \E c \in Client : d \in TrueReplies(c)
    /\ performed \subseteq Log

-----------------------------------------------------------------------------
(* A step never takes back a number or an operation *)

\* Clients go on to new transaction ids, and what was performed stays so.
Forward ==
    /\ Clients'
    /\ \A c \in Client : \/ clnt[c].xid < clnt'[c].xid
                         \/ clnt'[c].xid = clnt[c].xid /\ clnt'[c].call = clnt[c].call
    /\ performed \subseteq performed'

\* What was performed stays so.
LEMMA DoneStays ==
  ASSUME Forward, NEW c, NEW x, Done(c, x)
  PROVE  Done(c, x)'
  BY DEF Forward, Done

\* What may be on its way may be so after the step.
LEMMA SetsGrow ==
  ASSUME AnswerInv, Forward
  PROVE  /\ Sent \subseteq Sent'
         /\ \A c \in Client : TrueReplies(c) \subseteq TrueReplies(c)'
         /\ Known \subseteq Known'
         /\ Log \subseteq Log'
  <1>1. \A c \in Client : clnt[c].xid \in Nat /\ clnt'[c].xid \in Nat
    BY DEF AnswerInv, Forward, Clients, IsHandle
  <1>2. ASSUME NEW c \in Client, NEW x \in Nat, NEW k, Latest(c, x, k)
        PROVE  Latest(c, x, k)'
    BY <1>1, <1>2 DEF Latest, Forward
  <1>3. Sent \subseteq Sent'
    BY <1>2 DEF Sent, Own, Requests
  <1>4. \A c \in Client : TrueReplies(c) \subseteq TrueReplies(c)'
    BY DoneStays DEF TrueReplies
  <1>5. Known \subseteq Known'
    BY DoneStays DEF Known
  <1>6. Log \subseteq Log'
    BY <1>2 DEF Log
  <1> QED
    BY <1>3, <1>4, <1>5, <1>6

\* What a step leaves alone is as it was.
LEMMA RestKept ==
  ASSUME AnswerInv, Forward
  PROVE  /\ sock \in Seq(Sent')
         /\ cache \in Seq(Known')
         /\ \A d \in net : d \in Sent' \/ \E c \in Client : d \in TrueReplies(c)'
         /\ performed \subseteq Log'
  <1>1. sock \in Seq(Sent')
    BY SetsGrow, SeqGrows DEF AnswerInv
  <1>2. cache \in Seq(Known')
    BY SetsGrow, SeqGrows DEF AnswerInv
  <1> QED
    BY <1>1, <1>2, SetsGrow DEF AnswerInv

\* A handle that is as the invariant says is so after the step.
LEMMA HandleKept ==
  ASSUME AnswerInv, Forward, NEW c \in Client, NEW x, ClientInv(c, x)
  PROVE  ClientInv(c, x)'
  <1>1. x.rcv \in Seq(TrueReplies(c)')
    BY SetsGrow, SeqGrows DEF ClientInv
  <1> QED
    BY <1>1, DoneStays DEF ClientInv

\* So is a transport.
LEMMA TransportKept ==
  ASSUME AnswerInv, Forward, NEW x, NfsdInv(x)
  PROVE  NfsdInv(x)'
  <1>1. x.req \subseteq Sent'
    BY SetsGrow DEF NfsdInv
  <1> QED
    BY <1>1, DoneStays DEF NfsdInv

\* The fields of a handle that its invariant is about.
SameHandle(x, y) ==
    /\ x.pc = y.pc /\ x.op = y.op /\ x.xid = y.xid /\ x.outbuf = y.outbuf
    /\ x.rcv = y.rcv /\ x.told = y.told /\ x.status = y.status

\* Clients whose buffers are given back at most keep their invariant.
LEMMA ClientsKept ==
  ASSUME AnswerInv, Forward, \A c \in Client : SameHandle(clnt'[c], clnt[c])
  PROVE  \A c \in Client : ClientInv(c, clnt[c])'
  <1> SUFFICES ASSUME NEW c \in Client PROVE ClientInv(c, clnt[c])'
    OBVIOUS
  <1>1. ClientInv(c, clnt[c])
    BY DEF AnswerInv
  <1> QED
    BY <1>1, HandleKept DEF ClientInv, SameHandle

\* So do nfsds.
LEMMA NfsdsKept ==
  ASSUME AnswerInv, Forward, DOMAIN nfsd' = Nfsd,
         \A n \in Nfsd : nfsd'[n] = nfsd[n] \/ nfsd'[n] = [nfsd[n] EXCEPT !.busy = FALSE]
  PROVE  Nfsds' /\ \A n \in Nfsd : NfsdInv(nfsd[n])'
  <1>1. ASSUME NEW n \in Nfsd
        PROVE  DOMAIN nfsd'[n] = DOMAIN nfsd[n] /\ NfsdInv(nfsd[n])'
    <2>1. /\ DOMAIN nfsd[n] = {"pc", "req", "lookup", "again", "status", "busy"}
          /\ NfsdInv(nfsd[n])
      BY DEF AnswerInv, Nfsds
    <2>2. /\ DOMAIN nfsd'[n] = DOMAIN nfsd[n]
          /\ nfsd'[n].pc = nfsd[n].pc /\ nfsd'[n].req = nfsd[n].req
          /\ nfsd'[n].lookup = nfsd[n].lookup /\ nfsd'[n].status = nfsd[n].status
      BY <2>1
    <2> QED
      BY <2>1, <2>2, TransportKept DEF NfsdInv
  <1> QED
    BY <1>1 DEF AnswerInv, Nfsds

\* The buffers of the nfsds are all that freeing replies changes.
LEMMA RepliesFreed ==
  ASSUME AnswerInv, Forward, NEW R, UNCHANGED nfsd \/ FreeReplies(R)
  PROVE  Nfsds' /\ \A n \in Nfsd : NfsdInv(nfsd[n])'
  <1>1. /\ DOMAIN nfsd' = Nfsd
        /\ \A n \in Nfsd : nfsd'[n] = nfsd[n] \/ nfsd'[n] = [nfsd[n] EXCEPT !.busy = FALSE]
    BY ZenonT(30) DEF FreeReplies, AnswerInv, Nfsds
  <1> QED
    BY <1>1, NfsdsKept

-----------------------------------------------------------------------------
(* The client *)

\* What a call of clntkudp_callit starts from.
LEMMA NewCallIs ==
  ASSUME NEW x, IsHandle(x)
  PROVE  /\ IsHandle(NewCall(x))
         /\ NewCall(x).pc = "call_again" /\ NewCall(x).xid = x.xid + 1
         /\ NewCall(x).call = x.call /\ NewCall(x).op = x.op
         /\ NewCall(x).told = x.told /\ NewCall(x).rcv = x.rcv
  BY DEF NewCall, IsHandle

\* What is left of a try that failed.
LEMMA FailedIs ==
  ASSUME NEW x, IsHandle(x), NEW s
  PROVE  /\ IsHandle(Failed(x, s))
         /\ Failed(x, s).pc \in {"call_again", "drain"} /\ Failed(x, s).xid = x.xid
         /\ Failed(x, s).call = x.call /\ Failed(x, s).op = x.op
         /\ Failed(x, s).told = x.told /\ Failed(x, s).rcv = x.rcv
         /\ Failed(x, s).status = s
  BY DEF Failed, IsHandle

\* A client moves forward when its number and call do, and leaves the others as
\* they are.
LEMMA OneClient ==
  ASSUME AnswerInv, NEW c \in Client, NEW y, IsHandle(y), ClientInv(c, y),
         clnt' = [clnt EXCEPT ![c] = y], UNCHANGED performed,
         clnt[c].xid < y.xid \/ (y.xid = clnt[c].xid /\ y.call = clnt[c].call)
  PROVE  Forward /\ \A e \in Client : ClientInv(e, clnt[e])'
  <1>1. DOMAIN clnt = Client /\ \A e \in Client : IsHandle(clnt[e])
    BY DEF AnswerInv, Clients
  <1>2. clnt'[c] = y /\ \A e \in Client \ {c} : clnt'[e] = clnt[e]
    BY <1>1
  <1>3. Forward
    BY <1>1, <1>2 DEF Forward, Clients
  <1>4. ASSUME NEW e \in Client PROVE ClientInv(e, clnt[e])'
    <2>1. ClientInv(e, clnt[e])
      BY DEF AnswerInv
    <2>2. CASE e = c
      BY <1>2, <1>3, <2>2, HandleKept DEF ClientInv
    <2>3. CASE e # c
      BY <1>2, <1>3, <2>1, <2>3, HandleKept DEF ClientInv
    <2> QED
      BY <2>2, <2>3
  <1> QED
    BY <1>3, <1>4

\* A client's step that leaves the rest of the server and of the network alone.
LEMMA ClientAlone ==
  ASSUME AnswerInv, NEW c \in Client, NEW y, IsHandle(y), ClientInv(c, y),
         clnt' = [clnt EXCEPT ![c] = y],
         clnt[c].xid < y.xid \/ (y.xid = clnt[c].xid /\ y.call = clnt[c].call),
         UNCHANGED <<sock, cache, net, performed, load>>,
         NEW R, UNCHANGED nfsd \/ FreeReplies(R)
  PROVE  AnswerInv'
  <1>1. Forward /\ \A e \in Client : ClientInv(e, clnt[e])'
    BY OneClient, ZenonT(30)
  <1>2. Nfsds' /\ \A n \in Nfsd : NfsdInv(nfsd[n])'
    BY <1>1, RepliesFreed
  <1> QED
    BY <1>1, <1>2, RestKept DEF AnswerInv, Forward

\* What the invariant says of one client.
LEMMA HandleFacts ==
  ASSUME AnswerInv, NEW c \in Client
  PROVE  IsHandle(clnt[c]) /\ ClientInv(c, clnt[c])
  BY DEF AnswerInv, Clients

\* rfscall starts a call with a number of its own and has told nothing yet.
LEMMA rfscallKeeps ==
  ASSUME AnswerInv, NEW c \in Client, rfscall(c)
  PROVE  AnswerInv'
  <1>1. PICK op \in load.may[c] :
           clnt' = [clnt EXCEPT ![c] =
                      NewCall([clnt[c] EXCEPT !.op = op, !.call = @ + 1, !.told = {}])]
    BY ZenonT(30) DEF rfscall
  <1> DEFINE x == [clnt[c] EXCEPT !.op = op, !.call = @ + 1, !.told = {}]
             y == NewCall(x)
  <1>2. op \in Ops
    BY <1>1, RpcAssumption DEF AnswerInv, Ops
  <1>3. IsHandle(clnt[c]) /\ ClientInv(c, clnt[c])
    BY HandleFacts
  <1>4. /\ IsHandle(x) /\ x.op = op /\ x.told = {}
        /\ x.xid = clnt[c].xid /\ x.rcv = clnt[c].rcv
    BY <1>3 DEF IsHandle
  <1>5. /\ IsHandle(y) /\ y.pc = "call_again" /\ y.xid = clnt[c].xid + 1
        /\ y.op = op /\ y.told = {} /\ y.rcv = clnt[c].rcv
    BY <1>4, NewCallIs, ZenonT(30)
  <1>6. clnt' = [clnt EXCEPT ![c] = y]
    BY <1>1
  <1> HIDE DEF x, y
  <1>7. clnt[c].xid < y.xid
    BY <1>3, <1>5 DEF IsHandle
  <1>8. ClientInv(c, y)
    BY <1>2, <1>3, <1>5 DEF ClientInv
  <1> QED
    BY <1>5, <1>6, <1>7, <1>8, ClientAlone, ZenonT(30) DEF rfscall, ServerSide

\* Waiting for the buffer changes no answer; the replies it frees are dropped.
LEMMA buffer_waitKeeps ==
  ASSUME AnswerInv, NEW c \in Client, buffer_wait(c)
  PROVE  AnswerInv'
  <1>1. IsHandle(clnt[c]) /\ ClientInv(c, clnt[c]) /\ DOMAIN clnt = Client
    BY HandleFacts DEF AnswerInv, Clients
  <1>2. CASE clnt' = [clnt EXCEPT ![c].asleep = TRUE] /\ UNCHANGED nfsd
    <2> DEFINE y == [clnt[c] EXCEPT !.asleep = TRUE]
    <2>1. IsHandle(y) /\ SameHandle(y, clnt[c]) /\ y.call = clnt[c].call
      BY <1>1 DEF IsHandle, SameHandle
    <2>2. ClientInv(c, y)
      BY <1>1, <2>1 DEF ClientInv, SameHandle
    <2>3. clnt' = [clnt EXCEPT ![c] = y]
      BY <1>2
    <2> HIDE DEF y
    <2> QED
      BY <1>2, <2>1, <2>2, <2>3, ClientAlone, ZenonT(30) DEF buffer_wait, Bounds, SameHandle
  <1>3. CASE /\ clnt' = [clnt EXCEPT ![c].asleep = FALSE, ![c].rcv = <<>>]
             /\ FreeReplies(Range(clnt[c].rcv))
    <2> DEFINE y == [clnt[c] EXCEPT !.asleep = FALSE, !.rcv = <<>>]
    <2>1. /\ IsHandle(y) /\ y.rcv = <<>> /\ y.pc = clnt[c].pc /\ y.op = clnt[c].op
          /\ y.xid = clnt[c].xid /\ y.call = clnt[c].call /\ y.outbuf = clnt[c].outbuf
          /\ y.told = clnt[c].told /\ y.status = clnt[c].status
      BY <1>1 DEF IsHandle
    <2>2. ClientInv(c, y)
      BY <1>1, <2>1 DEF ClientInv
    <2>3. clnt' = [clnt EXCEPT ![c] = y]
      BY <1>1, <1>3, ZenonT(30)
    <2> HIDE DEF y
    <2> QED
      BY <1>3, <2>1, <2>2, <2>3, ClientAlone, ZenonT(30) DEF buffer_wait, Bounds
  <1> QED
    BY <1>2, <1>3, ZenonT(30) DEF buffer_wait

\* What is sent has the client's latest number and call.
LEMMA ku_sendto_mbufKeeps ==
  ASSUME AnswerInv, NEW c \in Client, ku_sendto_mbuf(c)
  PROVE  AnswerInv'
  <1> DEFINE y == [clnt[c] EXCEPT !.pc = "receive", !.bufbusy = TRUE,
                                  !.outbuf = clnt[c].xid, !.rtries = RECVTRIES,
                                  !.asleep = clnt[c].rcv = <<>>]
             d == Request(clnt[c], c)
  <1>1. IsHandle(clnt[c]) /\ ClientInv(c, clnt[c]) /\ DOMAIN clnt = Client
    BY HandleFacts DEF AnswerInv, Clients
  <1>2. /\ IsHandle(y) /\ y.pc = "receive" /\ y.outbuf = y.xid
        /\ y.rcv = clnt[c].rcv /\ y.op = clnt[c].op
        /\ y.xid = clnt[c].xid /\ y.call = clnt[c].call /\ y.told = clnt[c].told
    BY <1>1 DEF IsHandle
  <1>3. clnt[c].pc = "call_again"
    BY DEF ku_sendto_mbuf, Ready
  <1>4. ClientInv(c, y)
    BY <1>1, <1>2, <1>3 DEF ClientInv
  <1>5. clnt' = [clnt EXCEPT ![c] = y] /\ clnt'[c] = y
    BY <1>1, ZenonT(30) DEF ku_sendto_mbuf
  <1>6. d \in Sent'
    <2>1. d \in Requests
      BY <1>1, <1>3 DEF Request, Requests, IsHandle, ClientInv
    <2>2. d.from = c /\ d.by = c /\ d.xid = clnt'[c].xid /\ d.call = clnt'[c].call
      BY <1>2, <1>5 DEF Request
    <2> QED
      BY <2>1, <2>2 DEF Sent, Own, Latest
  <1> HIDE DEF y, d
  <1>7. Forward /\ \A e \in Client : ClientInv(e, clnt[e])'
    BY <1>2, <1>4, <1>5, OneClient, ZenonT(30) DEF ku_sendto_mbuf
  <1>8. Nfsds' /\ \A n \in Nfsd : NfsdInv(nfsd[n])'
    BY <1>7, RepliesFreed DEF ku_sendto_mbuf
  <1>9. /\ sock' \in Seq(Sent')
        /\ \A e \in net' : e \in Sent' \/ \E b \in Client : e \in TrueReplies(b)'
    <2>1. CASE sock' = Append(sock, d) /\ UNCHANGED net
      BY <1>6, <1>7, <2>1, RestKept
    <2>2. CASE net' = net \cup {d} /\ UNCHANGED sock
      BY <1>6, <1>7, <2>2, RestKept
    <2> QED
      BY <2>1, <2>2 DEF ku_sendto_mbuf, d
  <1> QED
    BY <1>7, <1>8, <1>9, RestKept, ZenonT(30) DEF AnswerInv, Forward, ku_sendto_mbuf, Bounds

\* A try that failed leaves a handle that is as the invariant says.
LEMMA FailedKeeps ==
  ASSUME NEW c \in Client, NEW x, IsHandle(x), x.rcv \in Seq(TrueReplies(c)),
         x.op \in Ops, x.told = {}, NEW s, s # "NFS_OK"
  PROVE  ClientInv(c, Failed(x, s))
  <1> DEFINE y == Failed(x, s)
  <1>1. /\ y.pc \in {"call_again", "drain"} /\ y.op = x.op /\ y.told = x.told
        /\ y.rcv = x.rcv /\ y.status = s
    BY FailedIs
  <1> HIDE DEF y
  <1>2. ClientInv(c, y)
    BY <1>1 DEF ClientInv
  <1> QED
    BY <1>2 DEF y

\* A datagram that cannot be sent is no answer.
LEMMA cannot_sendKeeps ==
  ASSUME AnswerInv, NEW c \in Client, cannot_send(c)
  PROVE  AnswerInv'
  <1> DEFINE x == [clnt[c] EXCEPT !.outbuf = clnt[c].xid]
             y == Failed(x, "RPC_CANTSEND")
  <1>1. IsHandle(clnt[c]) /\ ClientInv(c, clnt[c]) /\ clnt[c].pc = "call_again"
    BY HandleFacts DEF cannot_send, Ready
  <1>2. /\ IsHandle(x) /\ x.rcv = clnt[c].rcv /\ x.op = clnt[c].op
        /\ x.told = clnt[c].told /\ x.xid = clnt[c].xid /\ x.call = clnt[c].call
    BY <1>1 DEF IsHandle
  <1>3. clnt' = [clnt EXCEPT ![c] = y]
    BY DEF cannot_send
  <1> HIDE DEF x
  <1>4. ClientInv(c, y)
    BY <1>1, <1>2, FailedKeeps DEF ClientInv
  <1>5. IsHandle(y) /\ y.xid = clnt[c].xid /\ y.call = clnt[c].call
    BY <1>2, FailedIs
  <1> HIDE DEF y
  <1> QED
    BY <1>3, <1>4, <1>5, ClientAlone, ZenonT(30) DEF cannot_send, ServerSide, Bounds

\* A timeout is no answer.
LEMMA timed_outKeeps ==
  ASSUME AnswerInv, NEW c \in Client, timed_out(c)
  PROVE  AnswerInv'
  <1> DEFINE y == Failed(clnt[c], "RPC_TIMEDOUT")
  <1>1. IsHandle(clnt[c]) /\ ClientInv(c, clnt[c]) /\ clnt[c].pc = "receive"
    BY HandleFacts DEF timed_out
  <1>2. clnt' = [clnt EXCEPT ![c] = y]
    BY DEF timed_out
  <1>3. ClientInv(c, y)
    BY <1>1, FailedKeeps DEF ClientInv
  <1>4. IsHandle(y) /\ y.xid = clnt[c].xid /\ y.call = clnt[c].call
    BY <1>1, FailedIs
  <1> HIDE DEF y
  <1> QED
    BY <1>2, <1>3, <1>4, ClientAlone, ZenonT(30) DEF timed_out, ServerSide, Bounds

\* An interrupt is no answer.
LEMMA interruptedKeeps ==
  ASSUME AnswerInv, NEW c \in Client, interrupted(c)
  PROVE  AnswerInv'
  <1> DEFINE y == [clnt[c] EXCEPT !.pc = "drain", !.asleep = FALSE, !.status = "RPC_INTR"]
  <1>1. /\ IsHandle(clnt[c]) /\ ClientInv(c, clnt[c]) /\ clnt[c].pc = "receive"
        /\ DOMAIN clnt = Client
    BY HandleFacts DEF interrupted, AnswerInv, Clients
  <1>2. /\ IsHandle(y) /\ y.pc = "drain" /\ y.status = "RPC_INTR" /\ y.rcv = clnt[c].rcv
        /\ y.op = clnt[c].op /\ y.told = clnt[c].told
        /\ y.xid = clnt[c].xid /\ y.call = clnt[c].call
    BY <1>1 DEF IsHandle
  <1>3. clnt' = [clnt EXCEPT ![c] = y]
    BY <1>1, ZenonT(30) DEF interrupted
  <1> HIDE DEF y
  <1>4. ClientInv(c, y)
    BY <1>1, <1>2 DEF ClientInv
  <1> QED
    BY <1>2, <1>3, <1>4, ClientAlone, ZenonT(30) DEF interrupted, ServerSide, Bounds

\* The answer a client takes is the one to its latest request.
LEMMA ku_recvfromKeeps ==
  ASSUME AnswerInv, NEW c \in Client, ku_recvfrom(c)
  PROVE  AnswerInv'
  <1> DEFINE x == clnt[c]
             r == Head(x.rcv)
  <1>1. /\ IsHandle(x) /\ ClientInv(c, x) /\ x.pc = "receive" /\ x.rcv # <<>>
        /\ DOMAIN clnt = Client
    BY HandleFacts DEF ku_recvfrom, AnswerInv, Clients
  <1>2. r \in TrueReplies(c) /\ Tail(x.rcv) \in Seq(TrueReplies(c))
    BY <1>1, SeqHeadTail DEF ClientInv
  <1>3. CASE r.xid = x.outbuf
    <2> DEFINE y == [x EXCEPT !.pc = "drain", !.status = r.status, !.rcv = <<>>,
                              !.asleep = FALSE]
    <2>1. /\ IsHandle(y) /\ y.pc = "drain" /\ y.status = r.status /\ y.rcv = <<>>
          /\ y.op = x.op /\ y.told = x.told /\ y.xid = x.xid /\ y.call = x.call
      BY <1>1 DEF IsHandle
    <2>2. clnt' = [clnt EXCEPT ![c] = y] /\ FreeReplies(Range(x.rcv))
      BY <1>1, <1>3, ZenonT(30) DEF ku_recvfrom
    <2>3. r.status = "NFS_OK" => Done(c, x.xid)
      BY <1>1, <1>2, <1>3 DEF TrueReplies, ClientInv
    <2> HIDE DEF y
    <2>4. ClientInv(c, y)
      BY <1>1, <2>1, <2>3 DEF ClientInv
    <2> QED
      BY <2>1, <2>2, <2>4, ClientAlone, ZenonT(30) DEF ku_recvfrom, Bounds
  <1>4. CASE r.xid # x.outbuf
    <2> DEFINE w == [x EXCEPT !.rcv = Tail(@), !.rtries = @ - 1]
               y == IF w.rtries = 0 THEN Failed(w, "RPC_CANTRECV")
                    ELSE [w EXCEPT !.asleep = w.rcv = <<>>]
    <2>1. /\ IsHandle(w) /\ w.pc = x.pc /\ w.rcv = Tail(x.rcv) /\ w.outbuf = x.outbuf
          /\ w.op = x.op /\ w.told = x.told /\ w.xid = x.xid /\ w.call = x.call
      BY <1>1 DEF IsHandle
    <2>2. clnt' = [clnt EXCEPT ![c] = y] /\ FreeReplies({r})
      BY <1>1, <1>4 DEF ku_recvfrom
    <2> HIDE DEF w
    <2>3. IsHandle(y) /\ ClientInv(c, y) /\ y.xid = x.xid /\ y.call = x.call
      <3>1. CASE w.rtries = 0
        <4>1. x.op \in Ops /\ x.told = {}
          BY <1>1 DEF ClientInv
        <4>2. ClientInv(c, Failed(w, "RPC_CANTRECV"))
          BY <1>2, <2>1, <4>1, FailedKeeps, ZenonT(30)
        <4> QED
          BY <2>1, <3>1, <4>2, FailedIs
      <3>2. CASE w.rtries # 0
        <4> DEFINE z == [w EXCEPT !.asleep = w.rcv = <<>>]
        <4>1. IsHandle(z) /\ SameHandle(z, w) /\ z.call = w.call
          BY <2>1 DEF IsHandle, SameHandle
        <4>2. y = z
          BY <3>2
        <4> HIDE DEF z, y
        <4> QED
          BY <1>1, <1>2, <2>1, <4>1, <4>2, ZenonT(30) DEF ClientInv, SameHandle
      <3> QED
        BY <3>1, <3>2
    <2> HIDE DEF y
    <2> QED
      BY <2>2, <2>3, ClientAlone, ZenonT(30) DEF ku_recvfrom, Bounds
  <1> QED
    BY <1>3, <1>4

\* callit_return tells the status of the latest number, or takes a new number.
LEMMA callit_returnKeeps ==
  ASSUME AnswerInv, NEW c \in Client, callit_return(c)
  PROVE  AnswerInv'
  <1> DEFINE x == clnt[c]
  <1>1. IsHandle(x) /\ ClientInv(c, x) /\ x.pc = "drain" /\ DOMAIN clnt = Client
    BY HandleFacts DEF callit_return, Ready, AnswerInv, Clients
  <1>2. CASE clnt' = [clnt EXCEPT ![c] = NewCall(x)]
    <2>1. /\ IsHandle(NewCall(x)) /\ NewCall(x).pc = "call_again"
          /\ NewCall(x).xid = x.xid + 1 /\ NewCall(x).op = x.op
          /\ NewCall(x).told = x.told /\ NewCall(x).rcv = x.rcv
      BY <1>1, NewCallIs
    <2>2. x.xid < NewCall(x).xid
      BY <1>1, <2>1 DEF IsHandle
    <2>3. ClientInv(c, NewCall(x))
      BY <1>1, <2>1, ZenonT(30) DEF ClientInv
    <2> QED
      BY <1>2, <2>1, <2>2, <2>3, ClientAlone, ZenonT(30) DEF callit_return, ServerSide, Bounds
  <1>3. CASE clnt' = [clnt EXCEPT ![c] =
                [Idle EXCEPT !.call = x.call, !.xid = x.xid, !.rcv = x.rcv,
                             !.told = {x.status},
                             !.down = x.status \notin {"NFS_OK", "NFSERR"}]]
    <2> DEFINE y == [Idle EXCEPT !.call = x.call, !.xid = x.xid, !.rcv = x.rcv,
                                 !.told = {x.status},
                                 !.down = x.status \notin {"NFS_OK", "NFSERR"}]
    <2>1. /\ IsHandle(y) /\ y.pc = "idle" /\ y.xid = x.xid /\ y.call = x.call
          /\ y.rcv = x.rcv /\ y.told = {x.status}
      BY <1>1 DEF IsHandle, Idle
    <2>2. clnt' = [clnt EXCEPT ![c] = y]
      BY <1>3
    <2> HIDE DEF y
    <2>3. ClientInv(c, y)
      BY <1>1, <2>1, ZenonT(30) DEF ClientInv
    <2> QED
      BY <2>1, <2>2, <2>3, ClientAlone, ZenonT(30) DEF callit_return, ServerSide, Bounds
  <1> QED
    BY <1>2, <1>3, ZenonT(30) DEF callit_return

-----------------------------------------------------------------------------
(* The server *)

\* What the invariant says of one nfsd.
LEMMA TransportFacts ==
  ASSUME AnswerInv, NEW n \in Nfsd
  PROVE  /\ DOMAIN nfsd = Nfsd /\ NfsdInv(nfsd[n])
         /\ DOMAIN nfsd[n] = {"pc", "req", "lookup", "again", "status", "busy"}
  BY DEF AnswerInv, Nfsds

\* A request in the cache has been performed.
LEMMA CachedIsDone ==
  ASSUME AnswerInv, NEW r, svckudp_dup(r)
  PROVE  Done(r.from, r.xid)
  <1>1. PICK i \in DOMAIN cache : cache[i] = Key(r)
    BY DEF svckudp_dup, Range
  <1>2. cache[i] \in Known
    BY DEF AnswerInv
  <1> QED
    BY <1>1, <1>2 DEF Known, Key

\* What is performed and not an overwrite enters the cache, whose oldest entry
\* may leave it.
LEMMA DupsaveKnown ==
  ASSUME AnswerInv, NEW r \in Sent, Done(r.from, r.xid)
  PROVE  svckudp_dupsave(r) \in Seq(Known)
  <1>1. Key(r) \in Known
    BY DEF Key, Known, Keys, Sent, Own, Requests
  <1>2. cache \in Seq(Known) /\ MaxDupReqs \in Nat \ {0}
    BY RpcAssumption DEF AnswerInv
  <1>3. CASE Len(cache) < MaxDupReqs
    BY <1>1, <1>2, <1>3 DEF svckudp_dupsave
  <1>4. CASE ~(Len(cache) < MaxDupReqs)
    <2>1. cache # <<>>
      BY <1>2, <1>4
    <2>2. Tail(cache) \in Seq(Known)
      BY <1>2, <2>1, SeqHeadTail
    <2> QED
      BY <1>1, <1>4, <2>2 DEF svckudp_dupsave
  <1> QED
    BY <1>3, <1>4

\* An nfsd's step leaves the other nfsds as they are.
LEMMA OneNfsd ==
  ASSUME AnswerInv, Forward, NEW n \in Nfsd, NEW y,
         DOMAIN y = {"pc", "req", "lookup", "again", "status", "busy"},
         nfsd' = [nfsd EXCEPT ![n] = y]
  PROVE  /\ Nfsds' /\ nfsd'[n] = y
         /\ NfsdInv(nfsd[n])' => \A m \in Nfsd : NfsdInv(nfsd[m])'
  <1>1. DOMAIN nfsd = Nfsd
    BY TransportFacts
  <1>2. nfsd'[n] = y /\ \A m \in Nfsd \ {n} : nfsd'[m] = nfsd[m]
    BY <1>1
  <1>3. Nfsds'
    BY <1>1, <1>2, TransportFacts DEF Nfsds
  <1>4. ASSUME NEW m \in Nfsd \ {n} PROVE NfsdInv(nfsd[m])'
    BY <1>2, TransportFacts, TransportKept DEF NfsdInv
  <1> QED
    BY <1>2, <1>3, <1>4

\* A step that leaves the clients alone.
LEMMA ClientsAlone ==
  ASSUME AnswerInv, UNCHANGED clnt, performed \subseteq performed'
  PROVE  Forward /\ \A c \in Client : ClientInv(c, clnt[c])'
  <1>1. Forward
    BY DEF Forward, AnswerInv, Clients
  <1>2. \A c \in Client : SameHandle(clnt'[c], clnt[c])
    BY DEF SameHandle
  <1> QED
    BY <1>1, <1>2, ClientsKept

\* svckudp_recv takes a request a client has sent, and has no status for it yet.
LEMMA svckudp_recvKeeps ==
  ASSUME AnswerInv, NEW n \in Nfsd, svckudp_recv(n)
  PROVE  AnswerInv'
  <1> DEFINE x == nfsd[n]
             label == IF Head(sock).op = "create" THEN "rfs_create" ELSE "VOP"
             y == [x EXCEPT !.req = {Head(sock)}, !.pc = label]
  <1>1. Forward /\ \A c \in Client : ClientInv(c, clnt[c])'
    BY ClientsAlone DEF svckudp_recv
  <1>2. /\ DOMAIN nfsd = Nfsd /\ NfsdInv(x) /\ x.pc = "svc_run"
        /\ DOMAIN x = {"pc", "req", "lookup", "again", "status", "busy"}
    BY TransportFacts DEF svckudp_recv
  <1>3. Head(sock) \in Sent' /\ sock' \in Seq(Sent')
    BY <1>1, RestKept, SeqHeadTail DEF svckudp_recv
  <1>4. /\ DOMAIN y = {"pc", "req", "lookup", "again", "status", "busy"}
        /\ y.req = {Head(sock)} /\ y.pc \in {"rfs_create", "VOP"}
        /\ y.lookup = x.lookup /\ y.status = x.status
    BY <1>2
  <1>5. nfsd' = [nfsd EXCEPT ![n] = y]
    BY <1>2 DEF svckudp_recv
  <1> HIDE DEF y
  <1>6. Nfsds' /\ nfsd'[n] = y
    BY <1>1, <1>4, <1>5, OneNfsd, ZenonT(30)
  <1>7. NfsdInv(nfsd[n])'
    BY <1>2, <1>3, <1>4, <1>6 DEF NfsdInv
  <1>8. \A m \in Nfsd : NfsdInv(nfsd[m])'
    BY <1>1, <1>4, <1>5, <1>7, OneNfsd, ZenonT(30)
  <1> QED
    BY <1>1, <1>3, <1>6, <1>8, RestKept, ZenonT(30) DEF AnswerInv, Forward, svckudp_recv, Bounds

\* rfs_create only looks up what the cache says was performed.
LEMMA rfs_createKeeps ==
  ASSUME AnswerInv, NEW n \in Nfsd, rfs_create(n)
  PROVE  AnswerInv'
  <1>1. PICK r \in nfsd[n].req :
          nfsd' = [nfsd EXCEPT ![n].pc = "VOP", ![n].lookup = svckudp_dup(r)]
    BY ZenonT(30) DEF rfs_create
  <1> DEFINE x == nfsd[n]
             y == [x EXCEPT !.pc = "VOP", !.lookup = svckudp_dup(r)]
  <1>2. Forward /\ \A c \in Client : ClientInv(c, clnt[c])'
    BY ClientsAlone DEF rfs_create
  <1>3. /\ DOMAIN nfsd = Nfsd /\ NfsdInv(x)
        /\ DOMAIN x = {"pc", "req", "lookup", "again", "status", "busy"}
    BY TransportFacts
  <1>4. /\ DOMAIN y = {"pc", "req", "lookup", "again", "status", "busy"}
        /\ y.req = x.req /\ y.pc = "VOP" /\ y.status = x.status
        /\ y.lookup => Done(r.from, r.xid)
    BY <1>3, CachedIsDone
  <1>5. nfsd' = [nfsd EXCEPT ![n] = y]
    BY <1>1, <1>3, ZenonT(30)
  <1> HIDE DEF y
  <1>6. Nfsds' /\ nfsd'[n] = y
    BY <1>2, <1>4, <1>5, OneNfsd, ZenonT(30)
  <1>7. NfsdInv(nfsd[n])'
    <2>1. NfsdInv(y)
      BY <1>1, <1>3, <1>4 DEF NfsdInv
    <2> QED
      BY <1>2, <1>6, <2>1, TransportKept DEF NfsdInv
  <1>8. \A m \in Nfsd : NfsdInv(nfsd[m])'
    BY <1>2, <1>4, <1>5, <1>7, OneNfsd, ZenonT(30)
  <1> QED
    BY <1>2, <1>6, <1>8, RestKept, ZenonT(30) DEF AnswerInv, Forward, rfs_create, Bounds

\* What is performed is noted under the number of its request.
LEMMA VOPKeeps ==
  ASSUME AnswerInv, NEW n \in Nfsd, VOP(n)
  PROVE  AnswerInv'
  <1> DEFINE x == nfsd[n]
             op(r) == IF nfsd[n].lookup THEN "lookup" ELSE r.op
             entry(r) == [from |-> r.from, call |-> r.call, xid |-> r.xid]
             before(r) == {q.xid : q \in {p \in performed : SameCall(p, r)}}
  <1>1. /\ DOMAIN nfsd = Nfsd /\ NfsdInv(x)
        /\ DOMAIN x = {"pc", "req", "lookup", "again", "status", "busy"}
    BY TransportFacts
  <1>2. PICK r \in x.req, ok \in BOOLEAN :
          /\ nfsd' = [nfsd EXCEPT ![n].pc = "rfs_dispatch",
                                  ![n].status = IF ok THEN "NFS_OK" ELSE "NFSERR",
                                  ![n].again = before(r)]
          /\ performed' = IF ok /\ op(r) # "lookup" THEN performed \cup {entry(r)}
                          ELSE performed
    <2>1. ASSUME NEW r \in x.req PROVE r.op \in Ops
      BY <1>1 DEF NfsdInv, Sent, Own, Requests
    <2> QED
      BY <2>1, ZenonT(30) DEF VOP, Ops
  <1> DEFINE y == [x EXCEPT !.pc = "rfs_dispatch",
                            !.status = IF ok THEN "NFS_OK" ELSE "NFSERR", !.again = before(r)]
  <1>3. r \in Sent /\ r.op \in Ops
    BY <1>1 DEF NfsdInv, Sent, Own, Requests
  <1>4. Forward /\ \A c \in Client : ClientInv(c, clnt[c])'
    BY <1>2, ClientsAlone, ZenonT(30) DEF VOP
  <1>5. /\ DOMAIN y = {"pc", "req", "lookup", "again", "status", "busy"}
        /\ y.req = x.req /\ y.pc = "rfs_dispatch" /\ y.lookup = x.lookup
        /\ y.status = IF ok THEN "NFS_OK" ELSE "NFSERR"
    BY <1>1
  <1>6. nfsd' = [nfsd EXCEPT ![n] = y]
    BY <1>1, <1>2, ZenonT(30)
  <1> HIDE DEF y
  <1>7. Nfsds' /\ nfsd'[n] = y
    BY <1>4, <1>5, <1>6, OneNfsd, ZenonT(30)
  <1>8. performed' \subseteq Log'
    <2>1. entry(r) \in Log
      BY <1>3 DEF Sent, Own, Requests, Log, Latest
    <2> QED
      BY <1>2, <1>4, <2>1, SetsGrow, RestKept
  <1>9. NfsdInv(nfsd[n])'
    <2>1. x.req \subseteq Sent'
      BY <1>1, <1>4, SetsGrow DEF NfsdInv
    <2>2. x.lookup => Done(r.from, r.xid)'
      BY <1>1, <1>4, DoneStays DEF NfsdInv
    <2>3. ok /\ ~x.lookup => Done(r.from, r.xid)'
      <3> SUFFICES ASSUME ok, ~x.lookup PROVE Done(r.from, r.xid)'
        OBVIOUS
      <3>1. op(r) # "lookup"
        BY <1>3 DEF Ops
      <3>2. entry(r) \in performed'
        BY <1>2, <3>1
      <3> QED
        BY <3>2 DEF Done
    <2>4. y.lookup \/ y.status = "NFS_OK" => \A q \in x.req : Done(q.from, q.xid)'
      <3>1. \A q \in x.req : q = r
        BY <1>1 DEF NfsdInv
      <3>2. y.lookup \/ y.status = "NFS_OK" => Done(r.from, r.xid)'
        BY <1>5, <2>2, <2>3
      <3> QED
        BY <3>1, <3>2
    <2> QED
      BY <1>1, <1>5, <1>7, <2>1, <2>4 DEF NfsdInv
  <1>10. \A m \in Nfsd : NfsdInv(nfsd[m])'
    BY <1>4, <1>5, <1>6, <1>9, OneNfsd, ZenonT(30)
  <1> QED
    BY <1>4, <1>7, <1>8, <1>10, RestKept, ZenonT(30) DEF AnswerInv, Forward, VOP, Bounds

\* An answer is sent to the client that asked, from its number; x are the clients
\* with at most a buffer given back.
LEMMA SendKeeps ==
  ASSUME AnswerInv, NEW n \in Nfsd, NEW r \in Sent, NEW s \in {"NFS_OK", "NFSERR"},
         s = "NFS_OK" => Done(r.from, r.xid),
         NEW x, DOMAIN x = Client,
         \A c \in Client : /\ IsHandle(x[c]) /\ SameHandle(x[c], clnt[c])
                           /\ x[c].call = clnt[c].call,
         svckudp_send(n, r, s, x), UNCHANGED <<sock, performed, load>>,
         cache' \in Seq(Known)
  PROVE  AnswerInv'
  <1> DEFINE d == Reply(n, r, s)
             y == [IdleNfsd EXCEPT !.busy = TRUE]
             to == r.from
  <1>1. to \in Client /\ d \in TrueReplies(to)
    BY DEF Sent, Own, Requests, Reply, TrueReplies, Replies
  <1>2. /\ Forward /\ \A c \in Client : ClientInv(c, clnt[c])'
        /\ \A e \in net' : e \in Sent' \/ \E c \in Client : e \in TrueReplies(c)'
    <2>1. CASE clnt' = x /\ net' = net \cup {d}
      <3>1. Forward
        BY <2>1 DEF Forward, Clients, SameHandle
      <3>2. \A c \in Client : ClientInv(c, clnt[c])'
        BY <2>1, <3>1, ClientsKept
      <3>3. \A e \in net' : e \in Sent' \/ \E c \in Client : e \in TrueReplies(c)'
        BY <1>1, <2>1, <3>1, RestKept, SetsGrow
      <3> QED
        BY <3>1, <3>2, <3>3
    <2>2. CASE clnt' = [x EXCEPT ![to].rcv = Append(@, d)] /\ UNCHANGED net
      <3> DEFINE z == [x[to] EXCEPT !.rcv = Append(@, d)]
      <3>1. /\ IsHandle(z) /\ z.rcv = Append(clnt[to].rcv, d) /\ z.pc = clnt[to].pc
            /\ z.op = clnt[to].op /\ z.xid = clnt[to].xid /\ z.outbuf = clnt[to].outbuf
            /\ z.told = clnt[to].told /\ z.status = clnt[to].status
            /\ z.call = clnt[to].call
        BY <1>1, ZenonT(30) DEF IsHandle, SameHandle
      <3>2. /\ clnt' = [x EXCEPT ![to] = z] /\ clnt'[to] = z
            /\ \A c \in Client \ {to} : clnt'[c] = x[c]
        BY <1>1, <2>2, ZenonT(30)
      <3>3. ClientInv(to, z)
        <4>1. ClientInv(to, clnt[to])
          BY <1>1, HandleFacts
        <4>2. Append(clnt[to].rcv, d) \in Seq(TrueReplies(to))
          BY <1>1, <4>1 DEF ClientInv
        <4> HIDE DEF z
        <4> QED
          BY <3>1, <4>1, <4>2, ZenonT(30) DEF ClientInv
      <3> HIDE DEF z
      <3>4. Forward
        BY <3>1, <3>2 DEF Forward, Clients, SameHandle
      <3>5. ASSUME NEW c \in Client PROVE ClientInv(c, clnt[c])'
        <4>1. CASE c = to
          BY <3>2, <3>3, <3>4, <4>1, HandleKept DEF ClientInv
        <4>2. CASE c # to
          <5>1. clnt'[c] = x[c] /\ SameHandle(x[c], clnt[c]) /\ ClientInv(c, clnt[c])
            BY <3>2, <4>2, HandleFacts
          <5> QED
            BY <3>4, <5>1, HandleKept DEF ClientInv, SameHandle
        <4> QED
          BY <4>1, <4>2
      <3> QED
        BY <2>2, <3>4, <3>5, RestKept, ZenonT(30)
    <2> QED
      BY <2>1, <2>2 DEF svckudp_send
  <1>3. /\ DOMAIN y = {"pc", "req", "lookup", "again", "status", "busy"}
        /\ y.pc = "svc_run" /\ y.req = {} /\ y.lookup = FALSE /\ y.status = "none"
    BY DEF IdleNfsd
  <1>4. nfsd' = [nfsd EXCEPT ![n] = y]
    BY DEF svckudp_send
  <1> HIDE DEF y
  <1>5. Nfsds' /\ nfsd'[n] = y
    BY <1>2, <1>3, <1>4, OneNfsd, ZenonT(30)
  <1>6. NfsdInv(nfsd[n])'
    BY <1>3, <1>5 DEF NfsdInv
  <1>7. \A m \in Nfsd : NfsdInv(nfsd[m])'
    BY <1>2, <1>3, <1>4, <1>6, OneNfsd, ZenonT(30)
  <1>8. cache' \in Seq(Known')
    BY <1>2, SetsGrow, SeqGrows
  <1> QED
    BY <1>2, <1>5, <1>7, <1>8, RestKept DEF AnswerInv, Forward

\* Freeing the request's arguments gives at most a buffer back.
LEMMA FreeargsSame ==
  ASSUME AnswerInv, NEW r \in Sent
  PROVE  /\ DOMAIN svckudp_freeargs(r) = Client
         /\ \A c \in Client :
              /\ IsHandle(svckudp_freeargs(r)[c])
              /\ SameHandle(svckudp_freeargs(r)[c], clnt[c])
              /\ svckudp_freeargs(r)[c].call = clnt[c].call
  <1> DEFINE to == r.from
             y == [clnt[to] EXCEPT !.bufbusy = @ /\ load.route = "net"]
  <1>1. to \in Client /\ DOMAIN clnt = Client /\ \A c \in Client : IsHandle(clnt[c])
    BY DEF Sent, Own, Requests, AnswerInv, Clients
  <1>2. IsHandle(y) /\ SameHandle(y, clnt[to]) /\ y.call = clnt[to].call
    BY <1>1 DEF IsHandle, SameHandle
  <1>3. svckudp_freeargs(r) = [clnt EXCEPT ![to] = y]
    BY <1>1 DEF svckudp_freeargs
  <1> HIDE DEF y
  <1>4. \A c \in Client : SameHandle(clnt[c], clnt[c])
    BY DEF SameHandle
  <1> QED
    BY <1>1, <1>2, <1>3, <1>4

\* rfs_dispatch answers NFS_OK and caches only what was performed.
LEMMA rfs_dispatchKeeps ==
  ASSUME AnswerInv, NEW n \in Nfsd, rfs_dispatch(n)
  PROVE  AnswerInv'
  <1> DEFINE x == nfsd[n]
             answer(r) == IF x.status = "NFSERR" /\ r.op \in {"remove", "link"} /\ svckudp_dup(r)
                          THEN "NFS_OK" ELSE x.status
  <1>1. /\ DOMAIN nfsd = Nfsd /\ NfsdInv(x) /\ x.pc = "rfs_dispatch"
        /\ DOMAIN x = {"pc", "req", "lookup", "again", "status", "busy"}
    BY TransportFacts DEF rfs_dispatch
  <1>2. PICK r \in x.req :
          /\ cache' = IF x.status = "NFSERR" \/ x.lookup \/ r.op = "write" THEN cache
                      ELSE svckudp_dupsave(r)
          /\ \/ /\ nfsd' = [nfsd EXCEPT ![n].pc = "send", ![n].status = answer(r)]
                /\ clnt' = svckudp_freeargs(r) /\ UNCHANGED net
             \/ svckudp_send(n, r, answer(r), svckudp_freeargs(r))
    BY DEF rfs_dispatch
  <1> DEFINE s == answer(r)
  <1>3. r \in Sent /\ x.status \in {"NFS_OK", "NFSERR"}
    BY <1>1 DEF NfsdInv
  <1>4. x.status = "NFS_OK" => Done(r.from, r.xid)
    BY <1>1 DEF NfsdInv
  <1>5. s \in {"NFS_OK", "NFSERR"} /\ (s = "NFS_OK" => Done(r.from, r.xid))
    BY <1>3, <1>4, CachedIsDone
  <1>6. cache' \in Seq(Known)
    <2>1. cache \in Seq(Known)
      BY DEF AnswerInv
    <2>2. x.status # "NFSERR" => svckudp_dupsave(r) \in Seq(Known)
      BY <1>3, <1>4, DupsaveKnown
    <2> QED
      BY <1>2, <2>1, <2>2
  <1>7. CASE svckudp_send(n, r, s, svckudp_freeargs(r))
    <2> DEFINE free == svckudp_freeargs(r)
    <2>1. UNCHANGED <<sock, performed, load>>
      BY DEF rfs_dispatch, Bounds
    <2>2. /\ DOMAIN free = Client
          /\ \A c \in Client : /\ IsHandle(free[c]) /\ SameHandle(free[c], clnt[c])
                               /\ free[c].call = clnt[c].call
      BY <1>3, FreeargsSame
    <2>3. svckudp_send(n, r, s, free)
      BY <1>7
    <2> HIDE DEF s, free
    <2> QED
      BY <1>3, <1>5, <1>6, <2>1, <2>2, <2>3, SendKeeps
  <1>8. CASE /\ nfsd' = [nfsd EXCEPT ![n].pc = "send", ![n].status = s]
             /\ clnt' = svckudp_freeargs(r) /\ UNCHANGED net
    <2> HIDE DEF s
    <2> DEFINE y == [x EXCEPT !.pc = "send", !.status = s]
    <2>1. Forward
      BY <1>3, <1>8, FreeargsSame DEF rfs_dispatch, Forward, Clients, SameHandle
    <2>2. \A c \in Client : ClientInv(c, clnt[c])'
      BY <1>3, <1>8, <2>1, FreeargsSame, ClientsKept
    <2>3. /\ DOMAIN y = {"pc", "req", "lookup", "again", "status", "busy"}
          /\ y.pc = "send" /\ y.req = x.req /\ y.lookup = x.lookup /\ y.status = s
      BY <1>1
    <2>4. nfsd' = [nfsd EXCEPT ![n] = y]
      BY <1>1, <1>8, ZenonT(30)
    <2> HIDE DEF y
    <2>5. Nfsds' /\ nfsd'[n] = y
      BY <2>1, <2>3, <2>4, OneNfsd, ZenonT(30)
    <2>6. NfsdInv(y)
      <3>1. \A q \in x.req : q = r
        BY <1>1 DEF NfsdInv
      <3>2. y.lookup \/ y.status = "NFS_OK" => Done(r.from, r.xid)
        BY <1>1, <1>5, <2>3 DEF NfsdInv
      <3> QED
        BY <1>1, <1>5, <2>3, <3>1, <3>2 DEF NfsdInv
    <2>7. NfsdInv(nfsd[n])'
      BY <2>1, <2>5, <2>6, TransportKept DEF NfsdInv
    <2>8. \A m \in Nfsd : NfsdInv(nfsd[m])'
      BY <2>1, <2>3, <2>4, <2>7, OneNfsd, ZenonT(30)
    <2>9. cache' \in Seq(Known')
      BY <1>6, <2>1, SetsGrow, SeqGrows
    <2> QED
      BY <1>8, <2>1, <2>2, <2>5, <2>8, <2>9, RestKept, ZenonT(30)
         DEF AnswerInv, Forward, rfs_dispatch, Bounds
  <1> QED
    BY <1>2, <1>7, <1>8

\* An answer that had to wait for the buffer is sent as it was.
LEMMA send_wokenKeeps ==
  ASSUME AnswerInv, NEW n \in Nfsd, send_woken(n)
  PROVE  AnswerInv'
  <1>1. NfsdInv(nfsd[n]) /\ nfsd[n].pc = "send"
    BY TransportFacts DEF send_woken
  <1>2. PICK r \in nfsd[n].req : svckudp_send(n, r, nfsd[n].status, clnt)
    BY DEF send_woken
  <1>3. /\ r \in Sent /\ nfsd[n].status \in {"NFS_OK", "NFSERR"}
        /\ nfsd[n].status = "NFS_OK" => Done(r.from, r.xid)
    BY <1>1 DEF NfsdInv
  <1>4. DOMAIN clnt = Client /\ \A c \in Client : IsHandle(clnt[c]) /\ SameHandle(clnt[c], clnt[c])
    BY DEF AnswerInv, Clients, SameHandle
  <1>5. cache' \in Seq(Known) /\ UNCHANGED <<sock, performed, load>>
    BY DEF AnswerInv, send_woken, Bounds
  <1> QED
    BY <1>2, <1>3, <1>4, <1>5, SendKeeps, ZenonT(30) DEF svckudp_send

-----------------------------------------------------------------------------
(* The network, and the loss of the server's memory *)

\* A datagram the driver has sent says what it said.
LEMMA transmitKeeps ==
  ASSUME AnswerInv, NEW d \in net, transmit(d)
  PROVE  AnswerInv'
  <1> DEFINE e == [d EXCEPT !.held = FALSE]
  <1>1. \A c \in Client : /\ clnt'[c] \in {clnt[c], [clnt[c] EXCEPT !.bufbusy = FALSE]}
                          /\ IsHandle(clnt[c])
    BY DEF transmit, AnswerInv, Clients
  <1>2. \A c \in Client : /\ IsHandle(clnt'[c]) /\ SameHandle(clnt'[c], clnt[c])
                          /\ clnt'[c].call = clnt[c].call
    BY <1>1 DEF IsHandle, SameHandle
  <1>3. Forward
    BY <1>2 DEF Forward, Clients, transmit, SameHandle
  <1>4. \A c \in Client : ClientInv(c, clnt[c])'
    BY <1>2, <1>3, ClientsKept
  <1>5. Nfsds' /\ \A n \in Nfsd : NfsdInv(nfsd[n])'
    BY <1>3, NfsdsKept DEF transmit
  <1>6. \A f \in net' : f \in Sent' \/ \E c \in Client : f \in TrueReplies(c)'
    <2>1. d \in Sent \/ \E c \in Client : d \in TrueReplies(c)
      BY DEF AnswerInv
    <2>2. d \in Sent => e \in Sent
      BY ZenonT(30) DEF Sent, Own, Requests, Latest
    <2>3. \A c \in Client : d \in TrueReplies(c) => e \in TrueReplies(c)
      BY ZenonT(30) DEF TrueReplies, Replies
    <2>4. net' \subseteq net \cup {e}
      BY DEF transmit
    <2> HIDE DEF e
    <2> QED
      BY <1>3, <2>1, <2>2, <2>3, <2>4, SetsGrow, RestKept
  <1> QED
    BY <1>3, <1>4, <1>5, <1>6, RestKept DEF AnswerInv, Forward, transmit, Bounds

\* A datagram arrives at the socket it is for, whether or not it arrives again.
LEMMA ArrivesKeeps ==
  ASSUME AnswerInv, NEW d \in net, Arrives(d), net' \subseteq net
  PROVE  AnswerInv'
  <1>1. CASE d.to = "server"
    <2>1. Forward /\ \A c \in Client : ClientInv(c, clnt[c])'
      BY <1>1, ClientsAlone DEF Arrives
    <2>2. Nfsds' /\ \A n \in Nfsd : NfsdInv(nfsd[n])'
      BY <2>1, RepliesFreed DEF Arrives
    <2>3. d \in Sent
      BY <1>1 DEF AnswerInv, TrueReplies, Replies
    <2>4. sock' \in Seq(Sent')
      BY <1>1, <2>1, <2>3, SetsGrow, RestKept DEF Arrives
    <2> QED
      BY <2>1, <2>2, <2>4, RestKept DEF AnswerInv, Forward, Arrives
  <1>2. CASE d.to # "server"
    <2>1. PICK c \in Client : d \in TrueReplies(c)
      BY <1>2 DEF AnswerInv, Sent, Own, Requests
    <2> DEFINE y == [clnt[c] EXCEPT !.rcv = Append(@, d)]
    <2>2. IsHandle(clnt[c]) /\ ClientInv(c, clnt[c]) /\ DOMAIN clnt = Client
      BY HandleFacts DEF AnswerInv, Clients
    <2>3. /\ IsHandle(y) /\ y.rcv = Append(clnt[c].rcv, d) /\ y.pc = clnt[c].pc
          /\ y.op = clnt[c].op /\ y.xid = clnt[c].xid /\ y.outbuf = clnt[c].outbuf
          /\ y.told = clnt[c].told /\ y.status = clnt[c].status
          /\ y.call = clnt[c].call
      BY <2>2 DEF IsHandle
    <2>4. clnt' = [clnt EXCEPT ![c] = y]
      BY <1>2, <2>1, <2>2 DEF Arrives, TrueReplies
    <2> HIDE DEF y
    <2>5. ClientInv(c, y)
      <3>1. Append(clnt[c].rcv, d) \in Seq(TrueReplies(c))
        BY <2>1, <2>2 DEF ClientInv
      <3> QED
        BY <2>2, <2>3, <3>1 DEF ClientInv
    <2>6. Forward /\ \A e \in Client : ClientInv(e, clnt[e])'
      BY <2>3, <2>4, <2>5, OneClient, ZenonT(30) DEF Arrives
    <2>7. Nfsds' /\ \A n \in Nfsd : NfsdInv(nfsd[n])'
      BY <2>6, RepliesFreed DEF Arrives
    <2> QED
      BY <1>2, <2>6, <2>7, RestKept DEF AnswerInv, Forward, Arrives
  <1> QED
    BY <1>1, <1>2

\* A lost datagram tells nobody anything.
LEMMA loseKeeps ==
  ASSUME AnswerInv, NEW d \in net, lose(d)
  PROVE  AnswerInv'
  <1>1. Forward /\ \A c \in Client : ClientInv(c, clnt[c])'
    BY ClientsAlone DEF lose, ServerSide
  <1>2. Nfsds' /\ \A n \in Nfsd : NfsdInv(nfsd[n])'
    BY <1>1, RepliesFreed DEF lose, ServerSide
  <1> QED
    BY <1>1, <1>2, RestKept DEF AnswerInv, Forward, lose, ServerSide, Bounds

\* The server forgets its cache and its requests, but not what it has done.
LEMMA CrashKeeps ==
  ASSUME AnswerInv, Crash
  PROVE  AnswerInv'
  <1>1. Forward /\ \A c \in Client : ClientInv(c, clnt[c])'
    BY ClientsAlone DEF Crash
  <1>2. \A n \in Nfsd : /\ nfsd'[n].pc = "svc_run" /\ nfsd'[n].req = {}
                        /\ nfsd'[n].lookup = FALSE /\ nfsd'[n].status = "none"
    BY DEF Crash, IdleNfsd
  <1>3. Nfsds'
    BY DEF Crash, IdleNfsd, Nfsds
  <1>4. \A n \in Nfsd : NfsdInv(nfsd[n])'
    BY <1>2 DEF NfsdInv
  <1>5. sock' \in Seq(Sent') /\ cache' \in Seq(Known')
    BY DEF Crash
  <1> QED
    BY <1>1, <1>3, <1>4, <1>5, RestKept DEF AnswerInv, Forward, Crash

-----------------------------------------------------------------------------
(* The theorem *)

\* At first nothing is on its way.
LEMMA InitAnswers ==
  Init => AnswerInv
  <1> SUFFICES ASSUME Init PROVE AnswerInv
    OBVIOUS
  <1>1. Clients /\ Nfsds
    BY DEF Init, Clients, Nfsds, Idle, IdleNfsd, IsHandle
  <1>2. \A c \in Client : ClientInv(c, clnt[c])
    <2> SUFFICES ASSUME NEW c \in Client PROVE ClientInv(c, clnt[c])
      OBVIOUS
    <2>1. clnt[c].pc = "idle" /\ clnt[c].rcv = <<>> /\ clnt[c].told = {}
      BY DEF Init, Idle
    <2> QED
      BY <2>1 DEF ClientInv
  <1>3. \A n \in Nfsd : NfsdInv(nfsd[n])
    BY DEF Init, IdleNfsd, NfsdInv
  <1> QED
    BY <1>1, <1>2, <1>3 DEF Init, AnswerInv

\* A step that changes nothing keeps the invariant.
LEMMA StutterAnswers ==
  ASSUME AnswerInv, UNCHANGED vars
  PROVE  AnswerInv'
  <1>1. Forward /\ \A c \in Client : ClientInv(c, clnt[c])'
    BY ClientsAlone DEF vars
  <1>2. Nfsds' /\ \A n \in Nfsd : NfsdInv(nfsd[n])'
    BY <1>1, RepliesFreed DEF vars
  <1> QED
    BY <1>1, <1>2, RestKept DEF AnswerInv, Forward, vars

\* The latest answer of a client is to its latest call.
LEMMA AnswersAreTrue ==
  AnswerInv => ReplyIsTrue
  <1> SUFFICES ASSUME AnswerInv, NEW c \in Client, clnt[c].told = {"NFS_OK"}
               PROVE  \E q \in performed : q.from = c /\ q.call = clnt[c].call
    BY DEF ReplyIsTrue
  <1>1. Done(c, clnt[c].xid) /\ clnt[c].xid \in Nat
    BY HandleFacts DEF ClientInv, IsHandle
  <1>2. PICK q \in performed : q.from = c /\ q.xid = clnt[c].xid
    BY <1>1 DEF Done
  <1>3. Latest(q.from, q.xid, q.call)
    BY DEF AnswerInv, Log
  <1> QED
    BY <1>1, <1>2, <1>3 DEF Latest

\* The inductive invariant holds throughout: every answer on its way, in a socket
\* or with a client is true.
THEOREM RpcAnswers == Spec => []AnswerInv
  <1>1. ASSUME AnswerInv, [Next]_vars PROVE AnswerInv'
    <2>1. CASE UNCHANGED vars
      BY <1>1, <2>1, StutterAnswers
    <2>2. ASSUME NEW c \in Client, rfscall(c) \/ ClientStep(c) \/ interrupted(c)
          PROVE  AnswerInv'
      BY <1>1, <2>2, rfscallKeeps, buffer_waitKeeps, ku_sendto_mbufKeeps, cannot_sendKeeps,
         timed_outKeeps, interruptedKeeps, ku_recvfromKeeps, callit_returnKeeps DEF ClientStep
    <2>3. ASSUME NEW n \in Nfsd, NfsdStep(n) PROVE AnswerInv'
      BY <1>1, <2>3, svckudp_recvKeeps, rfs_createKeeps, VOPKeeps, rfs_dispatchKeeps,
         send_wokenKeeps DEF NfsdStep
    <2>4. ASSUME NEW d \in net, transmit(d) \/ deliver(d) \/ duplicate(d) \/ lose(d)
          PROVE  AnswerInv'
      <3>1. CASE deliver(d)
        BY <1>1, <3>1, ArrivesKeeps DEF deliver
      <3>2. CASE duplicate(d)
        BY <1>1, <3>2, ArrivesKeeps DEF duplicate
      <3> QED
        BY <1>1, <2>4, <3>1, <3>2, transmitKeeps, loseKeeps
    <2>5. CASE Crash
      BY <1>1, <2>5, CrashKeeps
    <2> QED
      BY <1>1, <2>1, <2>2, <2>3, <2>4, <2>5 DEF Next
  <1> QED
    BY <1>1, InitAnswers, PTL DEF Spec

\* What rfscall reports as done has been done by the server for this call, for any
\* clients, nfsds and workload and any size of the duplicate cache.
THEOREM RpcReplyIsTrue == Spec => []ReplyIsTrue
  BY RpcAnswers, AnswersAreTrue, PTL

\* What the argument about buffers takes for granted of the datagrams.
LEMMA AnswersAreMessages ==
  ASSUME AnswerInv PROVE Messages
  <1>1. Sent \subseteq Own /\ \A c \in Client : TrueReplies(c) \subseteq Replies
    BY DEF Sent, TrueReplies
  <1>2. ASSUME NEW c \in Client PROVE DOMAIN clnt[c] = HandleFields /\ clnt[c].rcv \in Seq(Replies)
    BY <1>1, <1>2, SeqGrows DEF AnswerInv, Clients, IsHandle, ClientInv, HandleFields
  <1>3. ASSUME NEW n \in Nfsd
        PROVE  /\ DOMAIN nfsd[n] = TransportFields /\ nfsd[n].req \subseteq Own
               /\ \A r, q \in nfsd[n].req : r = q
    BY <1>1, <1>3 DEF AnswerInv, Nfsds, NfsdInv, TransportFields
  <1>4. sock \in Seq(Own)
    BY <1>1, SeqGrows DEF AnswerInv
  <1>5. net \subseteq Own \cup Replies
    BY <1>1 DEF AnswerInv
  <1> QED
    BY <1>2, <1>3, <1>4, <1>5 DEF AnswerInv, Clients, Nfsds, Messages

\* A datagram that is still in a message buffer stays as it is until the buffer is back,
\* and tries, status and cache stay within their bounds, for any clients, nfsds and
\* workload, whatever the network loses, duplicates and reorders.
THEOREM RpcBuffersKept == Spec => []RpcInv
  <1>1. AnswerInv /\ BufferInv /\ [Next]_vars => BufferInv'
    <2> SUFFICES ASSUME AnswerInv, BufferInv, [Next]_vars PROVE BufferInv'
      OBVIOUS
    <2>1. cache \in Seq(Known)
      BY DEF AnswerInv
    <2> QED
      BY <2>1, AnswersAreMessages, NextBuffers
  <1>2. AnswerInv /\ BufferInv => RpcInv
    BY AnswersAreMessages, BuffersAreKept
  <1> QED
    BY <1>1, <1>2, InitBuffers, RpcAnswers, PTL DEF Spec
=============================================================================

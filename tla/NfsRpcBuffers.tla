--------------------------- MODULE NfsRpcBuffers ----------------------------
(***************************************************************************)
(* The message buffers of NfsRpc: a client or an nfsd lends its buffer to  *)
(* the network with a datagram in it and fills it anew only when it is     *)
(* back, for any clients, nfsds and workload.  Nobody owns the datagram    *)
(* while it travels, so what is kept is that each buffer has at most one   *)
(* datagram on its way: among the datagrams the driver has not sent        *)
(* (NetInv), or, on one machine, among the requests in the socket and with *)
(* the nfsds, and among the replies in the clients' sockets (LoopInv).     *)
(***************************************************************************)
EXTENDS NfsRpc, TLAPS

\* The provers, in turn, of a leaf that names none.
USE SMTT(30), ZenonT(30), Z3T(30), SMTT(60), Z3T(60), SMTT(90)

Ops == {"create", "remove", "link", "write"}

Requests == [to : {"server"}, from : Client, by : Client, xid : Nat, op : Ops,
             call : Nat, held : BOOLEAN]

Replies == [to : {"client"}, from : Client, by : Nfsd, xid : Nat,
            status : {"NFS_OK", "NFSERR"}, held : BOOLEAN]

Own == {d \in Requests : d.by = d.from}

HandleFields == {"pc", "op", "call", "xid", "stries", "rtries", "asleep", "bufbusy",
                 "outbuf", "rcv", "status", "told", "down"}
TransportFields == {"pc", "req", "lookup", "again", "status", "busy"}

\* What travels is requests and replies, and an nfsd has one request.
Messages ==
    /\ load \in Workload
    /\ DOMAIN clnt = Client /\ DOMAIN nfsd = Nfsd
    /\ \A c \in Client : DOMAIN clnt[c] = HandleFields /\ clnt[c].rcv \in Seq(Replies)
    /\ \A n \in Nfsd : /\ DOMAIN nfsd[n] = TransportFields
                       /\ nfsd[n].req \subseteq Own
                       /\ \A r, q \in nfsd[n].req : r = q
    /\ sock \in Seq(Own)
    /\ net \subseteq Own \cup Replies

-----------------------------------------------------------------------------
(* Sequences of datagrams from different buffers *)

Distinct(s) == \A i, j \in 1 .. Len(s) : s[i].by = s[j].by => i = j

\* A datagram from a buffer that has none in the sequence is put behind it.
LEMMA DistinctAppend ==
  ASSUME NEW S, NEW s \in Seq(S), NEW d \in S, Distinct(s), \A e \in Range(s) : e.by # d.by
  PROVE  Distinct(Append(s, d)) /\ Range(Append(s, d)) = Range(s) \cup {d}
  BY DEF Distinct, Range

\* The first datagram is taken from the sequence.
LEMMA DistinctTail ==
  ASSUME NEW S, NEW s \in Seq(S), s # <<>>, Distinct(s)
  PROVE  /\ Distinct(Tail(s)) /\ Range(Tail(s)) \subseteq Range(s) /\ Head(s) \in Range(s)
         /\ \A e \in Range(Tail(s)) : e.by # Head(s).by
  BY DEF Distinct, Range

\* The empty sequence.
LEMMA DistinctEmpty == Distinct(<<>>) /\ Range(<<>>) = {}
  BY DEF Distinct, Range

\* The members of a sequence.
LEMMA RangeOf ==
  ASSUME NEW S, NEW s \in Seq(S)
  PROVE  Range(s) \subseteq S
  BY DEF Range

\* Replies come from nfsds.
LEMMA RepliesBy ==
  ASSUME Messages
  PROVE  \A c \in Client : \A d \in Range(clnt[c].rcv) : d.by \in Nfsd
  <1>1. \A c \in Client : Range(clnt[c].rcv) \subseteq Replies
    BY RangeOf DEF Messages
  <1>2. \A d \in Replies : d.by \in Nfsd
    BY DEF Replies
  <1> QED
    BY <1>1, <1>2

-----------------------------------------------------------------------------
(* The invariant *)

InBuffer(d) == clnt[d.by].bufbusy /\ clnt[d.by].outbuf = d.xid

NetInv ==
    /\ \A d \in net : d.held /\ d.to = "server" => InBuffer(d)
    /\ \A d \in net : d.held /\ d.to = "client" => nfsd[d.by].busy
    /\ \A d, e \in net : d.held /\ e.held /\ d.to = e.to /\ d.by = e.by => d = e

\* The requests of nfsds that have not given the client's buffer back.
Served(n) == IF nfsd[n].pc = "send" THEN {} ELSE nfsd[n].req

RequestsApart ==
    /\ Distinct(sock)
    /\ \A d \in Range(sock) : InBuffer(d)
    /\ \A n \in Nfsd : \A r \in Served(n) :
         InBuffer(r) /\ \A d \in Range(sock) : d.by # r.by
    /\ \A n, m \in Nfsd : \A r \in Served(n), q \in Served(m) : r.by = q.by => n = m

RepliesApart ==
    /\ \A c \in Client : Distinct(clnt[c].rcv)
    /\ \A c \in Client : \A d \in Range(clnt[c].rcv) : nfsd[d.by].busy
    /\ \A c, e \in Client : \A d \in Range(clnt[c].rcv), g \in Range(clnt[e].rcv) :
         d.by = g.by => c = e

LoopInv == net = {} /\ RequestsApart /\ RepliesApart

\* The counters of a handle.
Tries(x) ==
    /\ x.pc \in {"idle", "call_again", "receive", "drain"}
    /\ x.bufbusy \in BOOLEAN
    /\ x.stries \in -1 .. (load.retrans + 1) /\ x.rtries \in 0 .. RECVTRIES
    /\ x.pc \in {"call_again", "receive"} => x.stries >= 0
    /\ x.pc = "receive" => x.rtries >= 1

Counters ==
    /\ \A c \in Client : Tries(clnt[c])
    /\ \A n \in Nfsd : nfsd[n].status \in {"none", "NFS_OK", "NFSERR"} /\ nfsd[n].busy \in BOOLEAN
    /\ file \in {"none", "empty", "full"}
    /\ Len(cache) <= MaxDupReqs

\* The inductive invariant.
BufferInv ==
    /\ Counters
    /\ load.route = "net" => NetInv
    /\ load.route = "loop" => LoopInv

-----------------------------------------------------------------------------
(* A client's steps *)

\* What a step of a client that sends nothing does: the buffer is as it was, or was
\* free, and replies are taken from the socket and freed.
ClientMove(c) ==
    \E y :
      /\ clnt' = [clnt EXCEPT ![c] = y]
      /\ DOMAIN y = HandleFields /\ Tries(y)
      /\ y.bufbusy = clnt[c].bufbusy
      /\ clnt[c].bufbusy => y.outbuf = clnt[c].outbuf
      /\ \/ y.rcv = clnt[c].rcv /\ UNCHANGED nfsd
         \/ y.rcv = <<>> /\ FreeReplies(Range(clnt[c].rcv))
         \/ /\ clnt[c].rcv # <<>> /\ y.rcv = Tail(clnt[c].rcv)
            /\ FreeReplies({Head(clnt[c].rcv)})
      /\ UNCHANGED <<sock, cache, file, net, load>>

\* What clntkudp_callit starts from.
LEMMA NewCallTries ==
  ASSUME Messages, NEW x, DOMAIN x = HandleFields, Tries(x)
  PROVE  /\ DOMAIN NewCall(x) = HandleFields /\ Tries(NewCall(x))
         /\ NewCall(x).bufbusy = x.bufbusy /\ NewCall(x).outbuf = x.outbuf
         /\ NewCall(x).rcv = x.rcv
  <1>1. load.retrans \in Nat
    BY RpcAssumption DEF Messages
  <1> QED
    BY <1>1 DEF NewCall, Tries, HandleFields

\* What is left of a try that failed.
LEMMA FailedTries ==
  ASSUME Messages, NEW x, DOMAIN x = HandleFields, NEW s, x.bufbusy \in BOOLEAN,
         x.stries \in 0 .. (load.retrans + 1), x.rtries \in 0 .. RECVTRIES
  PROVE  /\ DOMAIN Failed(x, s) = HandleFields /\ Tries(Failed(x, s))
         /\ Failed(x, s).bufbusy = x.bufbusy /\ Failed(x, s).outbuf = x.outbuf
         /\ Failed(x, s).rcv = x.rcv
  <1>1. load.retrans \in Nat
    BY RpcAssumption DEF Messages
  <1> QED
    BY <1>1 DEF Failed, Tries, HandleFields, RECVTRIES

\* What the invariants say of one client.
LEMMA ClientFacts ==
  ASSUME Messages, Counters, NEW c \in Client
  PROVE  /\ DOMAIN clnt = Client /\ DOMAIN clnt[c] = HandleFields
         /\ clnt[c].rcv \in Seq(Replies) /\ Tries(clnt[c]) /\ load.retrans \in Nat
  BY RpcAssumption DEF Messages, Counters

\* rfscall, and rfscall again, start a call with the buffer as it is.
LEMMA rfscallMoves ==
  ASSUME Messages, Counters, NEW c \in Client, rfscall(c)
  PROVE  ClientMove(c)
  <1>1. PICK op \in load.may[c] :
           clnt' = [clnt EXCEPT ![c] =
                      NewCall([clnt[c] EXCEPT !.op = op, !.call = @ + 1, !.told = {}])]
    BY ZenonT(30) DEF rfscall
  <1> DEFINE x == [clnt[c] EXCEPT !.op = op, !.call = @ + 1, !.told = {}]
  <1>2. /\ DOMAIN x = HandleFields /\ Tries(x) /\ x.bufbusy = clnt[c].bufbusy
        /\ x.outbuf = clnt[c].outbuf /\ x.rcv = clnt[c].rcv
    BY ClientFacts DEF Tries, HandleFields
  <1> HIDE DEF x
  <1>3. /\ DOMAIN NewCall(x) = HandleFields /\ Tries(NewCall(x))
        /\ NewCall(x).bufbusy = clnt[c].bufbusy /\ NewCall(x).outbuf = clnt[c].outbuf
        /\ NewCall(x).rcv = clnt[c].rcv
    BY <1>2, NewCallTries
  <1>4. clnt' = [clnt EXCEPT ![c] = NewCall(x)]
    BY <1>1 DEF x
  <1>5. UNCHANGED <<nfsd, sock, cache, file, net, load>>
    BY DEF rfscall, ServerSide
  <1> QED
    BY <1>3, <1>4, <1>5, ZenonT(30) DEF ClientMove

\* callit_return gives the handle back, or starts again.
LEMMA callit_returnMoves ==
  ASSUME Messages, Counters, NEW c \in Client, callit_return(c)
  PROVE  ClientMove(c)
  <1>1. /\ DOMAIN clnt[c] = HandleFields /\ Tries(clnt[c]) /\ ~clnt[c].bufbusy
        /\ clnt[c].bufbusy \in BOOLEAN /\ load.retrans \in Nat
    BY ClientFacts DEF callit_return, Ready, Tries
  <1>2. UNCHANGED <<nfsd, sock, cache, file, net, load>>
    BY DEF callit_return, ServerSide, Bounds
  <1>3. CASE clnt' = [clnt EXCEPT ![c] = NewCall(clnt[c])]
    BY <1>1, <1>2, <1>3, NewCallTries, ZenonT(30) DEF ClientMove
  <1>4. CASE clnt' = [clnt EXCEPT ![c] =
                [Idle EXCEPT !.call = clnt[c].call, !.xid = clnt[c].xid, !.rcv = clnt[c].rcv,
                             !.told = {clnt[c].status},
                             !.down = clnt[c].status \notin {"NFS_OK", "NFSERR"}]]
    <2> DEFINE y == [Idle EXCEPT !.call = clnt[c].call, !.xid = clnt[c].xid, !.rcv = clnt[c].rcv,
                                 !.told = {clnt[c].status},
                                 !.down = clnt[c].status \notin {"NFS_OK", "NFSERR"}]
    <2>1. /\ DOMAIN y = HandleFields /\ y.pc = "idle" /\ y.bufbusy = FALSE /\ y.rcv = clnt[c].rcv
          /\ y.stries = 0 /\ y.rtries = 0
      BY DEF Idle, HandleFields
    <2>2. clnt' = [clnt EXCEPT ![c] = y]
      BY <1>4
    <2> HIDE DEF y
    <2>3. Tries(y)
      <3>1. 0 \in -1 .. (load.retrans + 1) /\ 0 \in 0 .. RECVTRIES
        BY <1>1 DEF RECVTRIES
      <3> QED
        BY <2>1, <3>1, ZenonT(30) DEF Tries
    <2>4. y.bufbusy = clnt[c].bufbusy
      BY <1>1, <2>1, ZenonT(30)
    <2> QED
      BY <1>1, <1>2, <2>1, <2>2, <2>3, <2>4, ZenonT(30) DEF ClientMove
  <1> QED
    BY <1>3, <1>4, ZenonT(30) DEF callit_return

\* A try fails: nothing was sent, no reply came in time, or the wait was interrupted.
LEMMA FailingMoves ==
  ASSUME Messages, Counters, NEW c \in Client,
         cannot_send(c) \/ timed_out(c) \/ interrupted(c)
  PROVE  ClientMove(c)
  <1>1. /\ DOMAIN clnt = Client /\ DOMAIN clnt[c] = HandleFields /\ Tries(clnt[c])
        /\ load.retrans \in Nat
    BY ClientFacts
  <1>2. UNCHANGED <<nfsd, sock, cache, file, net, load>>
    BY DEF cannot_send, timed_out, interrupted, ServerSide, Bounds
  <1>3. CASE cannot_send(c)
    <2> DEFINE x == [clnt[c] EXCEPT !.outbuf = clnt[c].xid]
               y == Failed(x, "RPC_CANTSEND")
    <2>1. clnt[c].pc = "call_again" /\ ~clnt[c].bufbusy /\ clnt' = [clnt EXCEPT ![c] = y]
      BY <1>3 DEF cannot_send, Ready
    <2>2. /\ DOMAIN x = HandleFields /\ x.bufbusy \in BOOLEAN /\ x.bufbusy = clnt[c].bufbusy
          /\ x.rcv = clnt[c].rcv
          /\ x.stries \in 0 .. (load.retrans + 1) /\ x.rtries \in 0 .. RECVTRIES
      BY <1>1, <2>1 DEF Tries, HandleFields
    <2> HIDE DEF x
    <2>3. /\ DOMAIN y = HandleFields /\ Tries(y) /\ y.bufbusy = clnt[c].bufbusy
          /\ y.rcv = clnt[c].rcv
      BY <2>2, FailedTries
    <2> HIDE DEF y
    <2> QED
      BY <1>2, <2>1, <2>3, ZenonT(30) DEF ClientMove
  <1>4. CASE timed_out(c)
    <2> DEFINE y == Failed(clnt[c], "RPC_TIMEDOUT")
    <2>1. clnt[c].pc = "receive" /\ clnt' = [clnt EXCEPT ![c] = y]
      BY <1>4 DEF timed_out
    <2>2. /\ clnt[c].bufbusy \in BOOLEAN
          /\ clnt[c].stries \in 0 .. (load.retrans + 1) /\ clnt[c].rtries \in 0 .. RECVTRIES
      BY <1>1, <2>1 DEF Tries
    <2>3. /\ DOMAIN y = HandleFields /\ Tries(y) /\ y.bufbusy = clnt[c].bufbusy
          /\ y.rcv = clnt[c].rcv /\ y.outbuf = clnt[c].outbuf
      BY <1>1, <2>2, FailedTries
    <2> HIDE DEF y
    <2> QED
      BY <1>2, <2>1, <2>3, ZenonT(30) DEF ClientMove
  <1>5. CASE interrupted(c)
    <2> DEFINE y == [clnt[c] EXCEPT !.pc = "drain", !.asleep = FALSE, !.status = "RPC_INTR"]
    <2>1. clnt' = [clnt EXCEPT ![c] = y]
      BY <1>1, <1>5, ZenonT(30) DEF interrupted
    <2>2. /\ DOMAIN y = HandleFields /\ y.pc = "drain" /\ y.bufbusy = clnt[c].bufbusy
          /\ y.rcv = clnt[c].rcv /\ y.outbuf = clnt[c].outbuf
          /\ y.stries = clnt[c].stries /\ y.rtries = clnt[c].rtries
      BY <1>1 DEF HandleFields
    <2> HIDE DEF y
    <2>3. Tries(y)
      BY <1>1, <2>2 DEF Tries
    <2> QED
      BY <1>2, <2>1, <2>2, <2>3, ZenonT(30) DEF ClientMove
  <1> QED
    BY <1>3, <1>4, <1>5

\* While the client waits for its buffer it empties its socket.
LEMMA buffer_waitMoves ==
  ASSUME Messages, Counters, NEW c \in Client, buffer_wait(c)
  PROVE  ClientMove(c)
  <1>1. DOMAIN clnt = Client /\ DOMAIN clnt[c] = HandleFields /\ Tries(clnt[c])
    BY ClientFacts
  <1>2. UNCHANGED <<sock, cache, file, net, load>>
    BY DEF buffer_wait, Bounds
  <1>3. CASE clnt' = [clnt EXCEPT ![c].asleep = TRUE] /\ UNCHANGED nfsd
    <2> DEFINE y == [clnt[c] EXCEPT !.asleep = TRUE]
    <2>1. clnt' = [clnt EXCEPT ![c] = y]
      BY <1>1, <1>3
    <2>2. /\ DOMAIN y = HandleFields /\ y.pc = clnt[c].pc /\ y.bufbusy = clnt[c].bufbusy
          /\ y.rcv = clnt[c].rcv /\ y.outbuf = clnt[c].outbuf
          /\ y.stries = clnt[c].stries /\ y.rtries = clnt[c].rtries
      BY <1>1 DEF HandleFields
    <2> HIDE DEF y
    <2>3. Tries(y)
      BY <1>1, <2>2 DEF Tries
    <2> QED
      BY <1>2, <1>3, <2>1, <2>2, <2>3, ZenonT(30) DEF ClientMove
  <1>4. CASE /\ clnt' = [clnt EXCEPT ![c].asleep = FALSE, ![c].rcv = <<>>]
             /\ FreeReplies(Range(clnt[c].rcv))
    <2> DEFINE y == [clnt[c] EXCEPT !.asleep = FALSE, !.rcv = <<>>]
    <2>1. clnt' = [clnt EXCEPT ![c] = y]
      BY <1>1, <1>4, ZenonT(30)
    <2>2. /\ DOMAIN y = HandleFields /\ y.pc = clnt[c].pc /\ y.bufbusy = clnt[c].bufbusy
          /\ y.rcv = <<>> /\ y.outbuf = clnt[c].outbuf
          /\ y.stries = clnt[c].stries /\ y.rtries = clnt[c].rtries
      BY <1>1 DEF HandleFields
    <2> HIDE DEF y
    <2>3. Tries(y)
      BY <1>1, <2>2 DEF Tries
    <2> QED
      BY <1>2, <1>4, <2>1, <2>2, <2>3, ZenonT(30) DEF ClientMove
  <1> QED
    BY <1>3, <1>4, ZenonT(30) DEF buffer_wait

\* A reply is taken from the socket, alone or with all others.
LEMMA ku_recvfromMoves ==
  ASSUME Messages, Counters, NEW c \in Client, ku_recvfrom(c)
  PROVE  ClientMove(c)
  <1> DEFINE x == clnt[c]
             r == Head(x.rcv)
  <1>1. /\ DOMAIN clnt = Client /\ DOMAIN x = HandleFields /\ Tries(x) /\ x.pc = "receive"
        /\ x.rcv # <<>> /\ load.retrans \in Nat
    BY ClientFacts DEF ku_recvfrom
  <1>2. UNCHANGED <<sock, cache, file, net, load>>
    BY DEF ku_recvfrom, Bounds
  <1>3. CASE r.xid = x.outbuf
    <2> DEFINE y == [x EXCEPT !.pc = "drain", !.status = r.status, !.rcv = <<>>,
                              !.asleep = FALSE]
    <2>1. clnt' = [clnt EXCEPT ![c] = y] /\ FreeReplies(Range(x.rcv))
      BY <1>1, <1>3, ZenonT(30) DEF ku_recvfrom
    <2>2. /\ DOMAIN y = HandleFields /\ y.pc = "drain" /\ y.bufbusy = x.bufbusy
          /\ y.rcv = <<>> /\ y.outbuf = x.outbuf
          /\ y.stries = x.stries /\ y.rtries = x.rtries
      BY <1>1 DEF HandleFields
    <2> HIDE DEF y
    <2>3. Tries(y)
      BY <1>1, <2>2 DEF Tries
    <2> QED
      BY <1>2, <2>1, <2>2, <2>3, ZenonT(30) DEF ClientMove
  <1>4. CASE r.xid # x.outbuf
    <2> DEFINE w == [x EXCEPT !.rcv = Tail(@), !.rtries = @ - 1]
               y == IF w.rtries = 0 THEN Failed(w, "RPC_CANTRECV")
                    ELSE [w EXCEPT !.asleep = w.rcv = <<>>]
    <2>1. clnt' = [clnt EXCEPT ![c] = y] /\ FreeReplies({r})
      BY <1>1, <1>4 DEF ku_recvfrom
    <2>2. /\ DOMAIN w = HandleFields /\ w.pc = "receive" /\ w.bufbusy = x.bufbusy
          /\ w.rcv = Tail(x.rcv) /\ w.outbuf = x.outbuf
          /\ w.stries = x.stries /\ w.rtries = x.rtries - 1
      BY <1>1 DEF HandleFields
    <2> HIDE DEF w
    <2>3. /\ w.bufbusy \in BOOLEAN
          /\ w.stries \in 0 .. (load.retrans + 1) /\ w.rtries \in 0 .. RECVTRIES
      BY <1>1, <2>2 DEF Tries, RECVTRIES
    <2>4. /\ DOMAIN y = HandleFields /\ Tries(y) /\ y.bufbusy = x.bufbusy
          /\ y.rcv = Tail(x.rcv) /\ y.outbuf = x.outbuf
      <3>1. CASE w.rtries = 0
        <4>1. y = Failed(w, "RPC_CANTRECV")
          BY <3>1
        <4> HIDE DEF y
        <4> QED
          BY <2>2, <2>3, <4>1, FailedTries
      <3>2. CASE w.rtries # 0
        <4> DEFINE z == [w EXCEPT !.asleep = w.rcv = <<>>]
        <4>1. /\ DOMAIN z = HandleFields /\ z.pc = w.pc /\ z.bufbusy = w.bufbusy
              /\ z.rcv = w.rcv /\ z.outbuf = w.outbuf
              /\ z.stries = w.stries /\ z.rtries = w.rtries /\ y = z
          BY <2>2, <3>2 DEF HandleFields
        <4> HIDE DEF z, y
        <4>2. Tries(z)
          BY <2>2, <2>3, <3>2, <4>1 DEF Tries, RECVTRIES
        <4> QED
          BY <2>2, <4>1, <4>2
      <3> QED
        BY <3>1, <3>2
    <2> HIDE DEF y
    <2> QED
      BY <1>1, <1>2, <2>1, <2>4, ZenonT(30) DEF ClientMove
  <1> QED
    BY <1>3, <1>4

\* Freeing replies changes the buffers of their nfsds only.
Freed(R) ==
    \A n \in Nfsd :
      /\ nfsd'[n].pc = nfsd[n].pc /\ nfsd'[n].req = nfsd[n].req /\ nfsd'[n].status = nfsd[n].status
      /\ \/ nfsd'[n].busy = nfsd[n].busy
         \/ load.route = "loop" /\ (\E r \in R : r.by = n) /\ nfsd'[n].busy = FALSE

LEMMA FreedIs ==
  ASSUME Messages, NEW R, FreeReplies(R)
  PROVE  Freed(R)
  <1> SUFFICES ASSUME NEW n \in Nfsd
               PROVE  /\ nfsd'[n].pc = nfsd[n].pc /\ nfsd'[n].req = nfsd[n].req
                      /\ nfsd'[n].status = nfsd[n].status
                      /\ \/ nfsd'[n].busy = nfsd[n].busy
                         \/ load.route = "loop" /\ (\E r \in R : r.by = n) /\ nfsd'[n].busy = FALSE
    BY ZenonT(30) DEF Freed
  <1>1. DOMAIN nfsd[n] = TransportFields
    BY DEF Messages
  <1>2. CASE load.route = "loop" /\ \E r \in R : r.by = n
    <2>1. nfsd'[n] = [nfsd[n] EXCEPT !.busy = FALSE]
      BY <1>2 DEF FreeReplies
    <2> QED
      BY <1>1, <1>2, <2>1, ZenonT(30) DEF TransportFields
  <1>3. CASE ~(load.route = "loop" /\ \E r \in R : r.by = n)
    BY <1>3, ZenonT(30) DEF FreeReplies
  <1> QED
    BY <1>2, <1>3, ZenonT(30)

\* A client that sends nothing leaves every datagram in its buffer.
LEMMA ClientMoveKeeps ==
  ASSUME Messages, BufferInv, NEW c \in Client, ClientMove(c)
  PROVE  BufferInv'
  <1>1. PICK y :
          /\ clnt' = [clnt EXCEPT ![c] = y]
          /\ DOMAIN y = HandleFields /\ Tries(y)
          /\ y.bufbusy = clnt[c].bufbusy
          /\ clnt[c].bufbusy => y.outbuf = clnt[c].outbuf
          /\ \/ y.rcv = clnt[c].rcv /\ UNCHANGED nfsd
             \/ y.rcv = <<>> /\ FreeReplies(Range(clnt[c].rcv))
             \/ /\ clnt[c].rcv # <<>> /\ y.rcv = Tail(clnt[c].rcv)
                /\ FreeReplies({Head(clnt[c].rcv)})
          /\ UNCHANGED <<sock, cache, file, net, load>>
    BY ZenonT(30) DEF ClientMove
  <1>2. clnt'[c] = y /\ \A e \in Client \ {c} : clnt'[e] = clnt[e]
    BY <1>1 DEF Messages
  <1>3. clnt[c].rcv \in Seq(Replies)
    BY DEF Messages
  <1>4. PICK R : /\ Freed(R)
                 /\ Distinct(clnt[c].rcv) =>
                      /\ Distinct(y.rcv) /\ Range(y.rcv) \subseteq Range(clnt[c].rcv)
                      /\ R \subseteq Range(clnt[c].rcv)
                      /\ \A d \in Range(y.rcv), r \in R : d.by # r.by
    <2>1. CASE y.rcv = clnt[c].rcv /\ UNCHANGED nfsd
      <3>1. Freed({})
        BY <2>1 DEF Freed
      <3> QED
        BY <2>1, <3>1
    <2>2. CASE y.rcv = <<>> /\ FreeReplies(Range(clnt[c].rcv))
      BY <2>2, FreedIs, DistinctEmpty
    <2>3. CASE /\ clnt[c].rcv # <<>> /\ y.rcv = Tail(clnt[c].rcv)
               /\ FreeReplies({Head(clnt[c].rcv)})
      BY <1>3, <2>3, FreedIs, DistinctTail
    <2> QED
      BY <1>1, <2>1, <2>2, <2>3
  <1>5. Counters'
    <2>1. \A e \in Client : Tries(clnt[e])'
      BY <1>1, <1>2 DEF BufferInv, Counters, Tries
    <2>2. \A n \in Nfsd : /\ nfsd'[n].status \in {"none", "NFS_OK", "NFSERR"}
                          /\ nfsd'[n].busy \in BOOLEAN
      BY <1>4, ZenonT(30) DEF Freed, BufferInv, Counters
    <2> QED
      BY <1>1, <2>1, <2>2 DEF BufferInv, Counters
  <1>6. ASSUME NEW d, d.by \in Client, InBuffer(d) PROVE InBuffer(d)'
    BY <1>1, <1>2, <1>6 DEF InBuffer
  <1>7. ASSUME load.route = "net" PROVE NetInv'
    <2>1. NetInv /\ net' = net
      BY <1>1, <1>7 DEF BufferInv
    <2>2. \A d \in net : (d.to = "server" => d.by \in Client) /\ (d.to = "client" => d.by \in Nfsd)
      BY DEF Messages, Own, Requests, Replies
    <2>3. \A n \in Nfsd : nfsd'[n].busy = nfsd[n].busy
      BY <1>4, <1>7 DEF Freed
    <2> QED
      BY <1>6, <2>1, <2>2, <2>3 DEF NetInv
  <1>8. ASSUME load.route = "loop" PROVE LoopInv'
    <2>1. LoopInv /\ net' = net /\ sock' = sock
      BY <1>1, <1>8 DEF BufferInv
    <2>2. \A n \in Nfsd : Served(n)' = Served(n) /\ Served(n) \subseteq Own
      BY <1>4 DEF Freed, Served, Messages
    <2>3. Range(sock) \subseteq Own
      BY RangeOf DEF Messages
    <2>4. RequestsApart'
      BY <1>6, <2>1, <2>2, <2>3 DEF LoopInv, RequestsApart, Own, Requests
    <2>5. RepliesApart'
      <3>1. Distinct(clnt[c].rcv) /\ RepliesApart
        BY <2>1 DEF LoopInv, RepliesApart
      <3>2. \A e \in Client : Distinct(clnt'[e].rcv) /\ Range(clnt'[e].rcv) \subseteq Range(clnt[e].rcv)
        BY <1>2, <1>4, <3>1 DEF RepliesApart
      <3>3. ASSUME NEW e \in Client, NEW d \in Range(clnt'[e].rcv), NEW r \in R PROVE d.by # r.by
        BY <1>2, <1>4, <3>1, <3>2, <3>3 DEF RepliesApart
      <3>4. ASSUME NEW e \in Client, NEW d \in Range(clnt'[e].rcv) PROVE nfsd'[d.by].busy
        <4>1. d.by \in Nfsd /\ nfsd[d.by].busy
          BY <3>1, <3>2, <3>4, RepliesBy DEF RepliesApart
        <4> QED
          BY <1>4, <3>3, <3>4, <4>1 DEF Freed
      <3> QED
        BY <3>1, <3>2, <3>4 DEF RepliesApart
    <2> QED
      BY <2>1, <2>4, <2>5 DEF LoopInv
  <1> QED
    BY <1>1, <1>5, <1>7, <1>8 DEF BufferInv

\* A client sends from a buffer that no datagram is in.
LEMMA ku_sendto_mbufBuffers ==
  ASSUME Messages, BufferInv, NEW c \in Client, ku_sendto_mbuf(c)
  PROVE  BufferInv'
  <1> DEFINE y == [clnt[c] EXCEPT !.pc = "receive", !.bufbusy = TRUE,
                                  !.outbuf = clnt[c].xid, !.rtries = RECVTRIES,
                                  !.asleep = clnt[c].rcv = <<>>]
  <1>0. PICK d : d = Request(clnt[c], c)
    OBVIOUS
  <1>1. /\ DOMAIN clnt = Client /\ DOMAIN clnt[c] = HandleFields /\ Tries(clnt[c])
        /\ clnt[c].pc = "call_again" /\ ~clnt[c].bufbusy
    BY ClientFacts DEF BufferInv, ku_sendto_mbuf, Ready
  <1>2. /\ y.pc = "receive" /\ y.bufbusy = TRUE /\ y.outbuf = clnt[c].xid
        /\ y.rtries = RECVTRIES /\ y.stries = clnt[c].stries /\ y.rcv = clnt[c].rcv
    BY <1>1 DEF HandleFields
  <1>3. clnt' = [clnt EXCEPT ![c] = y]
    BY <1>1, ZenonT(30) DEF ku_sendto_mbuf
  <1>4. d.by = c /\ d.xid = clnt[c].xid /\ d.held = TRUE /\ d.to = "server"
    BY <1>0 DEF Request
  <1>5. /\ UNCHANGED <<nfsd, cache, file, load>>
        /\ IF load.route = "loop" THEN sock' = Append(sock, d) /\ UNCHANGED net
           ELSE net' = net \cup {d} /\ UNCHANGED sock
    BY <1>0 DEF ku_sendto_mbuf, Bounds
  <1> HIDE DEF y
  <1>6. clnt'[c] = y /\ \A e \in Client \ {c} : clnt'[e] = clnt[e]
    BY <1>1, <1>3
  <1>7. Counters'
    <2>1. Tries(y)
      <3>1. y.bufbusy \in BOOLEAN
        BY <1>2, ZenonT(30)
      <3>2. y.rtries \in 0 .. RECVTRIES /\ y.rtries >= 1
        BY <1>2 DEF RECVTRIES
      <3> QED
        BY <1>1, <1>2, <3>1, <3>2 DEF Tries
    <2> QED
      BY <1>5, <1>6, <2>1 DEF BufferInv, Counters, Tries
  <1>8. ASSUME NEW e, e.by \in Client, InBuffer(e) PROVE InBuffer(e)' /\ e.by # c
    BY <1>1, <1>6, <1>8 DEF InBuffer
  <1>9. InBuffer(d)'
    BY <1>2, <1>4, <1>6 DEF InBuffer
  <1>10. ASSUME load.route = "net" PROVE NetInv'
    <2>1. NetInv /\ net' = net \cup {d} /\ nfsd' = nfsd
      BY <1>5, <1>10 DEF BufferInv
    <2>2. \A e \in net : e.to = "server" => e.by \in Client
      BY DEF Messages, Own, Requests, Replies
    <2>3. \A e \in net : e.held /\ e.to = "server" => InBuffer(e)' /\ e.by # c
      BY <1>8, <2>1, <2>2 DEF NetInv
    <2> QED
      BY <1>4, <1>9, <2>1, <2>3 DEF NetInv
  <1>11. ASSUME load.route = "loop" PROVE LoopInv'
    <2>1. LoopInv /\ net' = net /\ sock' = Append(sock, d) /\ nfsd' = nfsd
      BY <1>5, <1>11 DEF BufferInv
    <2>2. sock \in Seq(Own) /\ Range(sock) \subseteq Own /\ \A n \in Nfsd : Served(n) \subseteq Own
      BY RangeOf DEF Messages, Served
    <2>3. \A e \in Range(sock) : InBuffer(e)' /\ e.by # c
      BY <1>8, <2>1, <2>2 DEF LoopInv, RequestsApart, Own, Requests
    <2>4. \A n \in Nfsd : \A e \in Served(n) : InBuffer(e)' /\ e.by # c
      BY <1>8, <2>1, <2>2 DEF LoopInv, RequestsApart, Own, Requests
    <2>5. Distinct(sock') /\ Range(sock') = Range(sock) \cup {d}
      <3>1. sock \in Seq(Own \cup {d})
        BY <2>2
      <3> QED
        BY <1>4, <2>1, <2>3, <3>1, DistinctAppend DEF LoopInv, RequestsApart
    <2>6. \A n \in Nfsd : Served(n)' = Served(n)
      BY <2>1 DEF Served
    <2>7. RequestsApart'
      BY <1>4, <1>9, <2>1, <2>3, <2>4, <2>5, <2>6 DEF LoopInv, RequestsApart
    <2>8. RepliesApart'
      <3>1. \A e \in Client : clnt'[e].rcv = clnt[e].rcv
        BY <1>2, <1>6
      <3> QED
        BY <2>1, <3>1 DEF LoopInv, RepliesApart
    <2> QED
      BY <2>1, <2>7, <2>8 DEF LoopInv
  <1> QED
    BY <1>5, <1>7, <1>10, <1>11 DEF BufferInv

-----------------------------------------------------------------------------
(* The server's steps *)

\* What the invariants say of one nfsd.
LEMMA NfsdFacts ==
  ASSUME Messages, Counters, NEW n \in Nfsd
  PROVE  /\ DOMAIN nfsd = Nfsd /\ DOMAIN nfsd[n] = TransportFields /\ nfsd[n].req \subseteq Own
         /\ nfsd[n].status \in {"none", "NFS_OK", "NFSERR"} /\ nfsd[n].busy \in BOOLEAN
  BY DEF Messages, Counters

\* An nfsd takes a request: it leaves the socket.
LEMMA svckudp_recvBuffers ==
  ASSUME Messages, BufferInv, NEW n \in Nfsd, svckudp_recv(n)
  PROVE  BufferInv'
  <1> DEFINE label == IF Head(sock).op = "create" THEN "rfs_create" ELSE "VOP"
             y == [nfsd[n] EXCEPT !.req = {Head(sock)}, !.pc = label]
  <1>1. /\ DOMAIN nfsd = Nfsd /\ DOMAIN nfsd[n] = TransportFields
        /\ nfsd[n].status \in {"none", "NFS_OK", "NFSERR"} /\ nfsd[n].busy \in BOOLEAN
        /\ nfsd[n].pc = "svc_run" /\ sock # <<>>
    BY NfsdFacts DEF BufferInv, svckudp_recv
  <1>2. /\ y.req = {Head(sock)} /\ y.pc \in {"rfs_create", "VOP"}
        /\ y.status = nfsd[n].status /\ y.busy = nfsd[n].busy
    BY <1>1 DEF TransportFields
  <1>3. /\ nfsd' = [nfsd EXCEPT ![n] = y] /\ sock' = Tail(sock)
        /\ UNCHANGED <<clnt, cache, file, net, load>>
    BY <1>1, ZenonT(30) DEF svckudp_recv, Bounds
  <1> HIDE DEF y
  <1>4. nfsd'[n] = y /\ \A m \in Nfsd \ {n} : nfsd'[m] = nfsd[m]
    BY <1>1, <1>3
  <1>5. \A m \in Nfsd : nfsd'[m].busy = nfsd[m].busy /\ nfsd'[m].status = nfsd[m].status
    BY <1>2, <1>4
  <1>6. Counters'
    BY <1>3, <1>5 DEF BufferInv, Counters, Tries
  <1>7. ASSUME load.route = "net" PROVE NetInv'
    <2>1. \A d \in net : d.to = "client" => d.by \in Nfsd
      BY DEF Messages, Own, Requests, Replies
    <2> QED
      BY <1>3, <1>5, <1>7, <2>1 DEF BufferInv, NetInv, InBuffer
  <1>8. ASSUME load.route = "loop" PROVE LoopInv'
    <2>1. RequestsApart /\ RepliesApart /\ net = {} /\ sock \in Seq(Own)
      BY <1>8 DEF BufferInv, LoopInv, Messages
    <2>2. /\ Distinct(sock') /\ Range(sock') \subseteq Range(sock) /\ Head(sock) \in Range(sock)
          /\ \A e \in Range(sock') : e.by # Head(sock).by
      BY <1>1, <1>3, <2>1, DistinctTail DEF RequestsApart
    <2>3. Served(n)' = {Head(sock)} /\ \A m \in Nfsd \ {n} : Served(m)' = Served(m)
      BY <1>2, <1>4 DEF Served
    <2>4. \A d : InBuffer(d)' <=> InBuffer(d)
      BY <1>3 DEF InBuffer
    <2>5. RequestsApart'
      BY <2>1, <2>2, <2>3, <2>4 DEF RequestsApart
    <2>6. RepliesApart'
      <3>1. \A c \in Client : \A d \in Range(clnt[c].rcv) : d.by \in Nfsd
        BY RepliesBy
      <3> QED
        BY <1>3, <1>5, <2>1, <3>1 DEF RepliesApart
    <2> QED
      BY <1>3, <2>1, <2>5, <2>6 DEF LoopInv
  <1> QED
    BY <1>3, <1>6, <1>7, <1>8 DEF BufferInv

\* An nfsd works on its request: no buffer changes hands.
LEMMA WorkBuffers ==
  ASSUME Messages, BufferInv, NEW n \in Nfsd, rfs_create(n) \/ VOP(n)
  PROVE  BufferInv'
  <1>1. /\ DOMAIN nfsd = Nfsd /\ DOMAIN nfsd[n] = TransportFields
        /\ nfsd[n].status \in {"none", "NFS_OK", "NFSERR"}
    BY NfsdFacts DEF BufferInv
  <1>2. /\ nfsd'[n].req = nfsd[n].req /\ nfsd'[n].busy = nfsd[n].busy
        /\ nfsd[n].pc # "send" /\ nfsd'[n].pc # "send"
        /\ nfsd'[n].status \in {"none", "NFS_OK", "NFSERR"}
        /\ \A m \in Nfsd \ {n} : nfsd'[m] = nfsd[m]
    <2>1. CASE rfs_create(n)
      <3>1. PICK l : nfsd' = [nfsd EXCEPT ![n].pc = "VOP", ![n].lookup = l]
        BY <2>1, ZenonT(30) DEF rfs_create
      <3> QED
        BY <1>1, <2>1, <3>1, ZenonT(30) DEF rfs_create, TransportFields
    <2>2. CASE VOP(n)
      <3>1. PICK s \in {"NFS_OK", "NFSERR"} : \E a :
              nfsd' = [nfsd EXCEPT ![n].pc = "rfs_dispatch", ![n].status = s, ![n].again = a]
        BY <2>2, ZenonT(30) DEF VOP
      <3>2. PICK a :
              nfsd' = [nfsd EXCEPT ![n].pc = "rfs_dispatch", ![n].status = s, ![n].again = a]
        BY <3>1, ZenonT(30)
      <3> QED
        BY <1>1, <2>2, <3>2, ZenonT(30) DEF VOP, TransportFields
    <2> QED
      BY <2>1, <2>2
  <1>3. UNCHANGED <<clnt, sock, cache, net, load>> /\ file' \in {"none", "empty", "full"}
    <2>1. CASE rfs_create(n)
      BY <2>1 DEF rfs_create, Bounds, BufferInv, Counters
    <2>2. CASE VOP(n)
      <3>1. file' \in {"none", "empty", "full"}
        <4>1. PICK r \in nfsd[n].req :
                LET op == IF nfsd[n].lookup THEN "lookup" ELSE r.op
                    ok == CASE op \in {"lookup", "remove", "write"} -> file # "none"
                            [] op = "link" -> file = "none"
                            [] op = "create" -> TRUE
                IN  file' = CASE ~ok \/ op = "lookup" -> file
                              [] ok /\ op = "create" -> "empty"
                              [] ok /\ op = "remove" -> "none"
                              [] ok /\ op \in {"link", "write"} -> "full"
          BY <2>2, ZenonT(30) DEF VOP
        <4>2. r.op \in Ops /\ file \in {"none", "empty", "full"}
          BY NfsdFacts DEF Own, Requests, BufferInv, Counters
        <4> QED
          BY <4>1, <4>2, ZenonT(30) DEF Ops
      <3> QED
        BY <2>2, <3>1, ZenonT(30) DEF VOP, Bounds
    <2> QED
      BY <2>1, <2>2
  <1>4. \A m \in Nfsd : nfsd'[m].busy = nfsd[m].busy /\ Served(m)' = Served(m)
    BY <1>2 DEF Served
  <1>5. Counters'
    BY <1>2, <1>3, <1>4 DEF BufferInv, Counters, Tries
  <1>6. ASSUME load.route = "net" PROVE NetInv'
    <2>1. \A d \in net : d.to = "client" => d.by \in Nfsd
      BY DEF Messages, Own, Requests, Replies
    <2> QED
      BY <1>3, <1>4, <1>6, <2>1 DEF BufferInv, NetInv, InBuffer
  <1>7. ASSUME load.route = "loop" PROVE LoopInv'
    <2>1. \A c \in Client : \A d \in Range(clnt[c].rcv) : d.by \in Nfsd
      BY RepliesBy
    <2>2. LoopInv
      BY <1>7 DEF BufferInv
    <2>3. RequestsApart'
      BY <1>3, <1>4, <2>2 DEF LoopInv, RequestsApart, InBuffer
    <2>4. RepliesApart'
      BY <1>3, <1>4, <2>1, <2>2 DEF LoopInv, RepliesApart
    <2> QED
      BY <1>3, <2>2, <2>3, <2>4 DEF LoopInv
  <1> QED
    BY <1>3, <1>5, <1>6, <1>7 DEF BufferInv

\* The clients when an nfsd answers r: on one machine the client's buffer may have come
\* back with the request.
Returned(n, r, x) ==
    /\ DOMAIN x = Client
    /\ \A c \in Client :
         /\ DOMAIN x[c] = HandleFields /\ Tries(x[c])
         /\ x[c].outbuf = clnt[c].outbuf /\ x[c].rcv = clnt[c].rcv
         /\ \/ x[c].bufbusy = clnt[c].bufbusy
            \/ load.route = "loop" /\ c = r.by /\ nfsd[n].pc # "send"

LEMMA freeargsReturned ==
  ASSUME Messages, Counters, NEW n \in Nfsd, NEW r \in Own
  PROVE  /\ Returned(n, r, clnt)
         /\ nfsd[n].pc # "send" => Returned(n, r, svckudp_freeargs(r))
  <1>1. \A c \in Client : DOMAIN clnt[c] = HandleFields /\ Tries(clnt[c])
    BY DEF Messages, Counters
  <1>2. Returned(n, r, clnt)
    BY <1>1 DEF Returned, Messages
  <1>3. ASSUME nfsd[n].pc # "send" PROVE Returned(n, r, svckudp_freeargs(r))
    <2> DEFINE x == svckudp_freeargs(r)
               b == clnt[r.by].bufbusy /\ load.route = "net"
               y == [clnt[r.by] EXCEPT !.bufbusy = b]
    <2>1. r.by = r.from /\ r.by \in Client /\ DOMAIN clnt = Client
      BY DEF Own, Requests, Messages
    <2>2. DOMAIN x = Client /\ x[r.by] = y /\ \A c \in Client \ {r.by} : x[c] = clnt[c]
      BY <2>1 DEF svckudp_freeargs
    <2>3. /\ DOMAIN y = HandleFields /\ y.outbuf = clnt[r.by].outbuf /\ y.rcv = clnt[r.by].rcv
          /\ y.pc = clnt[r.by].pc /\ y.stries = clnt[r.by].stries
          /\ y.rtries = clnt[r.by].rtries /\ y.bufbusy = b
      BY <1>1, <2>1 DEF HandleFields
    <2>4. b \in BOOLEAN
      OBVIOUS
    <2>5. load.route = "net" => b = clnt[r.by].bufbusy
      BY <1>1, <2>1 DEF Tries
    <2>6. load.route \in {"net", "loop"}
      BY RpcAssumption DEF Messages
    <2> HIDE DEF x, y, b
    <2>7. Tries(y)
      BY <1>1, <2>1, <2>3, <2>4 DEF Tries
    <2>8. Returned(n, r, x)
      BY <1>1, <1>3, <2>1, <2>2, <2>3, <2>5, <2>6, <2>7 DEF Returned
    <2> QED
      BY <2>8 DEF x
  <1> QED
    BY <1>2, <1>3

\* The request is no longer in a buffer, and all others are where they were.
LEMMA RequestsLeft ==
  ASSUME Messages, LoopInv, NEW n \in Nfsd, NEW r \in nfsd[n].req, NEW x, Returned(n, r, x),
         DOMAIN clnt' = Client,
         \A c \in Client : clnt'[c].bufbusy = x[c].bufbusy /\ clnt'[c].outbuf = x[c].outbuf,
         sock' = sock, Served(n)' = {}, \A m \in Nfsd \ {n} : Served(m)' = Served(m)
  PROVE  RequestsApart'
  <1>1. RequestsApart /\ Range(sock) \subseteq Own /\ \A m \in Nfsd : Served(m) \subseteq Own
    BY RangeOf DEF LoopInv, Messages, Served
  <1>2. ASSUME NEW d \in Own, InBuffer(d), nfsd[n].pc # "send" => d.by # r.by PROVE InBuffer(d)'
    BY <1>2 DEF InBuffer, Returned, Own, Requests
  <1>3. nfsd[n].pc # "send" => r \in Served(n)
    BY DEF Served
  <1>4. \A d \in Range(sock) : InBuffer(d)'
    BY <1>1, <1>2, <1>3 DEF RequestsApart
  <1>5. \A m \in Nfsd \ {n} : \A q \in Served(m) : InBuffer(q)'
    BY <1>1, <1>2, <1>3 DEF RequestsApart
  <1> QED
    BY <1>1, <1>4, <1>5 DEF RequestsApart

\* An nfsd sends its answer from a buffer that no answer is in.
LEMMA svckudp_sendBuffers ==
  ASSUME Messages, BufferInv, NEW n \in Nfsd, NEW r \in nfsd[n].req, NEW x, Returned(n, r, x),
         ~nfsd[n].busy, NEW s, svckudp_send(n, r, s, x),
         UNCHANGED <<sock, file, load>>, Len(cache') <= MaxDupReqs
  PROVE  BufferInv'
  <1> DEFINE g == Reply(n, r, s)
             w == [IdleNfsd EXCEPT !.busy = TRUE]
  <1>1. DOMAIN nfsd = Nfsd /\ r.by = r.from /\ r.by \in Client /\ r.xid \in Nat
    BY NfsdFacts DEF BufferInv, Own, Requests
  <1>2. w.req = {} /\ w.busy = TRUE /\ w.status = "none" /\ w.pc = "svc_run"
    BY DEF IdleNfsd
  <1>3. nfsd' = [nfsd EXCEPT ![n] = w]
    BY DEF svckudp_send
  <1>4. g.by = n /\ g.to = "client" /\ g.held = TRUE
    BY DEF Reply
  <1>5. CASE load.route = "loop"
    <2> DEFINE y == [x[r.by] EXCEPT !.rcv = Append(clnt[r.by].rcv, g)]
    <2>1. clnt' = [x EXCEPT ![r.by] = y] /\ net' = net
      <3>1. clnt' = [x EXCEPT ![r.by].rcv = Append(@, g)] /\ net' = net
        BY <1>1, <1>5 DEF svckudp_send
      <3> QED
        BY <1>1, <3>1, ZenonT(30) DEF Returned
    <2>2. /\ y.bufbusy = x[r.by].bufbusy /\ y.outbuf = x[r.by].outbuf /\ y.pc = x[r.by].pc
          /\ y.stries = x[r.by].stries /\ y.rtries = x[r.by].rtries
          /\ y.rcv = Append(clnt[r.by].rcv, g)
      BY <1>1 DEF Returned, HandleFields
    <2> HIDE DEF y, g, w
    <2>3. /\ DOMAIN clnt' = Client /\ clnt'[r.by] = y
          /\ \A c \in Client \ {r.by} : clnt'[c] = x[c]
      BY <1>1, <2>1 DEF Returned
    <2>4. nfsd'[n] = w /\ \A m \in Nfsd \ {n} : nfsd'[m] = nfsd[m]
      BY <1>1, <1>3
    <2>5. Served(n)' = {} /\ \A m \in Nfsd \ {n} : Served(m)' = Served(m)
      BY <1>2, <2>4 DEF Served
    <2>6. LoopInv
      BY <1>5 DEF BufferInv
    <2>7. \A c \in Client : clnt'[c].bufbusy = x[c].bufbusy /\ clnt'[c].outbuf = x[c].outbuf
      BY <2>2, <2>3
    <2>8. RequestsApart'
      BY <2>3, <2>5, <2>6, <2>7, RequestsLeft
    <2>9. RepliesApart'
      <3>1. \A c \in Client : \A d \in Range(clnt[c].rcv) : d.by # n /\ d.by \in Nfsd /\ nfsd[d.by].busy
        BY <2>6, RepliesBy DEF LoopInv, RepliesApart
      <3>2. clnt[r.by].rcv \in Seq(Replies) /\ Distinct(clnt[r.by].rcv)
        BY <1>1, <2>6 DEF Messages, LoopInv, RepliesApart
      <3>3. /\ Distinct(clnt'[r.by].rcv)
            /\ Range(clnt'[r.by].rcv) = Range(clnt[r.by].rcv) \cup {g}
        <4>1. clnt[r.by].rcv \in Seq(Replies \cup {g})
          BY <3>2
        <4>2. \A e \in Range(clnt[r.by].rcv) : e.by # g.by
          BY <1>1, <1>4, <3>1
        <4>3. clnt'[r.by].rcv = Append(clnt[r.by].rcv, g)
          BY <2>2, <2>3
        <4> QED
          BY <3>2, <4>1, <4>2, <4>3, DistinctAppend
      <3>4. \A c \in Client \ {r.by} : clnt'[c].rcv = clnt[c].rcv
        BY <2>3 DEF Returned
      <3>5. \A c \in Client : Distinct(clnt'[c].rcv)
        BY <2>6, <3>3, <3>4 DEF LoopInv, RepliesApart
      <3>6. \A c \in Client : \A d \in Range(clnt'[c].rcv) :
              (d = g /\ c = r.by) \/ d \in Range(clnt[c].rcv)
        BY <3>3, <3>4
      <3>7. \A c \in Client : \A d \in Range(clnt'[c].rcv) : nfsd'[d.by].busy
        BY <1>2, <1>4, <2>4, <3>1, <3>6
      <3>8. \A c, e \in Client : \A d \in Range(clnt'[c].rcv), f \in Range(clnt'[e].rcv) :
              d.by = f.by => c = e
        BY <1>4, <2>6, <3>1, <3>6 DEF LoopInv, RepliesApart
      <3> QED
        BY <3>5, <3>7, <3>8 DEF RepliesApart
    <2>10. Counters'
      <3>1. \A c \in Client : Tries(clnt[c])'
        BY <2>2, <2>3 DEF Returned, Tries
      <3> QED
        BY <1>2, <2>4, <3>1, ZenonT(30) DEF BufferInv, Counters
    <2> QED
      BY <1>5, <2>1, <2>6, <2>8, <2>9, <2>10 DEF BufferInv, LoopInv
  <1>6. CASE load.route = "net"
    <2>1. clnt' = x /\ net' = net \cup {g} /\ NetInv
      BY <1>6 DEF svckudp_send, BufferInv
    <2> HIDE DEF g, w
    <2>2. nfsd'[n] = w /\ \A m \in Nfsd \ {n} : nfsd'[m] = nfsd[m]
      BY <1>1, <1>3
    <2>3. \A c \in Client : clnt'[c].bufbusy = clnt[c].bufbusy /\ clnt'[c].outbuf = clnt[c].outbuf
      BY <1>6, <2>1 DEF Returned
    <2>4. \A d \in net : (d.to = "server" => d.by \in Client) /\ (d.to = "client" => d.by \in Nfsd)
      BY DEF Messages, Own, Requests, Replies
    <2>5. \A d \in net : d.held /\ d.to = "client" => d.by # n
      BY <2>1 DEF NetInv
    <2>6. NetInv'
      BY <1>2, <1>4, <2>1, <2>2, <2>3, <2>4, <2>5 DEF NetInv, InBuffer
    <2>7. Counters'
      <3>1. \A c \in Client : Tries(clnt[c])'
        BY <2>1 DEF Returned, Tries
      <3> QED
        BY <1>2, <2>2, <3>1, ZenonT(30) DEF BufferInv, Counters
    <2> QED
      BY <1>6, <2>6, <2>7 DEF BufferInv
  <1>7. load.route \in {"net", "loop"}
    BY RpcAssumption DEF Messages
  <1> QED
    BY <1>5, <1>6, <1>7

\* The cache stays within its size.
LEMMA CacheBound ==
  ASSUME Len(cache) <= MaxDupReqs, NEW n, NEW K, cache \in Seq(K), NEW r
  PROVE  Len(svckudp_dupsave(r)) <= MaxDupReqs
  <1>1. MaxDupReqs \in Nat \ {0} /\ Len(cache) \in Nat
    BY RpcAssumption
  <1>2. CASE Len(cache) < MaxDupReqs
    BY <1>1, <1>2 DEF svckudp_dupsave
  <1>3. CASE ~(Len(cache) < MaxDupReqs)
    <2>1. cache # <<>> /\ Len(Tail(cache)) = Len(cache) - 1 /\ Tail(cache) \in Seq(K)
      BY <1>1, <1>3
    <2> QED
      BY <1>1, <1>3, <2>1 DEF svckudp_dupsave
  <1> QED
    BY <1>2, <1>3

\* rfs_dispatch gives the request back and sends the answer, or waits to send it.
LEMMA rfs_dispatchBuffers ==
  ASSUME Messages, BufferInv, NEW K, cache \in Seq(K), NEW n \in Nfsd, rfs_dispatch(n)
  PROVE  BufferInv'
  <1>1. PICK r \in nfsd[n].req :
          LET error == nfsd[n].status = "NFSERR"
              status == IF error /\ r.op \in {"remove", "link"} /\ svckudp_dup(r)
                        THEN "NFS_OK" ELSE nfsd[n].status
          IN  /\ cache' = IF error \/ nfsd[n].lookup \/ r.op = "write" THEN cache
                          ELSE svckudp_dupsave(r)
              /\ IF nfsd[n].busy
                 THEN /\ nfsd' = [nfsd EXCEPT ![n].pc = "send", ![n].status = status]
                      /\ clnt' = svckudp_freeargs(r) /\ UNCHANGED net
                 ELSE svckudp_send(n, r, status, svckudp_freeargs(r))
    BY DEF rfs_dispatch
  <1>2. /\ DOMAIN nfsd = Nfsd /\ DOMAIN nfsd[n] = TransportFields /\ nfsd[n].req \subseteq Own
        /\ nfsd[n].status \in {"none", "NFS_OK", "NFSERR"}
    BY NfsdFacts DEF BufferInv
  <1>3. PICK s \in {"none", "NFS_OK", "NFSERR"} :
          IF nfsd[n].busy
          THEN /\ nfsd' = [nfsd EXCEPT ![n].pc = "send", ![n].status = s]
               /\ clnt' = svckudp_freeargs(r) /\ UNCHANGED net
          ELSE svckudp_send(n, r, s, svckudp_freeargs(r))
    BY <1>1, <1>2
  <1>4. Len(cache') <= MaxDupReqs
    BY <1>1, CacheBound DEF BufferInv, Counters
  <1>5. UNCHANGED <<sock, file, load>> /\ nfsd[n].pc = "rfs_dispatch"
    BY DEF rfs_dispatch, Bounds
  <1>0. PICK x : x = svckudp_freeargs(r)
    OBVIOUS
  <1>6. Returned(n, r, x) /\ r \in Own
    BY <1>0, <1>2, <1>5, freeargsReturned DEF BufferInv
  <1>7. CASE ~nfsd[n].busy
    <2>1. svckudp_send(n, r, s, x)
      BY <1>0, <1>3, <1>7
    <2> QED
      BY <1>4, <1>5, <1>6, <1>7, <2>1, svckudp_sendBuffers
  <1>8. CASE nfsd[n].busy
    <2>1. nfsd' = [nfsd EXCEPT ![n].pc = "send", ![n].status = s] /\ clnt' = x /\ net' = net
      BY <1>0, <1>3, <1>8
    <2>2. /\ nfsd'[n].pc = "send" /\ nfsd'[n].busy = nfsd[n].busy /\ nfsd'[n].status = s
          /\ \A m \in Nfsd \ {n} : nfsd'[m] = nfsd[m]
      BY <1>2, <2>1 DEF TransportFields
    <2>3. Counters'
      <3>1. \A c \in Client : Tries(clnt[c])'
        BY <1>5, <1>6, <2>1 DEF Returned, Tries
      <3> QED
        BY <1>4, <1>5, <2>2, <3>1 DEF BufferInv, Counters
    <2>4. \A m \in Nfsd : nfsd'[m].busy = nfsd[m].busy
      BY <2>2
    <2>5. ASSUME load.route = "net" PROVE NetInv'
      <3>1. \A d \in net : (d.to = "server" => d.by \in Client) /\ (d.to = "client" => d.by \in Nfsd)
        BY DEF Messages, Own, Requests, Replies
      <3>2. \A c \in Client : clnt'[c].bufbusy = clnt[c].bufbusy /\ clnt'[c].outbuf = clnt[c].outbuf
        BY <1>6, <2>1, <2>5 DEF Returned
      <3> QED
        BY <2>1, <2>4, <2>5, <3>1, <3>2, ZenonT(30) DEF BufferInv, NetInv, InBuffer
    <2>6. ASSUME load.route = "loop" PROVE LoopInv'
      <3>1. LoopInv
        BY <2>6 DEF BufferInv
      <3>2. Served(n)' = {} /\ \A m \in Nfsd \ {n} : Served(m)' = Served(m)
        BY <2>2 DEF Served
      <3>3. DOMAIN clnt' = Client /\ \A c \in Client : clnt'[c].rcv = clnt[c].rcv
        BY <1>6, <2>1 DEF Returned
      <3>4. RequestsApart'
        BY <1>5, <1>6, <2>1, <3>1, <3>2, <3>3, RequestsLeft
      <3>5. RepliesApart'
        <4>1. \A c \in Client : \A d \in Range(clnt[c].rcv) : d.by \in Nfsd
          BY RepliesBy
        <4> QED
          BY <2>4, <3>1, <3>3, <4>1 DEF LoopInv, RepliesApart
      <3> QED
        BY <2>1, <3>1, <3>4, <3>5 DEF LoopInv
    <2> QED
      BY <1>5, <2>3, <2>5, <2>6 DEF BufferInv
  <1> QED
    BY <1>7, <1>8

\* The answer that waited is sent.
LEMMA send_wokenBuffers ==
  ASSUME Messages, BufferInv, NEW n \in Nfsd, send_woken(n)
  PROVE  BufferInv'
  <1>1. PICK r \in nfsd[n].req : svckudp_send(n, r, nfsd[n].status, clnt)
    BY DEF send_woken
  <1>2. /\ UNCHANGED <<sock, file, load>> /\ ~nfsd[n].busy /\ cache' = cache
    BY DEF send_woken, Bounds
  <1>3. Returned(n, r, clnt)
    BY NfsdFacts, freeargsReturned DEF BufferInv
  <1>4. Len(cache') <= MaxDupReqs
    BY <1>2 DEF BufferInv, Counters
  <1> QED
    BY <1>1, <1>2, <1>3, <1>4, svckudp_sendBuffers

-----------------------------------------------------------------------------
(* The network *)

\* The driver has sent a datagram: its buffer comes back, and no other.
LEMMA transmitBuffers ==
  ASSUME Messages, BufferInv, NEW d \in net, transmit(d)
  PROVE  BufferInv'
  <1> DEFINE f == [d EXCEPT !.held = FALSE]
  <1>1. /\ d.held /\ net' = (net \ {d}) \cup {f} /\ UNCHANGED <<sock, cache, file, load>>
    BY DEF transmit, Bounds
  <1>2. f.held = FALSE
    BY DEF Messages, Own, Requests, Replies
  <1> HIDE DEF f
  <1>3. \A e \in net : (e.to = "server" => e.by \in Client) /\ (e.to = "client" => e.by \in Nfsd)
    BY DEF Messages, Own, Requests, Replies
  <1>4. load.route = "net" /\ NetInv
    BY RpcAssumption DEF Messages, BufferInv, LoopInv
  <1>5. ASSUME NEW c \in Client
        PROVE  /\ Tries(clnt'[c]) /\ clnt'[c].outbuf = clnt[c].outbuf
               /\ clnt'[c].bufbusy = clnt[c].bufbusy \/ (d.to = "server" /\ d.by = c)
    <2>1. DOMAIN clnt[c] = HandleFields /\ Tries(clnt[c])
      BY DEF Messages, BufferInv, Counters
    <2>2. CASE d.to = "server" /\ d.by = c
      <3> DEFINE y == [clnt[c] EXCEPT !.bufbusy = FALSE]
      <3>1. /\ y.pc = clnt[c].pc /\ y.bufbusy = FALSE /\ y.outbuf = clnt[c].outbuf
            /\ y.stries = clnt[c].stries /\ y.rtries = clnt[c].rtries
        BY <2>1 DEF HandleFields
      <3>2. clnt'[c] = y
        BY <1>5, <2>2 DEF transmit
      <3> HIDE DEF y
      <3>3. Tries(y)
        BY <2>1, <3>1, ZenonT(30) DEF Tries
      <3> QED
        BY <2>2, <3>1, <3>2, <3>3
    <2>3. CASE ~(d.to = "server" /\ d.by = c)
      <3>1. clnt'[c] = clnt[c]
        BY <1>5, <2>3 DEF transmit
      <3> QED
        BY <2>1, <3>1
    <2> QED
      BY <2>2, <2>3
  <1>6. ASSUME NEW n \in Nfsd
        PROVE  /\ nfsd'[n].status = nfsd[n].status /\ nfsd'[n].busy \in BOOLEAN
               /\ nfsd'[n].busy = nfsd[n].busy \/ (d.to = "client" /\ d.by = n)
    <2>1. DOMAIN nfsd[n] = TransportFields /\ nfsd[n].busy \in BOOLEAN
      BY NfsdFacts DEF BufferInv
    <2>2. CASE d.to = "client" /\ d.by = n
      <3>1. nfsd'[n] = [nfsd[n] EXCEPT !.busy = FALSE]
        BY <1>6, <2>2 DEF transmit
      <3> QED
        BY <2>1, <2>2, <3>1 DEF TransportFields
    <2>3. CASE ~(d.to = "client" /\ d.by = n)
      <3>1. nfsd'[n] = nfsd[n]
        BY <1>6, <2>3 DEF transmit
      <3> QED
        BY <2>1, <3>1
    <2> QED
      BY <2>2, <2>3
  <1>7. Counters'
    <2>1. \A c \in Client : Tries(clnt[c])'
      BY <1>1, <1>5 DEF Tries
    <2> QED
      BY <1>1, <1>6, <2>1 DEF BufferInv, Counters
  <1>8. \A e \in net' : e.held => e \in net /\ e # d
    BY <1>1, <1>2
  <1>9. \A e \in net' : e.held /\ e.to = "server" => InBuffer(e)'
    BY <1>1, <1>3, <1>4, <1>5, <1>8 DEF NetInv, InBuffer
  <1>10. \A e \in net' : e.held /\ e.to = "client" => nfsd'[e.by].busy
    BY <1>1, <1>3, <1>4, <1>6, <1>8 DEF NetInv
  <1>11. NetInv'
    BY <1>4, <1>8, <1>9, <1>10 DEF NetInv
  <1> QED
    BY <1>1, <1>4, <1>7, <1>11 DEF BufferInv

\* A datagram that has left its buffer arrives, is duplicated or is lost.
LEMMA ArrivalBuffers ==
  ASSUME Messages, BufferInv, NEW d \in net, deliver(d) \/ duplicate(d) \/ lose(d)
  PROVE  BufferInv'
  <1>1. net' \subseteq net /\ UNCHANGED <<nfsd, cache, file, load>>
    BY DEF deliver, duplicate, lose, Arrives, ServerSide, Bounds
  <1>2. load.route = "net" /\ NetInv
    BY RpcAssumption DEF Messages, BufferInv, LoopInv
  <1>3. \A e \in net : (e.to = "server" => e.by \in Client) /\ (e.to = "client" => e.by \in Nfsd)
    BY DEF Messages, Own, Requests, Replies
  <1>4. ASSUME NEW c \in Client
        PROVE  /\ Tries(clnt'[c]) /\ clnt'[c].outbuf = clnt[c].outbuf
               /\ clnt'[c].bufbusy = clnt[c].bufbusy
    <2>1. DOMAIN clnt = Client /\ DOMAIN clnt[c] = HandleFields /\ Tries(clnt[c])
      BY DEF Messages, BufferInv, Counters
    <2>2. PICK s : clnt'[c] = clnt[c] \/ clnt'[c] = [clnt[c] EXCEPT !.rcv = s]
      BY <2>1, ZenonT(30) DEF deliver, duplicate, lose, Arrives
    <2>3. /\ clnt'[c].pc = clnt[c].pc /\ clnt'[c].bufbusy = clnt[c].bufbusy
          /\ clnt'[c].stries = clnt[c].stries /\ clnt'[c].rtries = clnt[c].rtries
          /\ clnt'[c].outbuf = clnt[c].outbuf
      BY <2>1, <2>2 DEF HandleFields
    <2> QED
      BY <2>1, <2>3 DEF Tries
  <1>5. Counters'
    <2>1. \A c \in Client : Tries(clnt[c])'
      BY <1>1, <1>4 DEF Tries
    <2> QED
      BY <1>1, <2>1 DEF BufferInv, Counters
  <1>6. NetInv'
    BY <1>1, <1>2, <1>3, <1>4 DEF NetInv, InBuffer
  <1> QED
    BY <1>1, <1>2, <1>5, <1>6 DEF BufferInv

\* The server forgets, with the answers in its buffers.
LEMMA CrashBuffers ==
  ASSUME Messages, BufferInv, Crash
  PROVE  BufferInv'
  <1>1. /\ load.route = "net" /\ UNCHANGED <<clnt, file, load>> /\ cache' = <<>>
        /\ net' = {d \in net : d.held => d.to = "server"}
        /\ \A n \in Nfsd : nfsd'[n].status = "none" /\ nfsd'[n].busy = FALSE
    BY DEF Crash, IdleNfsd
  <1>2. MaxDupReqs \in Nat
    BY RpcAssumption
  <1>3. Counters'
    <2>1. \A c \in Client : Tries(clnt[c])'
      BY <1>1 DEF BufferInv, Counters, Tries
    <2>2. Len(cache') <= MaxDupReqs
      BY <1>1, <1>2
    <2>3. file' \in {"none", "empty", "full"}
      BY <1>1 DEF BufferInv, Counters
    <2> QED
      BY <1>1, <2>1, <2>2, <2>3, ZenonT(30) DEF Counters
  <1>4. NetInv'
    BY <1>1 DEF BufferInv, NetInv, InBuffer
  <1> QED
    BY <1>1, <1>3, <1>4 DEF BufferInv

-----------------------------------------------------------------------------
\* At the start every buffer is free.
LEMMA InitBuffers == Init => BufferInv
  <1> SUFFICES ASSUME Init PROVE BufferInv
    OBVIOUS
  <1>1. load.retrans \in Nat /\ MaxDupReqs \in Nat
    BY RpcAssumption DEF Init
  <1>2. ASSUME NEW c \in Client PROVE Tries(clnt[c]) /\ clnt[c].rcv = <<>>
    <2>1. /\ clnt[c].pc = "idle" /\ clnt[c].bufbusy = FALSE /\ clnt[c].stries = 0
          /\ clnt[c].rtries = 0 /\ clnt[c].rcv = <<>>
      BY <1>2 DEF Init, Idle
    <2>2. 0 \in -1 .. (load.retrans + 1) /\ 0 \in 0 .. RECVTRIES
      BY <1>1 DEF RECVTRIES
    <2> QED
      BY <2>1, <2>2, ZenonT(30) DEF Tries
  <1>3. ASSUME NEW n \in Nfsd
        PROVE  nfsd[n].status = "none" /\ nfsd[n].busy = FALSE /\ Served(n) = {}
    BY <1>3 DEF Init, IdleNfsd, Served
  <1>4. Counters
    <2>1. Len(cache) <= MaxDupReqs /\ file \in {"none", "empty", "full"}
      BY <1>1 DEF Init
    <2> QED
      BY <1>2, <1>3, <2>1, ZenonT(30) DEF Counters
  <1>5. NetInv
    BY DEF Init, NetInv
  <1>6. LoopInv
    BY <1>2, <1>3, DistinctEmpty, ZenonT(30) DEF Init, LoopInv, RequestsApart, RepliesApart
  <1> QED
    BY <1>4, <1>5, <1>6 DEF BufferInv

\* Every step keeps the buffers.
LEMMA NextBuffers ==
  ASSUME Messages, BufferInv, NEW K, cache \in Seq(K), [Next]_vars
  PROVE  BufferInv'
  <1>1. CASE UNCHANGED vars
    <2>1. UNCHANGED <<clnt, nfsd, sock, cache, file, net, load>>
      BY <1>1 DEF vars
    <2>2. Counters'
      BY <2>1 DEF BufferInv, Counters, Tries
    <2>3. ASSUME load.route = "net" PROVE NetInv'
      BY <2>1, <2>3 DEF BufferInv, NetInv, InBuffer
    <2>4. ASSUME load.route = "loop" PROVE LoopInv'
      BY <2>1, <2>4 DEF BufferInv, LoopInv, RequestsApart, RepliesApart, InBuffer, Served
    <2> QED
      BY <2>1, <2>2, <2>3, <2>4 DEF BufferInv
  <1>2. ASSUME NEW c \in Client, rfscall(c) \/ ClientStep(c) \/ interrupted(c) PROVE BufferInv'
    <2>1. CASE ku_sendto_mbuf(c)
      BY <2>1, ku_sendto_mbufBuffers
    <2>2. CASE ~ku_sendto_mbuf(c)
      <3>1. ClientMove(c)
        BY <1>2, <2>2, rfscallMoves, callit_returnMoves, FailingMoves, buffer_waitMoves,
           ku_recvfromMoves DEF ClientStep, BufferInv
      <3> QED
        BY <3>1, ClientMoveKeeps
    <2> QED
      BY <2>1, <2>2
  <1>3. ASSUME NEW n \in Nfsd, NfsdStep(n) PROVE BufferInv'
    BY <1>3, svckudp_recvBuffers, WorkBuffers, rfs_dispatchBuffers, send_wokenBuffers
    DEF NfsdStep
  <1>4. ASSUME NEW d \in net, transmit(d) \/ deliver(d) \/ duplicate(d) \/ lose(d)
        PROVE  BufferInv'
    BY <1>4, transmitBuffers, ArrivalBuffers
  <1> QED
    BY <1>1, <1>2, <1>3, <1>4, CrashBuffers DEF Next

\* The invariant is what a run checks.
LEMMA BuffersAreKept ==
  ASSUME Messages, BufferInv PROVE RpcInv
  <1>1. TypeOK
    BY DEF BufferInv, Counters, Tries, TypeOK
  <1>2. CASE load.route = "net"
    BY <1>1, <1>2 DEF BufferInv, NetInv, InBuffer, RpcInv, BuffersKept
  <1>3. CASE load.route = "loop"
    BY <1>1, <1>3 DEF BufferInv, LoopInv, RequestsApart, RepliesApart, Served, InBuffer, RpcInv,
                      BuffersKept
  <1> QED
    BY <1>2, <1>3, RpcAssumption DEF Messages
=============================================================================

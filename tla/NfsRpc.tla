------------------------------- MODULE NfsRpc -------------------------------
(***************************************************************************)
(* A remote file operation from the client's rfscall to the server's file  *)
(* system and back: the retransmitting UDP client (rpc/clnt_kudp.c), the   *)
(* server transport with its cache of duplicate requests                   *)
(* (rpc/svc_kudp.c), and the NFS routines that use it to make operations   *)
(* that cannot be repeated look as if they could (nfs/nfs_server.c).       *)
(*                                                                         *)
(* Each client has one process and one handle, with a socket of its own.   *)
(* The message buffer of a handle, and that of an nfsd, is lent to the     *)
(* network: it is busy until the driver has sent the datagram, or, when    *)
(* client and server are one machine (route "loop"), until the receiver    *)
(* has freed it.  On route "net" datagrams may be lost, duplicated and     *)
(* reordered, and the server may crash.  The file system is one name.      *)
(***************************************************************************)
EXTENDS Integers, Sequences, Functions

CONSTANTS Client,     \* machines that call; on route "loop" processes of the server
          Nfsd,       \* server processes; each has a transport (SVCXPRT)
          MaxDupReqs, \* MAXDUPREQS, the size of the duplicate cache
          Workload    \* route, nfsds that run, mount (hard, intr, retrans), may: what
                      \* each client may call; bounds: most calls, xids, dups, crashes

(* The cache has entries, and the calls are those of the server's routines that
   change the name.                                                            *)
ASSUME RpcAssumption ==
    /\ MaxDupReqs \in Nat \ {0}
    /\ \A w \in Workload : /\ w.retrans \in Nat /\ w.route \in {"net", "loop"}
                           /\ \A c \in Client :
                                w.may[c] \subseteq {"create", "remove", "link", "write"}

VARIABLES
  clnt,      \* the process and its handle (struct cku_private), with its socket
  nfsd,      \* each server process and its transport (struct udp_data)
  sock,      \* so_rcv of the server's socket, which all its processes share
  cache,     \* the duplicate cache (drmru), oldest first
  file,      \* the name: "none", "empty" (as after a create) or "full" (written)
  net,       \* datagrams on their way
  performed, \* the calls that the server has performed with success
  load, calls, dups, crashes

vars == <<clnt, nfsd, sock, cache, file, net, performed, load, calls, dups, crashes>>

Idle == [pc |-> "idle", op |-> "null", call |-> 0, xid |-> 0, stries |-> 0, rtries |-> 0,
         asleep |-> FALSE, bufbusy |-> FALSE, outbuf |-> 0, rcv |-> <<>>,
         status |-> "none", told |-> {}, down |-> FALSE]

IdleNfsd == [pc |-> "svc_run", req |-> {}, lookup |-> FALSE, again |-> {},
             status |-> "none", busy |-> FALSE]

Init == /\ load \in Workload
        /\ clnt = [c \in Client |-> Idle]
        /\ nfsd = [n \in Nfsd |-> IdleNfsd]
        /\ sock = <<>> /\ cache = <<>> /\ net = {}
        /\ file \in {"none", "full"}
        /\ performed = {}
        /\ calls = 0 /\ dups = 0 /\ crashes = 0

-----------------------------------------------------------------------------
(* The client *)

RECVTRIES == 2

(* The buffers of the nfsds whose replies are freed. *)
FreeReplies(replies) ==
    nfsd' = [n \in Nfsd |->
               IF load.route = "loop" /\ \E r \in replies : r.by = n
               THEN [nfsd[n] EXCEPT !.busy = FALSE] ELSE nfsd[n]]

Request(x, c) == [to |-> "server", from |-> c, by |-> c, xid |-> x.xid, op |-> x.op,
                  call |-> x.call, held |-> TRUE]

(* What follows the label done when there is no reply: try again or give up. *)
Failed(x, status) ==
    [x EXCEPT !.status = status, !.asleep = FALSE, !.stries = @ - 1,
              !.pc = IF x.stries > 1 THEN "call_again" ELSE "drain"]

NewCall(x) ==
    [x EXCEPT !.pc = "call_again", !.xid = @ + 1,
              !.stries = IF x.op = "create" \/ (x.down /\ ~load.hard) THEN 1 ELSE load.retrans]

ServerSide == <<nfsd, sock, cache, file, performed>>
Bounds == <<load, calls, dups, crashes>>

(* rfscall: clget prepares the handle (clntkudp_init), and a create is sent
   once (clntkudp_once).                                                     *)
rfscall(c) ==
    /\ clnt[c].pc = "idle"
    /\ calls < load.most
    /\ calls' = calls + 1
    /\ \E op \in load.may[c] :
         clnt' = [clnt EXCEPT ![c] = NewCall([clnt[c] EXCEPT !.op = op, !.call = @ + 1,
                                                             !.told = {}])]
    /\ UNCHANGED <<ServerSide, net, load, dups, crashes>>

(* As a bug would have it: the socket is not emptied. *)
buffer_wait_NoFlush(c) ==
    /\ clnt[c].pc \in {"call_again", "drain"}
    /\ \/ clnt[c].bufbusy /\ ~clnt[c].asleep /\ clnt' = [clnt EXCEPT ![c].asleep = TRUE]
       \/ clnt[c].asleep /\ clnt' = [clnt EXCEPT ![c].asleep = FALSE]
    /\ UNCHANGED <<ServerSide, net, Bounds>>

(* As a bug would have it: the buffer is not waited for. *)
Ready_Unwaited(c, pc) == clnt[c].pc = pc /\ ~clnt[c].asleep

(* The output buffer is still with the network: sleep, and at the latest a
   second later empty the socket and look again.                           *)
buffer_wait(c) ==
    /\ clnt[c].pc \in {"call_again", "drain"}
    /\ \/ /\ clnt[c].bufbusy /\ ~clnt[c].asleep
          /\ clnt' = [clnt EXCEPT ![c].asleep = TRUE]
          /\ UNCHANGED nfsd
       \/ /\ clnt[c].asleep
          /\ clnt' = [clnt EXCEPT ![c].asleep = FALSE, ![c].rcv = <<>>]
          /\ FreeReplies(Range(clnt[c].rcv))
    /\ UNCHANGED <<sock, cache, file, performed, net, Bounds>>

Ready(c, pc) == clnt[c].pc = pc /\ ~clnt[c].bufbusy /\ ~clnt[c].asleep

(* Fill the buffer and send it; without a reply in the socket, wait. *)
ku_sendto_mbuf(c) ==
    /\ Ready(c, "call_again")
    /\ clnt' = [clnt EXCEPT ![c].pc = "receive", ![c].bufbusy = TRUE,
                            ![c].outbuf = clnt[c].xid, ![c].rtries = RECVTRIES,
                            ![c].asleep = clnt[c].rcv = <<>>]
    /\ IF load.route = "loop"
       THEN sock' = Append(sock, Request(clnt[c], c)) /\ UNCHANGED net
       ELSE net' = net \cup {Request(clnt[c], c)} /\ UNCHANGED sock
    /\ UNCHANGED <<nfsd, cache, file, performed, Bounds>>

(* There was no memory or no route for it, and the datagram is freed. *)
cannot_send(c) ==
    /\ Ready(c, "call_again") /\ load.route = "net"
    /\ clnt' = [clnt EXCEPT ![c] = Failed([clnt[c] EXCEPT !.outbuf = clnt[c].xid],
                                       "RPC_CANTSEND")]
    /\ UNCHANGED <<ServerSide, net, Bounds>>

(* The timer of the wait for a reply, ckuwakeup.  After the sleep it is looked
   at first, whatever has come in meanwhile.                                   *)
timed_out(c) ==
    /\ clnt[c].pc = "receive" /\ clnt[c].asleep
    /\ clnt[c].xid < load.xids \/ ~load.hard
    /\ clnt' = [clnt EXCEPT ![c] = Failed(@, "RPC_TIMEDOUT")]
    /\ UNCHANGED <<ServerSide, net, Bounds>>

interrupted(c) ==
    /\ clnt[c].pc = "receive" /\ clnt[c].asleep /\ load.intr
    /\ clnt' = [clnt EXCEPT ![c].pc = "drain", ![c].asleep = FALSE,
                            ![c].status = "RPC_INTR"]
    /\ UNCHANGED <<ServerSide, net, Bounds>>

(* A datagram is taken from the socket.  One that answers the request in the
   buffer ends the call and empties the socket; RECVTRIES others fail it.     *)
ku_recvfrom(c) ==
    /\ clnt[c].pc = "receive" /\ clnt[c].rcv # <<>>
    /\ LET x == clnt[c]
           r == Head(x.rcv)
       IN  IF r.xid = x.outbuf
           THEN /\ clnt' = [clnt EXCEPT ![c].pc = "drain", ![c].status = r.status,
                                        ![c].rcv = <<>>, ![c].asleep = FALSE]
                /\ FreeReplies(Range(x.rcv))
           ELSE /\ clnt' = [clnt EXCEPT ![c] =
                      LET y == [x EXCEPT !.rcv = Tail(@), !.rtries = @ - 1]
                      IN  IF y.rtries = 0 THEN Failed(y, "RPC_CANTRECV")
                          ELSE [y EXCEPT !.asleep = y.rcv = <<>>]]
                /\ FreeReplies({r})
    /\ UNCHANGED <<sock, cache, file, performed, net, Bounds>>

(* clntkudp_callit returns, once the buffer is back; rfscall returns too,
   unless the mount is hard and there was no answer.                        *)
callit_return(c) ==
    /\ Ready(c, "drain")
    /\ clnt' = [clnt EXCEPT ![c] =
                  IF load.hard /\ @.status \in {"RPC_TIMEDOUT", "RPC_CANTRECV", "RPC_CANTSEND"}
                  THEN NewCall(@)
                  ELSE [Idle EXCEPT !.call = clnt[c].call, !.xid = clnt[c].xid,
                                    !.rcv = clnt[c].rcv, !.told = {clnt[c].status},
                                    !.down = clnt[c].status \notin {"NFS_OK", "NFSERR"}]]
    /\ UNCHANGED <<ServerSide, net, Bounds>>

(* As a bug would have it: dr_addr is not compared. *)
Key_NoAddress(r) == [xid |-> r.xid, op |-> r.op]

-----------------------------------------------------------------------------
(* The server *)

Key(r) == [from |-> r.from, xid |-> r.xid, op |-> r.op]

(* As a bug would have it: the first entry is not hashed. *)
svckudp_dupsave_FirstLost(r) == IF cache = <<>> THEN cache ELSE Append(cache, Key(r))

(* svckudp_dup: this client's request with this xid for this procedure. *)
svckudp_dup(r) == Key(r) \in Range(cache)

svckudp_dupsave(r) ==
    Append(IF Len(cache) < MaxDupReqs THEN cache ELSE Tail(cache), Key(r))

(* svc_run, svc_getreq, svckudp_recv: any nfsd takes the next request. *)
svckudp_recv(n) ==
    /\ n \in load.nfsds /\ nfsd[n].pc = "svc_run"
    /\ sock # <<>>
    /\ nfsd' = [nfsd EXCEPT ![n].req = {Head(sock)},
                            ![n].pc = IF Head(sock).op = "create" THEN "rfs_create" ELSE "VOP"]
    /\ sock' = Tail(sock)
    /\ UNCHANGED <<clnt, cache, file, performed, net, Bounds>>

(* As a bug would have it: the cache is not looked into. *)
rfs_create_Unchecked(n) ==
    /\ nfsd[n].pc = "rfs_create"
    /\ nfsd' = [nfsd EXCEPT ![n].pc = "VOP"]
    /\ UNCHANGED <<clnt, sock, cache, file, performed, net, Bounds>>

(* rfs_create looks into the cache first: what was performed is only looked up. *)
rfs_create(n) ==
    /\ nfsd[n].pc = "rfs_create"
    /\ \E r \in nfsd[n].req :
         nfsd' = [nfsd EXCEPT ![n].pc = "VOP", ![n].lookup = svckudp_dup(r)]
    /\ UNCHANGED <<clnt, sock, cache, file, performed, net, Bounds>>

SameCall(q, r) == q.from = r.from /\ q.call = r.call

(* VOP_LOOKUP, VOP_CREATE (which truncates what exists), VOP_REMOVE, VOP_LINK
   and VOP_RDWR on the one name.                                               *)
VOP(n) ==
    /\ nfsd[n].pc = "VOP"
    /\ \E r \in nfsd[n].req :
         LET op == IF nfsd[n].lookup THEN "lookup" ELSE r.op
             ok == CASE op \in {"lookup", "remove", "write"} -> file # "none"
                     [] op = "link" -> file = "none"
                     [] op = "create" -> TRUE
         IN  /\ nfsd' = [nfsd EXCEPT ![n].pc = "rfs_dispatch",
                                     ![n].status = IF ok THEN "NFS_OK" ELSE "NFSERR",
                                     ![n].again = {q.xid : q \in {p \in performed : SameCall(p, r)}}]
             /\ file' = CASE ~ok \/ op = "lookup" -> file
                          [] ok /\ op = "create" -> "empty"
                          [] ok /\ op = "remove" -> "none"
                          [] ok /\ op \in {"link", "write"} -> "full"
             /\ performed' = IF ok /\ op # "lookup" THEN performed \cup {[from |-> r.from, call |-> r.call, xid |-> r.xid]}
                             ELSE performed
    /\ UNCHANGED <<clnt, sock, cache, net, Bounds>>

Reply(n, r, status) ==
    [to |-> "client", from |-> r.from, by |-> n, xid |-> r.xid, status |-> status,
     held |-> TRUE]

(* The client's buffer, when it holds the request on the same machine. *)
svckudp_freeargs(r) ==
    [clnt EXCEPT ![r.from].bufbusy = @ /\ load.route = "net"]

(* svckudp_send with its buffer free; x are the clients as they are before it. *)
svckudp_send(n, r, status, x) ==
    /\ nfsd' = [nfsd EXCEPT ![n] = [IdleNfsd EXCEPT !.busy = TRUE]]
    /\ IF load.route = "loop"
       THEN /\ clnt' = [x EXCEPT ![r.from].rcv = Append(@, Reply(n, r, status))]
            /\ UNCHANGED net
       ELSE net' = net \cup {Reply(n, r, status)} /\ clnt' = x

(* The rest of rfs_remove, rfs_link and rfs_create, and of rfs_dispatch: an
   error may be that of a request performed before; what was performed is
   noted; the request is freed and the answer sent, or waits in svckudp_send
   until the last one has left the buffer.                                    *)
rfs_dispatch(n) ==
    /\ nfsd[n].pc = "rfs_dispatch"
    /\ \E r \in nfsd[n].req :
         LET error == nfsd[n].status = "NFSERR"
             status == IF error /\ r.op \in {"remove", "link"} /\ svckudp_dup(r)
                       THEN "NFS_OK" ELSE nfsd[n].status
         IN  /\ cache' = IF error \/ nfsd[n].lookup \/ r.op = "write" THEN cache
                         ELSE svckudp_dupsave(r)
             /\ IF nfsd[n].busy
                THEN /\ nfsd' = [nfsd EXCEPT ![n].pc = "send", ![n].status = status]
                     /\ clnt' = svckudp_freeargs(r) /\ UNCHANGED net
                ELSE svckudp_send(n, r, status, svckudp_freeargs(r))
    /\ UNCHANGED <<sock, file, performed, Bounds>>

send_woken(n) ==
    /\ nfsd[n].pc = "send" /\ ~nfsd[n].busy
    /\ \E r \in nfsd[n].req : svckudp_send(n, r, nfsd[n].status, clnt)
    /\ UNCHANGED <<sock, cache, file, performed, Bounds>>

-----------------------------------------------------------------------------
(* The network, and the loss of the server's memory *)

(* The driver has sent the datagram, and its buffer is free. *)
transmit(d) ==
    /\ d.held
    /\ net' = (net \ {d}) \cup {[d EXCEPT !.held = FALSE]}
    /\ clnt' = [c \in Client |-> IF d.to = "server" /\ d.by = c
                                 THEN [clnt[c] EXCEPT !.bufbusy = FALSE] ELSE clnt[c]]
    /\ nfsd' = [n \in Nfsd |-> IF d.to = "client" /\ d.by = n
                               THEN [nfsd[n] EXCEPT !.busy = FALSE] ELSE nfsd[n]]
    /\ UNCHANGED <<sock, cache, file, performed, Bounds>>

Arrives(d) ==
    /\ IF d.to = "server"
       THEN sock' = Append(sock, d) /\ UNCHANGED clnt
       ELSE clnt' = [clnt EXCEPT ![d.from].rcv = Append(@, d)] /\ UNCHANGED sock
    /\ UNCHANGED <<nfsd, cache, file, performed, load, calls, crashes>>

deliver(d) == ~d.held /\ Arrives(d) /\ net' = net \ {d} /\ UNCHANGED dups

duplicate(d) == /\ ~d.held /\ Arrives(d) /\ UNCHANGED net
                /\ dups < load.dups /\ dups' = dups + 1

lose(d) == /\ ~d.held /\ net' = net \ {d}
           /\ UNCHANGED <<clnt, ServerSide, Bounds>>

(* The server's machine loses its memory; on route "loop" that would end the
   clients too.                                                                *)
Crash ==
    /\ load.route = "net"
    /\ crashes < load.crashes /\ crashes' = crashes + 1
    /\ nfsd' = [n \in Nfsd |-> IdleNfsd]
    /\ sock' = <<>> /\ cache' = <<>>
    /\ net' = {d \in net : d.held => d.to = "server"}
    /\ UNCHANGED <<clnt, file, performed, load, calls, dups>>

ClientStep(c) == \/ buffer_wait(c) \/ ku_sendto_mbuf(c) \/ cannot_send(c)
                 \/ timed_out(c) \/ ku_recvfrom(c) \/ callit_return(c)

NfsdStep(n) == \/ svckudp_recv(n) \/ rfs_create(n) \/ VOP(n) \/ rfs_dispatch(n)
               \/ send_woken(n)

Next == \/ \E c \in Client : rfscall(c) \/ ClientStep(c) \/ interrupted(c)
        \/ \E n \in Nfsd : NfsdStep(n)
        \/ \E d \in net : transmit(d) \/ deliver(d) \/ duplicate(d) \/ lose(d)
        \/ Crash

Spec == Init /\ [][Next]_vars

(* Processes that can run do, timers expire, and drivers send what they have. *)
FairSpec == /\ Spec
            /\ \A c \in Client : WF_vars(ClientStep(c))
            /\ \A n \in Nfsd : WF_vars(NfsdStep(n))
            /\ WF_vars(\E d \in net : transmit(d))

-----------------------------------------------------------------------------
(* Every variable keeps its type.  A mount may say retrans = 0; a call is then
   sent once.                                                                  *)
TypeOK ==
    /\ \A c \in Client :
         /\ clnt[c].pc \in {"idle", "call_again", "receive", "drain"}
         /\ clnt[c].stries \in -1 .. (load.retrans + 1)
         /\ clnt[c].rtries \in 0 .. RECVTRIES
    /\ \A n \in Nfsd : nfsd[n].status \in {"none", "NFS_OK", "NFSERR"}
    /\ file \in {"none", "empty", "full"}
    /\ Len(cache) <= MaxDupReqs

(* An operation that rfscall reports as done has been done by the server, for
   this call: not for an earlier one whose answer comes late, nor for another
   client's with the same transaction id, and a crash of the server does not
   change that.                                                               *)
ReplyIsTrue ==
    \A c \in Client :
        clnt[c].told = {"NFS_OK"} =>
            \E q \in performed : q.from = c /\ q.call = clnt[c].call

(* "rpc service routines can use this to detect retransmissions and re-send a
   non-failure response" (svc_kudp.c): a request that fails because it was
   performed before is found in the cache, unless the server has crashed or the
   cache is full since.                                                        *)
RetransmissionRecognised ==
    \A n \in Nfsd : \A r \in nfsd[n].req :
        /\ nfsd[n].pc = "rfs_dispatch" /\ nfsd[n].status = "NFSERR"
        /\ r.xid \in nfsd[n].again /\ r.op \in {"remove", "link"}
        /\ crashes = 0 /\ Len(cache) < MaxDupReqs
        => svckudp_dup(r)

Over(r) == clnt[r.from].call # r.call \/ clnt[r.from].pc = "idle"

(* "we check the cache first to be sure this is not a delayed retransmission"
   (rfs_create): a create that was performed is not performed again, which
   truncates the file, when its call is over.                                  *)
NoLateCreate ==
    \A n \in Nfsd : \A r \in nfsd[n].req :
        nfsd[n].pc = "rfs_dispatch" /\ r.op = "create" /\ ~nfsd[n].lookup /\ nfsd[n].again # {}
        => ~Over(r)

(* A datagram that is still in somebody's message buffer stays as it is: the
   buffer is marked busy and has not been filled anew.                         *)
BuffersKept ==
    /\ \A d \in IF load.route = "net" THEN {e \in net : e.held /\ e.to = "server"}
                 ELSE Range(sock) \cup UNION {nfsd[n].req : n \in
                                              {m \in Nfsd : nfsd[m].pc # "send"}} :
         clnt[d.by].bufbusy /\ clnt[d.by].outbuf = d.xid
    /\ \A d \in IF load.route = "net" THEN {e \in net : e.held /\ e.to = "client"}
                 ELSE UNION {Range(clnt[c].rcv) : c \in Client} :
         nfsd[d.by].busy

(* The buffers, tries and caches of both sides are as the network left them. *)
RpcInv == TypeOK /\ BuffersKept

Unread(c) == clnt[c].pc = "idle" /\ clnt[c].rcv # <<>>

(* Every call returns: a client that waits for its buffer and an nfsd that waits
   for the client to free a reply do not wait for each other for good.  Left
   out is the case that a reply is in the socket of a handle nobody uses.       *)
CallsReturn ==
    \A c \in Client : clnt[c].pc # "idle" ~> clnt[c].pc = "idle" \/ \E e \in Client : Unread(e)

(* "This is a kludge to avoid deadlock in the case of a loop-back call"
   (clnt_kudp.c): every call returns.                                           *)
LoopbackCallsReturn == \A c \in Client : clnt[c].pc # "idle" ~> clnt[c].pc = "idle"
=============================================================================

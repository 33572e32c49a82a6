------------------------------ MODULE MCNfsRpc ------------------------------
(* Instances of NfsRpc: two clients, on the network and on one machine with *)
(* the server, on a soft or a hard mount.                                    *)
EXTENDS NfsRpc

One == {CHOOSE n \in Nfsd : TRUE}
First == CHOOSE c \in Client : TRUE

Mount(route, hard, first, second) ==
    [route |-> route, nfsds |-> One, hard |-> hard, intr |-> hard, retrans |-> 2,
     may |-> [c \in Client |-> IF c = First THEN first ELSE second],
     most |-> 2, xids |-> 2, dups |-> 0, crashes |-> 0]

LoopSoft == Mount("loop", FALSE, {"remove"}, {"remove"})

(* Client and server on one machine: one nfsd, a hard mount, two nfsds.  On the
   network: creates and writes of one client with a duplicate datagram; a
   crash.                                                                        *)
MCWorkload ==
    {[LoopSoft EXCEPT !.most = 3],
     Mount("loop", TRUE, {"remove"}, {"remove"}),
     [LoopSoft EXCEPT !.nfsds = Nfsd],
     [Mount("net", FALSE, {"create", "write"}, {}) EXCEPT !.dups = 1],
     [Mount("net", FALSE, {"link"}, {}) EXCEPT !.crashes = 1]}

(* One machine with one nfsd. *)
LoopWorkload == {[LoopSoft EXCEPT !.most = 3]}

(* Two nfsds behind one socket. *)
TwoWorkload == {[Mount("net", FALSE, {"remove"}, {}) EXCEPT !.nfsds = Nfsd, !.most = 1]}

(* A hard mount over the network. *)
HardWorkload == {[Mount("net", TRUE, {"create", "write"}, {}) EXCEPT !.intr = FALSE]}
=============================================================================

----------------------------- MODULE MCBufCache -----------------------------
(* Instances of BufCache: a device of three sectors, whose first two are a  *)
(* block that is also used in fragments of one sector.                      *)
EXTENDS BufCache, FiniteSets

Reading(k, b, n) == [kind |-> k, blkno |-> b, size |-> n, ra |-> 0, rasize |-> 0,
                     how |-> "brelse", flags |-> {}]
Writing(k, b, n, h) == [Reading(k, b, n) EXCEPT !.how = h]
Ahead(r, b) == [r EXCEPT !.ra = b, !.rasize = 1]
NoCache(r) == [r EXCEPT !.flags = {"NOCACHE"}]

FileRequest ==
    {Reading("bread", 0, 1), Ahead(Reading("breada", 0, 1), 1), Reading("empty", 0, 1),
     Writing("update", 0, 2, "bdwrite"), Writing("update", 1, 1, "bwrite"),
     Writing("write", 0, 1, "bdwrite"), NoCache(Writing("write", 0, 2, "bawrite")),
     Reading("blkflush", 0, 2), Reading("bflush", 0, 0), Reading("binvalfree", 0, 0)}

(* Sector 2 is paged in by one process only, and never written. *)
PageRequest == {NoCache(Reading("bread", 2, 1)), Ahead(Reading("direct", 2, 1), 1)}

Pager == CHOOSE p \in Proc : TRUE

Loads(pool, most, may) ==
    [pool |-> pool, most |-> most, may |-> [p \in Proc |-> may]]

Small == {CHOOSE B \in SUBSET Buf : Cardinality(B) = 2}

(* Few requests of every kind; and more of some kinds in a small pool, where
   processes wait for each other's buffers.                                  *)
MCWorkload ==
    {[Loads(Buf, 3, FileRequest) EXCEPT !.may[Pager] = @ \cup PageRequest]}
    \cup {Loads(B, 5, {Writing("update", 0, 2, "bdwrite"), Writing("write", 1, 1, "bdwrite"),
                       Reading("bread", 2, 1)}) : B \in Small}

(* Two processes read the same sector, one of them directly. *)
MCDirect == {Loads(Buf, 2, {Reading("bread", 2, 1), Ahead(Reading("direct", 2, 1), 1)})}

(* A block that may be dirty is read without being kept. *)
MCNoCache == {Loads(Buf, 4, {NoCache(Reading("bread", 0, 1)), Writing("update", 0, 1, "bdwrite")})}
=============================================================================

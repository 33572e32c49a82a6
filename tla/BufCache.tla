------------------------------ MODULE BufCache ------------------------------
(***************************************************************************)
(* The block buffer cache of the BSD file systems (bsd/vfs_bio.c): a fixed *)
(* pool of buffers shared by all processes, each holding some consecutive  *)
(* sectors of one device.  A buffer is B_BUSY from getblk to brelse, which *)
(* covers the time a process uses it and the time it is queued at the disk. *)
(* Processes run in the kernel until they sleep (running names the one     *)
(* that does), and the disk interrupt, biodone, comes between any two of   *)
(* their steps.  Reads ahead, bawrite, delayed writes (bdwrite) and the    *)
(* flushing of the pool go on while nobody waits for them.                 *)
(*                                                                         *)
(* Buffers of several sizes may be asked for at the same place, as the     *)
(* fragments of the file system are, so sectors, not blocks, are what the  *)
(* cache has to keep apart.  A page is as large as the largest block, so   *)
(* allocbuf never moves memory between buffers.  There is one device, and  *)
(* b_vp only says whether the buffer is attached to it.  The content of a  *)
(* sector is the number of the write that produced it, counted in stamp.   *)
(***************************************************************************)
EXTENDS Integers, Sequences, SequencesExt, TLC

CONSTANTS Proc,        \* processes; each also names the private buffer on its stack
          Buf,         \* the nbuf buffers of the pool
          Sectors,     \* sectors of the device, 0 .. Sectors - 1
          Workload,    \* pool: the buffers there are; may: what each process may
                       \* ask for; most: bound on the requests made
          MaxErrors,   \* bound on the transfers that fail
          MaxCrashes   \* bound on the crashes

Sector == 0 .. Sectors - 1
AllBuf == Buf \cup Proc
Unset == -1

VARIABLES
  buf,       \* struct buf: b_blkno, b_bcount, b_vp, b_flags, data; io is TRUE
             \* from VOP_STRATEGY to the interrupt
  free,      \* bfreelist[BQ_AGE] and bfreelist[BQ_LRU]
  wanted,    \* B_WANTED of bfreelist[0]
  proc,      \* where each process is in the routines below
  running,   \* the process that has the processor in the kernel, if any
  disk,      \* what is on the disk
  latest,    \* what was last written to each sector through the cache
  stamp,     \* the number of writes made
  synced,    \* what a bwrite that returned without an error had written
  load,      \* the workload
  calls, errors, crashes

cache == <<buf, free, wanted, proc>>
vars == <<cache, running, disk, latest, stamp, synced, load, calls, errors, crashes>>

Flag == {"READ", "DONE", "ERROR", "BUSY", "WANTED", "ASYNC", "DELWRI",
         "INVAL", "NOCACHE", "PRIVATE"}

Idle == [pc |-> "idle", op |-> [kind |-> "none"], blkno |-> 0, size |-> 0,
         then |-> "own", bp |-> {}, got |-> {}, io |-> {}, next |-> "idle", wait |-> {}]

(* binit: every buffer holds nothing and is on the list of rubbish. *)
EmptyBuf == [blkno |-> 0, bcount |-> 0, vp |-> FALSE, flags |-> {"INVAL"},
             data |-> [u \in Sector |-> Unset], io |-> FALSE]

Init == /\ load \in Workload
        /\ buf = [b \in AllBuf |-> EmptyBuf]
        /\ free = [AGE |-> SetToSeq(load.pool), LRU |-> <<>>]
        /\ wanted = FALSE
        /\ proc = [p \in Proc |-> Idle]
        /\ running = {}
        /\ disk = [u \in Sector |-> 0]
        /\ latest = disk
        /\ synced = disk
        /\ stamp = 0 /\ calls = 0 /\ errors = 0 /\ crashes = 0

-----------------------------------------------------------------------------
(* Buffers *)

Cache == [buf |-> buf, free |-> free, wanted |-> wanted, proc |-> proc]
Becomes(s) == /\ buf' = s.buf
              /\ free' = s.free
              /\ wanted' = s.wanted
              /\ proc' = s.proc

Span(blkno, size) == blkno .. blkno + size - 1
Covers(x) == Span(x.blkno, x.bcount)

Raise(s, b, f) == [s EXCEPT !.buf[b].flags = @ \cup f]
Lower(s, b, f) == [s EXCEPT !.buf[b].flags = @ \ f]

sleep(s, p, chan) == [s EXCEPT !.proc[p].wait = {chan}]

wakeup(s, chan) ==
    [s EXCEPT !.proc = [q \in Proc |->
        [@[q] EXCEPT !.wait = @ \ {chan}]]]

notavail(s, b) ==
    [Raise(s, b, {"BUSY"}) EXCEPT
        !.free = [l \in {"AGE", "LRU"} |-> SelectSeq(@[l], LAMBDA c : c # b)]]

brelvp(s, b) == [s EXCEPT !.buf[b].vp = FALSE]

(* Mutant: who waits for any buffer is not told. *)
brelse_NoPoolWakeup(s, b) ==
    LET f == s.buf[b].flags \cup
                 (IF "NOCACHE" \in s.buf[b].flags THEN {"INVAL"} ELSE {})
        told == IF "WANTED" \in f THEN wakeup(s, b) ELSE s
        kept == IF "ERROR" \in f THEN brelvp(told, b) ELSE told
    IN  [kept EXCEPT
           !.buf[b].flags = f \ {"WANTED", "BUSY", "ASYNC", "NOCACHE"},
           !.free = IF f \cap {"ERROR", "INVAL"} # {}
                    THEN [@ EXCEPT !.AGE = <<b>> \o @]
                    ELSE [@ EXCEPT !.LRU = Append(@, b)]]

(* What is in error or has no meaning goes first in line for reuse. *)
brelse(s, b) ==
    LET f == s.buf[b].flags \cup
                 (IF "NOCACHE" \in s.buf[b].flags THEN {"INVAL"} ELSE {})
        told == IF "WANTED" \in f THEN wakeup(s, b) ELSE s
        all == IF told.wanted
               THEN [wakeup(told, "bfreelist") EXCEPT !.wanted = FALSE]
               ELSE told
        kept == IF "ERROR" \in f THEN brelvp(all, b) ELSE all
    IN  [kept EXCEPT
           !.buf[b].flags = f \ {"WANTED", "BUSY", "ASYNC", "NOCACHE"},
           !.free = IF f \cap {"ERROR", "INVAL"} # {}
                    THEN [@ EXCEPT !.AGE = <<b>> \o @]
                    ELSE [@ EXCEPT !.LRU = Append(@, b)]]

strategy(s, b) == [s EXCEPT !.buf[b].io = TRUE]

Goto(s, p, pc) == [s EXCEPT !.proc[p].pc = pc]

biowait(s, p, b, next) ==
    [Goto(s, p, "biowait") EXCEPT !.proc[p].io = {b}, !.proc[p].next = next]

(* A write that nobody waits for is released by the interrupt; the others
   by the process, which goes on at next.                                  *)
bwrite(s, p, b, next) ==
    LET begun == strategy(Lower(s, b, {"READ", "DONE", "ERROR", "DELWRI"}), b)
    IN  IF "ASYNC" \in s.buf[b].flags
        THEN Goto(begun, p, next)
        ELSE biowait(begun, p, b, next)

bdwrite(s, b) == brelse(Raise(s, b, {"DELWRI", "DONE"}), b)
bawrite(s, p, b, next) == bwrite(Raise(s, b, {"ASYNC"}), p, b, next)

Attached(x) == x.vp /\ "INVAL" \notin x.flags
incore(s, blkno) == \E b \in AllBuf : Attached(s.buf[b]) /\ s.buf[b].blkno = blkno

(* Mutant: only buffers that begin at the same sector are noticed. *)
Overlapping_SameStart(s, x, blkno, size) ==
    {e \in AllBuf \ x : /\ Attached(s.buf[e])
                        /\ s.buf[e].bcount # 0
                        /\ s.buf[e].blkno = blkno}

(* The buffers, apart from those of x, that hold some of the sectors. *)
Overlapping(s, x, blkno, size) ==
    {e \in AllBuf \ x : /\ Attached(s.buf[e])
                        /\ Covers(s.buf[e]) \cap Span(blkno, size) # {}}

-----------------------------------------------------------------------------
(* The routines, from one sleep, or one turn of a loop, to the next *)

At(p, pc) == /\ proc[p].pc = pc
             /\ proc[p].wait = {}
             /\ running \subseteq {p}

(* A process keeps the processor until it sleeps or is done with the cache. *)
Step(p, s) ==
    /\ Becomes(s)
    /\ running' = IF s.proc[p].wait = {} /\ s.proc[p].pc \notin {"idle", "own"}
                  THEN {p} ELSE {}

Keep == UNCHANGED <<load, disk, latest, stamp, synced, calls, errors, crashes>>

Enter(s, p, blkno, size, then) ==
    [Goto(s, p, "getblk") EXCEPT !.proc[p].blkno = blkno, !.proc[p].size = size,
                                 !.proc[p].then = then]

Own(s, p, b) == [Goto(s, p, "own") EXCEPT !.proc[p].bp = {b}]

(* What bread and breada do with the buffer getblk gives them. *)
Obtained(s, p, b) ==
    LET done == "DONE" \in s.buf[b].flags
        reading(f) == strategy(Raise(s, b, f), b)
    IN  CASE s.proc[p].then = "own" -> Own(s, p, b)
          [] s.proc[p].then = "bread" ->
                IF done THEN Own(s, p, b)
                ELSE biowait(reading({"READ"}), p, b, "own")
          [] s.proc[p].then = "breada" ->
                [Goto(IF done THEN s ELSE reading({"READ"}), p, "readahead")
                    EXCEPT !.proc[p].bp = {b}]
          [] s.proc[p].then = "ahead" ->
                Goto(IF done THEN brelse(s, b) ELSE reading({"READ", "ASYNC"}),
                     p, "await")

(* Mutants: the order of 4.3 BSD, in which only a buffer that shrinks has its
   delayed write made; and a buffer that grows is taken to be complete.        *)
brealloc_ShrinkOnly(s, p, b) ==
    LET x == s.buf[b]
        size == s.proc[p].size
    IN  IF size = x.bcount THEN Obtained(s, p, b)
        ELSE IF size < x.bcount
             THEN IF "DELWRI" \in x.flags THEN bwrite(s, p, b, "getblk")
                  ELSE Obtained([s EXCEPT !.buf[b].bcount = size], p, b)
        ELSE [Goto(Lower(s, b, {"DONE"}), p, "brealloc") EXCEPT !.proc[p].got = {b}]

brealloc_StaysDone(s, p, b) ==
    LET x == s.buf[b]
        size == s.proc[p].size
    IN  IF size = x.bcount THEN Obtained(s, p, b)
        ELSE IF "DELWRI" \in x.flags THEN bwrite(s, p, b, "getblk")
        ELSE IF size < x.bcount
             THEN Obtained([s EXCEPT !.buf[b].bcount = size], p, b)
        ELSE [Goto(s, p, "brealloc") EXCEPT !.proc[p].got = {b}]

(* brealloc up to its search for overlapping buffers: a delayed write goes
   out before the size of the buffer changes.                               *)
brealloc(s, p, b) ==
    LET x == s.buf[b]
        size == s.proc[p].size
    IN  IF size = x.bcount THEN Obtained(s, p, b)
        ELSE IF "DELWRI" \in x.flags THEN bwrite(s, p, b, "getblk")
        ELSE IF size < x.bcount
             THEN Obtained([s EXCEPT !.buf[b].bcount = size], p, b)
        ELSE [Goto(Lower(s, b, {"DONE"}), p, "brealloc") EXCEPT !.proc[p].got = {b}]

WaitFor(s, p, b) == sleep(Raise(s, b, {"WANTED"}), p, b)

getblk(p) ==
    /\ At(p, "getblk")
    /\ LET hit == {b \in AllBuf : Attached(buf[b]) /\ buf[b].blkno = proc[p].blkno}
       IN  \/ \E b \in hit :
                Step(p, IF "BUSY" \in buf[b].flags THEN WaitFor(Cache, p, b)
                        ELSE brealloc(notavail(Cache, b), p, b))
           \/ /\ hit = {}
              /\ Step(p, Goto(Cache, p, "getnewbuf"))
    /\ Keep

(* The buffer getnewbuf found, made one for the block asked for (getblk) or
   for no block (geteblk).                                                   *)
NewBuf(s, p, b) ==
    LET taken == [brelvp(notavail(s, b), b) EXCEPT !.buf[b].flags = {"BUSY"}]
    IN  IF s.proc[p].op.kind = "empty"
        THEN Own([taken EXCEPT !.buf[b].flags = {"BUSY", "INVAL"},
                               !.buf[b].bcount = s.proc[p].size], p, b)
        ELSE brealloc([taken EXCEPT !.buf[b].vp = TRUE, !.buf[b].bcount = 0,
                                    !.buf[b].blkno = s.proc[p].blkno,
                                    !.buf[b].data = [u \in Sector |-> Unset]], p, b)

getnewbuf(p) ==
    /\ At(p, "getnewbuf")
    /\ LET line == free.AGE \o free.LRU
       IN  \/ /\ line = <<>>
              /\ Step(p, sleep([Cache EXCEPT !.wanted = TRUE], p, "bfreelist"))
           \/ /\ line # <<>>
              /\ LET b == Head(line)
                 IN  Step(p, IF "DELWRI" \in buf[b].flags
                             THEN bawrite(notavail(Cache, b), p, b, "getnewbuf")
                             ELSE NewBuf(Cache, p, b))
    /\ Keep

(* One turn of the search of brealloc: nobody else may hold the sectors. *)
Search(p) ==
    /\ At(p, "brealloc")
    /\ LET b == CHOOSE c \in proc[p].got : TRUE
           others == Overlapping(Cache, {b}, buf[b].blkno, proc[p].size)
       IN  \/ /\ others = {}
              /\ Step(p, Obtained([Cache EXCEPT !.buf[b].bcount = proc[p].size], p, b))
           \/ \E e \in others :
                Step(p, IF "BUSY" \in buf[e].flags THEN WaitFor(Cache, p, e)
                        ELSE IF "DELWRI" \in buf[e].flags
                        THEN bwrite(notavail(Cache, e), p, e, "brealloc")
                        ELSE brelse(Raise(notavail(Cache, e), e, {"INVAL"}), e))
    /\ Keep

(* vnReadAhead, and the same lines of breada: block 0 is never read ahead. *)
readahead(p) ==
    /\ At(p, "readahead")
    /\ LET op == proc[p].op
       IN  Step(p, IF op.ra = 0 \/ incore(Cache, op.ra) THEN Goto(Cache, p, "await")
                   ELSE Enter(Cache, p, op.ra, op.rasize, "ahead"))
    /\ Keep

(* The end of breada, and of breadDirect: wait for the block itself. *)
await(p) ==
    /\ At(p, "await")
    /\ LET op == proc[p].op
       IN  \/ /\ proc[p].bp = {}
              /\ Step(p, Enter(Cache, p, op.blkno, op.size, "bread"))
           \/ \E b \in proc[p].bp : Step(p, biowait(Cache, p, b, "own"))
    /\ Keep

(* Mutant: bwrite does not look at the outcome of the transfer. *)
iodone_Unchecked(p) ==
    /\ At(p, "biowait")
    /\ \E b \in proc[p].io :
         LET next == proc[p].next
             over == Goto(Cache, p, next)
         IN  IF "DONE" \notin buf[b].flags
             THEN Step(p, sleep(Cache, p, b)) /\ UNCHANGED synced
             ELSE /\ Step(p, IF next = "own" THEN Own(Cache, p, b) ELSE brelse(over, b))
                  /\ synced' = IF next # "idle" THEN synced
                               ELSE [u \in Covers(buf[b]) |-> buf[b].data[u]] @@ synced
    /\ UNCHANGED <<load, disk, latest, stamp, calls, errors, crashes>>

(* biowait, and the brelse of bwrite that follows it unless the buffer is
   for the caller of bread.                                                *)
iodone(p) ==
    /\ At(p, "biowait")
    /\ \E b \in proc[p].io :
         LET next == proc[p].next
             over == Goto(Cache, p, next)
         IN  IF "DONE" \notin buf[b].flags
             THEN Step(p, sleep(Cache, p, b)) /\ UNCHANGED synced
             ELSE /\ Step(p, IF next = "own" THEN Own(Cache, p, b) ELSE brelse(over, b))
                  /\ synced' = IF next # "idle" \/ "ERROR" \in buf[b].flags THEN synced
                               ELSE [u \in Covers(buf[b]) |-> buf[b].data[u]] @@ synced
    /\ UNCHANGED <<load, disk, latest, stamp, calls, errors, crashes>>

(* Mutant: buffers that are busy are passed over. *)
blkflush_SkipsBusy(p) ==
    /\ At(p, "blkflush")
    /\ LET op == proc[p].op
           due == {e \in Overlapping(Cache, {}, op.blkno, op.size) :
                     "DELWRI" \in buf[e].flags /\ "BUSY" \notin buf[e].flags}
       IN  \/ due = {} /\ Step(p, Goto(Cache, p, "idle"))
           \/ \E e \in due : Step(p, bwrite(notavail(Cache, e), p, e, "blkflush"))
    /\ Keep

(* blkflush: no part of the block is left in a dirty or busy buffer. *)
blkflush(p) ==
    /\ At(p, "blkflush")
    /\ LET op == proc[p].op
           due == {e \in Overlapping(Cache, {}, op.blkno, op.size) :
                     buf[e].flags \cap {"BUSY", "DELWRI"} # {}}
       IN  \/ due = {} /\ Step(p, Goto(Cache, p, "idle"))
           \/ \E e \in due :
                Step(p, IF "BUSY" \in buf[e].flags THEN WaitFor(Cache, p, e)
                        ELSE bwrite(notavail(Cache, e), p, e, "blkflush"))
    /\ Keep

(* bflush: start every delayed write. *)
bflush(p) ==
    /\ At(p, "bflush")
    /\ LET due == SelectSeq(free.LRU \o free.AGE, LAMBDA b : "DELWRI" \in buf[b].flags)
       IN  Step(p, IF due = <<>> THEN Goto(Cache, p, "idle")
                   ELSE bawrite(notavail(Cache, Head(due)), p, Head(due), "bflush"))
    /\ Keep

(* binvalfree: the same, and forget the clean buffers. *)
binvalfree(p) ==
    /\ At(p, "binvalfree")
    /\ LET due == SelectSeq(free.LRU \o free.AGE, LAMBDA b : buf[b].vp)
           b == Head(due)
       IN  Step(p, IF due = <<>> THEN Goto(Cache, p, "idle")
                   ELSE IF "DELWRI" \in buf[b].flags
                   THEN bawrite(notavail(Cache, b), p, b, "binvalfree")
                   ELSE brelvp(Raise(Cache, b, {"INVAL"}), b))
    /\ Keep

(* vnStartRead: a private buffer, with the page to be filled attached, enters
   the hash table.                                                            *)
vnStartRead(s, p) ==
    LET op == s.proc[p].op
    IN  [Goto(s, p, "readahead") EXCEPT
            !.proc[p].bp = {p},
            !.buf[p] = [EmptyBuf EXCEPT !.flags = {"READ", "PRIVATE"}, !.vp = TRUE,
                                        !.blkno = op.blkno, !.bcount = op.size,
                                        !.io = TRUE]]

(* A process makes a request: bread, breada, breadDirect, getblk or bread to
   write, geteblk, blkflush, bflush, binvalfree.                              *)
Start(p) ==
    /\ At(p, "idle")
    /\ calls < load.most
    /\ calls' = calls + 1
    /\ \E op \in load.may[p] :
         LET s == [Cache EXCEPT !.proc[p] = [Idle EXCEPT !.op = op]]
             found == incore(s, op.blkno)
         IN  Step(p,
               CASE op.kind \in {"bread", "update"} -> Enter(s, p, op.blkno, op.size, "bread")
                 [] op.kind = "write" -> Enter(s, p, op.blkno, op.size, "own")
                 [] op.kind = "empty" -> [Goto(s, p, "getnewbuf") EXCEPT !.proc[p].size = op.size]
                 [] op.kind = "breada" /\ ~found -> Enter(s, p, op.blkno, op.size, "breada")
                 [] op.kind = "direct" /\ ~found -> vnStartRead(s, p)
                 [] op.kind \in {"breada", "direct"} /\ found -> Goto(s, p, "readahead")
                 [] op.kind \in {"blkflush", "bflush", "binvalfree"} -> Goto(s, p, op.kind))
    /\ UNCHANGED <<load, disk, latest, stamp, synced, errors, crashes>>

Failed(p) == \E b \in proc[p].bp : "ERROR" \in buf[b].flags

(* The caller is done with what it read (or could not read); it may have
   marked the buffer B_NOCACHE.                                            *)
ReleaseRead(p) ==
    /\ At(p, "own")
    /\ proc[p].op.kind \in {"bread", "breada", "direct", "empty"} \/ Failed(p)
    /\ \E b \in proc[p].bp :
         LET s == [Raise(Cache, b, proc[p].op.flags) EXCEPT !.proc[p] = Idle]
         IN  Step(p, IF b = p THEN [s EXCEPT !.buf[p] = EmptyBuf] ELSE brelse(s, b))
    /\ Keep

(* The caller changes the block and writes it back its way. *)
ReleaseWrite(p) ==
    /\ At(p, "own")
    /\ proc[p].op.kind \in {"update", "write"} /\ ~Failed(p)
    /\ stamp' = stamp + 1
    /\ \E b \in proc[p].bp :
         LET new == [u \in Covers(buf[b]) |-> stamp']
             s == [Raise(Cache, b, proc[p].op.flags) EXCEPT
                      !.buf[b].data = new @@ @, !.proc[p] = Idle]
         IN  /\ latest' = new @@ latest
             /\ Step(p, CASE proc[p].op.how = "bwrite" -> bwrite(s, p, b, "idle")
                          [] proc[p].op.how = "bawrite" -> bawrite(s, p, b, "idle")
                          [] proc[p].op.how = "bdwrite" -> bdwrite(s, b))
    /\ UNCHANGED <<load, disk, synced, calls, errors, crashes>>

-----------------------------------------------------------------------------
(* The disk *)

(* The transfer of a buffer ends.  A write that failed leaves the sectors as
   they were, and what was to be written is given up by brelse.              *)
biodone(b) ==
    /\ buf[b].io
    /\ \E failed \in BOOLEAN :
         LET x == buf[b]
             units == IF failed THEN {} ELSE Covers(x)
             write == "READ" \notin x.flags
             got == [u \in units |-> IF write THEN x.data[u] ELSE disk[u]]
             s == [Raise(Cache, b, {"DONE"} \cup IF failed THEN {"ERROR"} ELSE {})
                     EXCEPT !.buf[b].io = FALSE, !.buf[b].data = got @@ @]
         IN  /\ errors + (IF failed THEN 1 ELSE 0) <= MaxErrors
             /\ errors' = errors + (IF failed THEN 1 ELSE 0)
             /\ disk' = IF write THEN got @@ disk ELSE disk
             /\ latest' = [u \in Sector |-> IF failed /\ write /\ u \in Covers(x)
                                            THEN disk[u] ELSE latest[u]]
             /\ Becomes(IF "ASYNC" \in x.flags THEN brelse(s, b)
                        ELSE wakeup(Lower(s, b, {"WANTED"}), b))
    /\ UNCHANGED <<load, running, stamp, synced, calls, crashes>>

(* The machine stops and starts again: the pool is lost, and of a block that
   was being written any of the sectors may have been.                       *)
Crash ==
    /\ crashes < MaxCrashes
    /\ crashes' = crashes + 1
    /\ \E done \in SUBSET {b \in Buf : buf[b].io /\ "READ" \notin buf[b].flags} :
         \E part \in SUBSET UNION {Covers(buf[b]) : b \in done} :
           disk' = [u \in Sector |->
                      IF u \notin part THEN disk[u]
                      ELSE LET b == CHOOSE c \in done : u \in Covers(buf[c])
                           IN  buf[b].data[u]]
    /\ latest' = disk'
    /\ buf' = [b \in AllBuf |-> EmptyBuf]
    /\ free' = [AGE |-> SetToSeq(load.pool), LRU |-> <<>>]
    /\ wanted' = FALSE
    /\ proc' = [p \in Proc |-> Idle]
    /\ running' = {}
    /\ UNCHANGED <<load, stamp, synced, calls, errors>>

Process(p) == \/ Start(p) \/ getblk(p) \/ getnewbuf(p) \/ Search(p)
              \/ readahead(p) \/ await(p) \/ iodone(p)
              \/ blkflush(p) \/ bflush(p) \/ binvalfree(p)
              \/ ReleaseRead(p) \/ ReleaseWrite(p)

Next == (\E p \in Proc : Process(p)) \/ (\E b \in AllBuf : biodone(b)) \/ Crash

Spec == Init /\ [][Next]_vars

-----------------------------------------------------------------------------
(* Every variable keeps its type. *)
TypeOK ==
    /\ \A b \in AllBuf :
         /\ buf[b].blkno \in Sector
         /\ Covers(buf[b]) \subseteq Sector
         /\ buf[b].flags \subseteq Flag
         /\ buf[b].data \in [Sector -> Unset .. stamp]
         /\ {buf[b].vp, buf[b].io} \subseteq BOOLEAN
    /\ \A l \in {"AGE", "LRU"} : free[l] \in Seq(Buf)
    /\ wanted \in BOOLEAN
    /\ running \subseteq Proc
    /\ {disk, latest, synced} \subseteq [Sector -> 0 .. stamp]
    /\ stamp \in 0 .. calls /\ calls \in 0 .. load.most
    /\ errors \in 0 .. MaxErrors /\ crashes \in 0 .. MaxCrashes

(* A buffer of the pool is on one free list, once, or it is B_BUSY; one that
   is at the disk is busy and not B_DONE, so biodone never panics with
   "dup biodone".                                                            *)
BusyOrFree ==
    LET line == free.AGE \o free.LRU
    IN  /\ IsInjective(line)
        /\ \A b \in load.pool : /\ ("BUSY" \in buf[b].flags) # (b \in ToSet(line))
                          /\ buf[b].io => "BUSY" \in buf[b].flags
        /\ \A b \in AllBuf : buf[b].io => "DONE" \notin buf[b].flags

(* "A disk block must be mapped by at most one buffer at any point in time":
   whatever processes slept in getnewbuf or brealloc on the way.             *)
OneBufferPerSector ==
    \A b, c \in AllBuf :
        b # c /\ Attached(buf[b]) /\ Attached(buf[c]) =>
            Covers(buf[b]) \cap Covers(buf[c]) = {}

(* The pool is whole at every step: flags, free lists, transfers and the
   blocks of the buffers agree.                                              *)
PoolInv == TypeOK /\ BusyOrFree /\ OneBufferPerSector

(* The block a caller of bread, breada or breadDirect has been given holds
   what was last written to it, by whatever process and in whatever size.    *)
ReadsLatest ==
    \A p \in Proc : \A b \in proc[p].bp :
        /\ proc[p].pc = "own" /\ (proc[p].then # "own" \/ b = p)
        /\ "DONE" \in buf[b].flags /\ "ERROR" \notin buf[b].flags
        => \A u \in Covers(buf[b]) : buf[b].data[u] = latest[u]

(* What was written last is on the disk, or in a buffer that is marked for
   writing or being written: no delayed write is dropped.                    *)
NoWriteLost ==
    \A u \in Sector :
        \/ disk[u] = latest[u]
        \/ \E b \in Buf : /\ Attached(buf[b]) /\ u \in Covers(buf[b])
                          /\ buf[b].data[u] = latest[u]
                          /\ \/ "DELWRI" \in buf[b].flags
                             \/ buf[b].io /\ "READ" \notin buf[b].flags

(* Once bwrite has returned without an error, a crash does not undo it, and
   no buffer filled earlier is written over it.                              *)
SyncedStays == \A u \in Sector : disk[u] >= synced[u]

(* When blkflush returns, the sectors on the disk are the latest. *)
FlushReachesDisk ==
    [][\A p \in Proc :
         proc[p].pc = "blkflush" /\ proc'[p].pc = "idle" /\ crashes' = crashes =>
            \A u \in Span(proc[p].op.blkno, proc[p].op.size) : disk[u] = latest[u]]_vars

(* Whoever sleeps has somebody to wake them: a sleeper on a buffer waits for
   its transfer or is recorded in B_WANTED of a busy buffer, and nobody waits
   for a free buffer beside one.                                             *)
SleepersAreWoken ==
    \A p \in Proc : \A c \in proc[p].wait :
        IF c = "bfreelist" THEN wanted /\ free.AGE \o free.LRU = <<>>
        ELSE \/ proc[p].pc = "biowait" /\ buf[c].io
             \/ {"BUSY", "WANTED"} \subseteq buf[c].flags
             \/ buf[c].io /\ "BUSY" \in buf[c].flags

(* A private buffer stays with the process that reads into it: "Others
   reading the same block will see the buffer, wait for IO to complete, then
   retry with their own buffer" (breadDirect).                               *)
PrivateStaysPrivate ==
    \A p \in Proc : /\ "BUSY" \notin buf[p].flags
                    /\ \A q \in Proc \ {p} : p \notin proc[q].bp

(* The processes never all sleep with nothing under way to wake them, however
   they hold and wait for buffers.                                            *)
NotAllAsleep ==
    \/ \A p \in Proc : proc[p].pc = "idle"
    \/ \E p \in Proc : proc[p].pc # "idle" /\ proc[p].wait = {}
    \/ \E b \in AllBuf : buf[b].io

(* Nobody sleeps for good: every sleeper has somebody to wake them, and the
   processes do not all wait for one another.                                 *)
NoSleepForGood == SleepersAreWoken /\ NotAllAsleep
=============================================================================

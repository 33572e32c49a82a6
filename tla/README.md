# Verification of the NeXT Mach kernel

TLA+ models of concurrent parts of the NeXT Mach 2.x kernel (`mk-108.1`), TLC
configurations that check them on small instances, and TLAPS proofs of the
properties that matter most.

The project covers seven mechanisms: the sleep lock, the thread state machine,
the zone allocator, the message queue, the virtual address space, the buffer
cache, and the remote procedure call under NFS. In each of them the interesting
failures need several actors and several steps. Two of the models are shown to
implement an abstract specification of what their clients rely on.

Paths below are relative to `src/mk-108.1/` unless they say otherwise.

Contents: 1 the system, 2 modules, 3 runs, 4 proofs, 5 disagreements found,
6 observations without a run, 7 abstractions, 8 not modelled, 9 plan.

## 1. The system and its parts

| part | code | state | operations |
|---|---|---|---|
| sleep lock | `kern/lock.c`, `kern/lock.h` | `lock_data_t`: `want_write`, `want_upgrade`, `waiting`, `can_sleep`, `read_count`, `recursion_depth`, `thread` | read, write, done, upgrade, downgrade, try forms, recursive ownership, sleep option |
| threads | `kern/sched_prim.c`, `kern/thread.c`, `kern/thread_swap.c` | `struct thread`: state bits, wait event and result, timer, suspend counts, `halted`, `ast`, swap state, run queue | wait, wakeup, timeout, block, dispatch, suspend, resume, get state, halt, abort, terminate, reap, swap out, swap in |
| zone allocator | `kern/zalloc.c`, `kern/zalloc.h` | per zone: free list, `count`, `cur_size`, `doing_alloc`; global: the space `zget_space` carves from | `zalloc`, `zget`, `zfree`, `zcram`, `zget_space` |
| message queues | `kern/ipc_basics.c`, `ipc_kset.c`, `ipc_kport.c`, `ipc_port.c`, `ipc_prims.c`, `ipc_copyin.c`, `ipc_copyout.c` | ports, port sets, message queues, blocked senders and receivers, `SEND_NOTIFY` pointers | `msg_queue`, `msg_dequeue`, port set calls, backlog, receive rights in transit, destruction |
| virtual memory | `vm/vm_map.c`, `vm_object.c`, `vm_fault.c`, `vm_user.c`, `next/pmap.c` | per map: entry list, `hint`, `first_free`, size; objects with pages, references and shadows; hardware mappings | allocate, deallocate, protect, inherit, copy, fork, exit, fault |
| buffer cache | `bsd/vfs_bio.c` | `struct buf`, the free lists, sleeping processes, the disk | `bread`, `breada`, `breadDirect`, `bwrite`, `bdwrite`, `bawrite`, `brelse`, `getblk`, `geteblk`, `biodone`, `blkflush`, `bflush`, `binvalfree` |
| kernel RPC and NFS | `rpc/clnt_kudp.c`, `rpc/svc_kudp.c`, `rpc/svc.c`, `nfs/nfs_subr.c`, `nfs/nfs_server.c` | client handles, server transports, the duplicate cache, sockets, datagrams | `rfscall`, `clntkudp_callit`, receive, dispatch, create, remove, link, write, reply |
| tasks, processor sets, IPC names | `kern/task.c`, `processor.c`, `ipc_pobj.c`, ... | references, lists, counters | not modelled |
| other BSD, file systems, network, drivers | `bsd/`, `ufs/`, `net*/`, `nextdev/`, ... | | not modelled |

How they interact. `lock.c` sleeps and wakes through `thread_sleep` and
`thread_wakeup`. `zalloc` waits for a growing zone with `assert_wait` and
`thread_block`. `msg_queue` and `msg_dequeue` use the event-less pair
`thread_will_wait` and `thread_go`, which are macros over the same state bits.
The `vm` maps are the lock's clients and the zone allocator's supplier. The NFS
server writes through the file system to the buffer cache. Each model contains
as much of its neighbour as it can observe: the lock has threads that are awake
or asleep on it, the allocator has waiters on `doing_alloc`, the message queue
has `waiting`, `timed` and a wait result, the RPC model has a file system of one
name.

The shipped configuration is a uniprocessor (`NCPUS` 1) with `MACH_XP`,
`MACH_IPC_WWA`, `MACH_IPC_XXXHACK` and `MACH_NP` off. The Mach code is written
for several processors. Each thread or IPC run says which of the two it is
about. BSD code (the buffer cache, RPC, NFS) runs on one processor by design.

### Hard behaviours

- **Lock.** An upgrade meets a waiting writer. Two readers upgrade. A reader
  tests and sleeps while the holder releases. `lock_done` has to guess which
  kind of hold it gives back.
- **Threads.** `clear_wait` drops the thread lock between reading the event and
  dequeuing the thread. A timeout comes late. A halt is withdrawn after the
  thread has seen it. Threads halt one another in a cycle. A thread wakes while
  its stack is being written out.
- **Zones.** `zget_space` drops its lock to get memory and others move the space
  meanwhile. `max_size` is tested in one critical section and `cur_size` raised
  in another. A waiter for growth comes back.
- **Messages.** A receiver's timeout races a hand-off. A message is taken under
  the queue lock and counted under the port lock. A port moves between sets
  with messages queued and threads asleep. A port or a set dies under its
  senders and receivers.
- **Virtual memory.** Copy-on-write is spread over entries, objects, pages and
  hardware mappings, which change at different times. Shadow chains are
  collapsed while other entries still refer to part of them. Hints point into a
  list that changes.
- **Buffers.** `getblk` sleeps and others enter the same block meanwhile. Blocks
  of different sizes overlap. Delayed writes, a failed transfer and a crash.
- **RPC.** Datagrams are lost, duplicated and reordered. The answer to an
  operation that cannot be repeated is lost. Client and server on one machine
  wait for one another's buffers. The duplicate cache is small and is lost in a
  crash.

`PROJECT.json` lists the hazards one by one, each with the line where it bites.

## 2. Modules

| module | what it is |
|---|---|
| `KernLock` | `lock_data_t` and its clients |
| `MCKernLock` | symmetry for TLC |
| `KernLockProofs` | `LockInv` is inductive; exclusion, no lost wakeup, upgrade atomicity; `KernLock` implements `RWLock` |
| `RWLock` | the abstract lock: who reads, writes or upgrades, and nothing of how |
| `ThreadState` | operators on one thread record: what the code does under the thread lock |
| `ThreadSched` | composes them into kernel operations of threads on one another |
| `MCThreadSched` | symmetry and workloads for TLC |
| `ThreadPlaces` | what each routine does to a thread that is where its fields say; the inductive invariant `PlacesInv` |
| `ThreadSteps` | most actions keep `PlacesInv` |
| `ThreadSchedProofs` | `thread_halt` and the context switch keep it too; `ThreadInv` and `FollowsStateTable` |
| `ZoneAlloc` | zones, `zget_space`, threads inside `zalloc`; the inductive invariant |
| `MCZoneAlloc` | three zones and their sizes |
| `ZoneAllocLemmas` | regions of memory, and the actions that get new memory |
| `ZoneAllocProofs` | the other actions keep `ZoneInv`; `TurnInv` and `SizeInv`; the theorems |
| `MsgQueue` | ports, sets, message queues and the threads on them |
| `MCMsgQueue` | message and buffer sizes, options, symmetry |
| `VmMap` | maps, objects, pages and hardware mappings of tasks; the page fault |
| `AddrSpace` | the abstract address spaces: each task has pages with a value and a protection |
| `MCVmMap` | programs (which calls, how many, how large a map) and the refinement of `AddrSpace` |
| `BufCache` | the buffer pool, the processes in its routines, the disk |
| `MCBufCache` | the requests processes make |
| `NfsRpc` | clients, datagrams, server processes, the duplicate cache, a file |
| `MCNfsRpc` | mounts: the route, hard or soft, the calls clients make |
| `NfsRpcBuffers` | each message buffer has at most one datagram on its way: every action keeps `BufferInv` |
| `NfsRpcProofs` | what answers say is true: every action keeps `AnswerInv`; the theorems |

Definitions named `x_Something` beside a definition `x` are faulty variants of
it (a dropped guard, a forgotten wakeup). Replacing `x` by `x_Something` must
make TLC report the property it is listed for in `PROJECT.json`. They document
what each property is able to detect. No specification uses them.

### KernLock

A step is one region in which `l->interlock` is held. `thread_sleep` asserts
the wait before it drops the interlock, so testing the condition, setting
`waiting` and going to sleep are one step.

`pc[t]` names the wait loop a thread is in. `"want_write"` and `"drain"` are
the two loops of `lock_write`, `"read"` is that of `lock_read`, `"upgrade"` and
`"try_upgrade"` those of the two upgrades. `Blocked(t)` is the condition of the
loop. `Spin` and `Sleep` are its body, `..._want`, `..._granted` and
`..._drained` are what follows it. `status` separates a thread that has spun
from one about to test, because only the former may sleep when
`lock_wait_time` is positive (`SpinFirst`).

The ghosts `readers`, `wr`, `wbit` and `ubit` record which thread was granted
what. The properties compare them with the fields of the lock. A thread's
`k`-th read hold is the pair `<<t, k>>`, so that `read_count` is the
cardinality of a set.

`MayRead`, `MayWrite`, `MayUpgrade` and `MayRelease` are the clients'
discipline, read off the callers in `vm/vm_map.c`. A thread that holds the lock
asks for it again only as recursive owner. The owner asks for write only while
it has the write lock. It gives the ownership up before its last hold.
`Liberties` names calls outside of that discipline.

### ThreadState and ThreadSched

`ThreadState` has no variables. `Awaken` is the switch that `clear_wait` and
`thread_wakeup_prim` share. `thread_continue`, `thread_hold`, `thread_release`,
`thread_swapin`, `thread_doswapin` and `thread_swapout` are named after the
code. `Pulled` and `NeedsWaiting` belong to `thread_dowait`, `ForceRun` to
`thread_halt`. A `panic()` in the code adds the name of the
routine to the field `panic`.

In `ThreadSched` every thread is an actor and a target. It acts only while it
is in `oncpu`, which has at most `NCPUS` members, and one action is one
critical section. A thread inside `thread_dowait` that calls `thread_block`
leaves its processor and must be dispatched again, so the threads that operate
the state machine are themselves subject to it.

With `NCPUS = 1` no other thread runs between two sections of a thread that
does not block, the two halves of `clear_wait` run at `splsched`, and
`thread_timeout` runs at `splhigh`; `Running` and `Interruptible` express that.
With `NCPUS = 2` all sections interleave.

`Workload` is a set of loads, of which `Init` chooses one (`load`): the threads
that exist and the operations they use. The threads outside the load are already
destroyed. It lets a run concentrate on some operations and keeps the others out
of the state space.

| pc | place in the code |
|---|---|
| `asserted`, `woken`, `set_timeout` | a client between `assert_wait` and the end of its `thread_block` |
| `clear1`, `clear2` | before and after `clear_wait` takes the wait-queue lock |
| `hold`, `release` | before `thread_hold`, before `thread_release` |
| `dowait...` | `thread_dowait` |
| `halt...`, `reap` | `thread_halt`, and the end of `thread_terminate` |
| `halted`, `zombie` | in `thread_halt_self` |
| `swappable...` | `thread_swappable` |

### ZoneAlloc

Addresses count alignment units. `free[z]` and `used[z]` are the elements on
the free list and in clients' hands. `mapped` is the memory of `zone_map` that
`kmem_alloc` has handed out. A step is one hold of a zone lock or of
`zget_space_lock`. `kmem_alloc`, `kmem_alloc_pageable` and `kmem_free` are
steps with no lock held and may return any free range (they are external to
`zalloc.c`).

The `pc` of a thread: `wait` and `woken` around `doing_alloc`; `grow`, `cram`,
`crammed` for a pageable zone; `space`, `kmem`, `unmap`, `count` for the others.

### MsgQueue

`mq[q]` has the messages and the sleeping receivers of a port or a set.
`Home(p)` is where messages for `p` are queued. `Offer` is the loop of
`msg_queue` and `set_add_member` over the receivers: receivers with too small a
buffer are sent away, the first one that fits gets the message, and otherwise
the message is queued. A thread that was given a message is made runnable only
after the locks are dropped (`msg_queue_go`). `msg_dequeue` takes a message
under the queue lock and counts it under the port lock (`msg_dequeue_count`).

`entry[t][p]` is the `kmsg` field of the sender's translation and `sender[p][i]`
the `sender_entry` of the `i`-th message, the two halves of `SEND_NOTIFY`.
`sent` and `taken` are ghosts.

`set_destroy` cannot lock a member while it holds the set, so it leaves a note
in `set_traversal`, unlocks, and looks again: `port_set_deallocate`, then one
`set_destroy_member` per member. `port_destroy` is `Destroying`, then one step
per message, two per poked sender, and one per translation.

### RWLock and the refinement

`RWLock` has one variable: what each thread has of the lock (`"none"`, `"read"`,
`"upgrading"`, `"write"`). `KernLock!Mode(t)` computes it from the ghosts, and
`ImplementsRWLock` is `RWLock!Spec` under that mapping. It says more than
exclusion: a refused upgrade gives the read hold up, an accepted one admits
nobody before it is complete, a downgrade lets nobody in between, and no call
changes what another thread has.

### VmMap and AddrSpace

A map is a sequence of entries. A position stands for a `vm_map_entry_t`, 0 for
the header and `Dangling` for a freed entry, so that the hints can go wrong the
way a pointer does. An object has the resident pages by offset. A hardware
mapping names the object and offset of its page, and follows the page when
`vm_page_rename` moves it. Every routine is a function from one memory
(`[map, object, pmap]`) to the next, and an action applies one system call or
one fault. The operators keep the names of the code: `vm_map_clip_start`,
`vm_map_insert`, `vm_map_delete`, `vm_map_copy_entry`, `vm_map_fork`,
`vm_object_collapse`, `vm_object_coalesce`, `vm_object_shadow`, `vm_fault`.

`AddrSpace` has neither entries nor objects: a task has allocated pages, each
with a protection, a maximum, an inheritance and a value, and a copy is a copy.
`Spaces(map, object)` is the refinement mapping. It looks a value up along the
shadow chain. `MappingsAgree` connects it with what the hardware would deliver.

### BufCache

A process runs in the kernel until it sleeps; `running` names it. One step
reaches from one sleep, or one point where the disk interrupt could make a
difference, to the next. `biodone` comes between any two steps. `buf[b].io` is
TRUE from `VOP_STRATEGY` to the interrupt. The contents of a sector are the
number of the write that made them, and the ghosts `latest` and `synced` record
what was written last, and what a `bwrite` reported as written. `Crash` empties
the pool and leaves the disk.

### NfsRpc

A client is a process in `rfscall` with its handle and socket. `call_again`,
`buffer_wait`, the wait for the reply and `drain` are the sections of
`clntkudp_callit` between its sleeps. An nfsd goes through `svc_run`, the
receive of `svckudp_recv`, the look into the duplicate cache, the operation
(which may sleep), the note in the cache, and the reply. A message buffer is
lent to the network (`bufbusy`, `busy`). On route `"loop"` it is given back when
the receiver frees it, on route `"net"` when the driver has sent it. The ghost
`performed` holds the calls that were carried out.

## 3. Runs

All runs finish within five minutes with two workers.

| run | instance | properties |
|---|---|---|
| `lock` | 3 threads, nesting 2, spinning, fair | `LockInv`, `ImplementsRWLock`, `WriterGetsLock`, `UpgradeCompletes`, `SleepersWake` |
| `thread_one_cpu` | 1 processor; 2 threads with all calls but two, and 3 threads that wait, abort, terminate and examine one another | `NoPanic`, `TimerBelongsToWait`, `StoppedWhileExamined`, `HaltedAtCleanPoint`, `DeadIsForgotten`, `FollowsStateTable` |
| `thread_two_cpus` | 2 threads, 2 processors | `ThreadInv`, `HoldsInv` |
| `thread_liveness` | 2 threads, 1 processor, fair | `OperationsReturn`, `DyingIsDestroyed` |
| `zone_safety` | 3 threads, 3 zones, 4 pages | `ElementsApart`, `ElementsMapped`, `OneGrows`, `OvershootBounded` |
| `ipc_safety` | 2 senders, 2 receivers, 1 port, 1 set, several processors | `QueueInv`, `SleepersInv`, `NotifyAgrees`, `DeathInv` |
| `ipc_senders` | 3 senders, 1 receiver, 1 port, 1 processor | `SendersHaveHope`, `SenderFindsItself` |
| `vm_spaces` | 2 tasks, maps of 2 or 3 pages, 4 objects, up to 4 calls | `MapInv`, `MappingsAgree`, `WritablePagesPrivate`, `ImplementsAddrSpace` |
| `buffer_cache` | 2 processes, 2 or 3 buffers, 3 sectors, one failed transfer, one crash | `PoolInv`, `ReadsLatest`, `NoWriteLost`, `SyncedStays`, `NoSleepForGood`, `FlushReachesDisk` |
| `rpc` | 2 clients, 1 or 2 nfsds, five mounts, fair | `RpcInv`, `ReplyIsTrue`, `RetransmissionRecognised`, `NoLateCreate`, `CallsReturn` |
| `zone_wait_retry`, `vm_protect_span` | | expected violations, section 5 |

### What the properties say

Lock. `LockInv` is the inductive invariant of the proof: exclusion, the
agreement of the lock's fields with what was granted (`Accounting`), the shape
nesting leaves true, no accepted upgrade with a writer beside it, and no thread
asleep on a lock it could have (no lost wakeup). `ImplementsRWLock` is the
refinement of section 2.

Threads. `ThreadInv` says that a runnable thread is on a run queue, on a
processor or with the swapper, and in only one of them, that the shared chain
field is used by one queue at a time, that swap states agree with the state bits,
and that the panics of `assert_wait`, `thread_wakeup`, `thread_continue`,
`thread_swapin` and `thread_swapout`, which test for just that, are out of reach.
`HoldsInv` says that `suspend_count` counts the holds and that no routine panics
at all; `NoPanic` is its second half, for more operations on one processor.
`StoppedWhileExamined` says that registers are read and written of
stopped threads only, `HaltedAtCleanPoint` that a thread is torn down only at
the clean point. `DeadIsForgotten` says that nothing refers to a destroyed
thread: no queue, processor, timeout or swap request. `FollowsStateTable`
compares every step with the table at the head of `sched_prim.c`. The table is
extended by the moves of `thread_halt` and `thread_swappable`, for which it has
no column, and by two moves where code and table differ (section 6).

Zones. `ElementsApart` and `ElementsMapped` say that no two elements overlap
and that none lies in memory that was given back, across zones and across the
windows in which `zget_space` has dropped its lock. `OvershootBounded` says how
far `max_size` can be exceeded because test and update are in different
critical sections: by one element for each other thread.

Messages. `QueueInv` says that the messages of a port are whole, in order and in
one queue, whatever sets the port has been through, and links
`port_message_count` with the queue and with the receivers that have a message
and have not counted it. `SleepersInv` excludes lost messages and lost wakeups:
no message and receiver wait for one another, and whoever waits is on the queue
that is searched. `NotifyAgrees` says that the pointers of `SEND_NOTIFY` are
symmetric and never dangle. `DeathInv` is about the death of ports and sets.
`SendersHaveHope` says that a blocked sender has a message before it, whose
reception wakes it, or another sender that was woken for the room there is.

Virtual memory. `ImplementsAddrSpace` is the purpose: whatever happens to
entries, shadow chains and collapses, each task sees private memory that only
its own calls change. `MappingsAgree` says that what the hardware delivers for a
mapped page is what the maps say, under a protection the entry allows.
`WritablePagesPrivate` says that no page is writable in hardware while another
entry leads to it, which must hold at every moment because a store through such
a mapping causes no fault. `MapInv` has the soundness of entry list, hints and
sizes, and of the reference counts.

Buffers. `PoolInv` says that a sector is in at most one valid buffer, and that a
buffer is either busy or on a free list. `ReadsLatest` says that a process gets
what was written last, `NoWriteLost` that the latest contents of every sector
are in the pool, under way or on the disk. `SyncedStays` says that what a
synchronous write reported is on the disk after a crash and is not overwritten by
anything older. `NoSleepForGood` says that every sleeper is waited for by
somebody who will release what it sleeps for, and that not all sleep.
`FlushReachesDisk` says that a block which `blkflush` was called for is on the
disk when it returns.

RPC. `RpcInv` says that a lent message buffer is left alone. `ReplyIsTrue` says
that what a client is told was done was done, in spite of loss, duplication,
reordering, a small cache and a crash. `RetransmissionRecognised` says that
a request that fails because it was performed before is found in the cache,
unless the server has crashed or the cache has been filled since. `NoLateCreate`
says that a delayed create does not truncate what was written since. `CallsReturn` says that calls return, unless a
server on the same machine waits for a buffer in the socket of an idle client
(section 6).

### Bounds

- Lock: 3 threads are a writer, an upgrader and a reader at once. Nesting 2 lets
  read and write holds of the owner mix. The proofs remove both bounds.
- Threads: an operation has one actor and one target. Three threads are needed
  for a halt that fails or is tried again because its caller is itself being
  halted; they use fewer calls. `MaxStop` and `MaxHold`
  bound the user's stop count and the holds `task_terminate` meets.
- Zones: 4 pages of 2 units and elements of 1 and 3 units, so elements straddle
  pages, the space is extended, replaced and given back unused, and zones reach
  `max_size`. The proofs remove these bounds.
- Messages: `MaxSent` 2 with two sizes reaches hand-off, too-large and queued
  messages. A backlog of 1 or 2 stands for `PORT_BACKLOG_DEFAULT` 5; every port
  starts with 1, as after `port_set_backlog`. `ipc_senders` sends 4 messages
  with 3 senders, so that some block, wake and block again.
  In `ipc_safety` every sender uses `SEND_TIMEOUT | SEND_NOTIFY`, which meets
  sleeping, timing out and the accepted notify in one option, and receivers wait
  until they are woken or interrupted. Plain, timed and `SEND_ALWAYS` sends and
  timed receives are in `ipc_senders`.
- Virtual memory: `calls` counts system calls, not faults and stores, which are
  unbounded. Four calls with 2 pages reach a chain of two shadows with a
  collapse and a bypass; 3 pages are needed for an entry between two others.
  The four programs of `MCPrograms` split the calls so that each interaction
  (fork with deallocation, with copy, with protection; the list alone) is
  explored in full.
- Buffers: the device has three sectors, of which two are a block that is also
  used in fragments. Three requests of every kind in a pool of three, and five of
  some kinds in a pool of two, where processes wait for one another's buffers.
- RPC: two or three calls, at most two transmissions each, one duplicated
  datagram, one crash, in the mounts where they matter. The proof removes these
  bounds for `ReplyIsTrue`.

Symmetry sets are used in safety runs only, over threads that the model treats
alike.

Deadlock checking is off in all runs but `lock`. Their clients may all end
(terminated threads, a panic, dead ports, the bound on calls reached), so a state
without a successor is no error there. `NoSleepForGood` and `CallsReturn` take its
place for buffers and RPC.

### Fairness

`KernLock!Fairness`: a thread inside `lock.c` takes its next step (it is
scheduled), and a client gives its holds and its ownership back. The latter is
strong fairness, because other holds of the same thread may disable the release
and enable it again.

`ThreadSched!Fairness`: a thread on a processor goes on. Dispatch is strongly
fair, because ageing raises the priority of a thread that waits. Pre-emption and
the halt AST are strongly fair, because `ast_check` repeats the request at every
clock tick. The swapper, the reaper and the timers run. User events happen.

`NfsRpc!FairSpec`: clients, nfsds and the driver's transmission go on. Nothing is
assumed of the network: every datagram may be lost.

No liveness is claimed for `thread_suspend`, for the zone allocator or for
message senders. The hazard list says why. `FlushReachesDisk` is a safety
property of the step in which the flush returns.

## 4. Proofs

The theorems hold for every value of the constants, given the named
assumptions. TLC evaluates those assumptions in the runs of `MCKernLock`,
`MCThreadSched`, `MCZoneAlloc` and `MCNfsRpc`.

**Lock** (`KernLockProofs`, assuming `Liberties = {}`).

- `LockSafe`: `Spec => []LockInv`.
- `LockExclusion`, `LockNoLostWakeup`, `LockUpgradeAtomic`: `Exclusion`,
  `NoSleepOnFreeLock` and `UpgradeKeepsOut` follow from it.
- `LockImplementsRWLock`: `Spec => ImplementsRWLock`.

`Exclusion` alone is not inductive, because `lock_done` decides by the fields
and not by the caller. `LockInv` adds `Accounting` (the fields count the holds,
and each bit belongs to one known thread), `HoldShape` (who may hold what) and
`NoSleepOnFreeLock`. `OwnWrite` is the key lemma: the bit or count that
`DropWrite` takes back is the caller's own. There is one lemma for each way a
hold comes or goes (`GrantWriteInv`, `GrantReadInv`, `LessReadInv`,
`WriteDoneInv`, `StartUpgradeInv`, ...), and the step theorem assigns each
action to one of them.

The refinement uses `LockInv` before and after the step. `Compatible` says what
one thread's mode tells of the others'. `ModeFrame` says that a step of `t` leaves
the mode of everyone else alone, and `Moved(t)` that the mode of `t` stays or
changes along one of the arrows of `RWLock`. Both together are a step of
`RWLock` or a stutter.

**Threads** (`ThreadPlaces`, `ThreadSteps`, `ThreadSchedProofs`). The assumptions
are that there is at least one processor (`CpuAssumption`), that `NoThread` is no
thread, that a load names threads and operations of the model
(`WorkloadAssumption`), and that the two bounds on counts are positive
(`StopAssumption`). The threads, the processors and the load are arbitrary, so the
theorems cover the multiprocessor in full, suspend together with resume included.

- `StayInPlace`: `Spec => []PlacesInv`.
- `ThreadsInPlace`: `Spec => []ThreadInv`.
- `ThreadsFollowTable`: `Spec => FollowsStateTable`.

`ThreadInv` is not inductive. Whether `thread_continue` meets a state it knows
depends on which sets of bits a thread can have on and off a processor, and
whether `thread_swappable` may bring a thread in depends on who else has asked for
it. `PlacesInv` therefore says three things of every thread (`InPlace`). Its bits,
its swap state, its run queue and its processor fit together (`Bits`); in
particular a thread off its processor is never both runnable and waiting, and a
non-interruptible thread is not swapped while it waits. The operation it executes
fits its fields: a running thread with `TH_WAIT` set is between `assert_wait` and
`thread_block` (`WaitPcs`), and it does not wait for an event that it alone would
bring about. A thread that another one is making unswappable stays so (`Pinned`),
and one that the swapper is writing out stays with the swapper (`Leaving`).

The argument has two levels. `ThreadPlaces` shows for each routine that it turns a
thread that is in place into one that is (`Changed`), and moves its bits along a
row of the state table. `StepKeeps` and its variants say that a step keeps
`PlacesInv` when it changes the threads it touches in this way. The two other
modules assign every action to one of these variants. The state table has 55
transitions; membership in it is decided once for each routine, by the lemmas
`TableRows`, `NoninterruptibleRows` and `AlongRow`.

The proof added three moves to `HaltMoves`. TLC's instances do not reach them: an
abort is interrupted after it has set a swapped-out thread running, releases it,
and a second one holds it again before the swapper has brought it in.

**Zones** (`ZoneAllocLemmas`, `ZoneAllocProofs`).

- `ZoneSafe`: `Spec => []ZoneInv`.
- `ZoneTypes`, `ZoneElementsApart`, `ZoneElementsMapped` follow from it.
- `ZoneOneGrows`: `Spec => []OneGrows`.
- `ZoneOvershoot`: `Spec => []OvershootBounded`.

The assumptions are those of `zinit` (an element, an allocation and a page are
at least one byte, `alloc_size` is a number of pages and `max_size` no less), and
for the last two theorems that the threads are a finite set (`ThreadAssumption`).

`ElementsApart` is not inductive either: `zget_space` makes an element of
memory that is not an element yet. `ZoneInv` says that `mapped` is divided among
owners that are pairwise apart. The owners are the elements (`ElementsClear`),
the elements on their way (`PendingClear`), the space between
`zalloc_next_space` and `zalloc_end_of_space` (`SpaceClear`), and the memory each
thread brings from `kmem_alloc` (`NewClear`). `Places` ties these to program
counters. Each action moves a region from one owner to another. The arithmetic
of regions (`Inside`, `ElementsFit`, `SpaceToAdd`) is in lemmas of its own.

`OneGrows` counts the threads between setting and clearing `doing_alloc`. `TurnInv`
says the same without counting: such a thread exists exactly when the flag is set,
any two of them are one, and a waiter waits for a flag that is set.

`OvershootBounded` compares `cur_size` with `max_size`, which `zalloc` tested some
steps earlier. `SizeInv` adds the threads that have passed the test and have not
added their element yet (`InFlight`): `cur_size` and one element for each of them
stay within the bound, because a thread that passes the test finds `cur_size` plus
one element within `max_size`, and the others in flight are at most all but itself.
Moving a thread from one side to the other keeps the sum; the rest is cardinality
(`FiniteSetTheorems`).

**RPC** (`NfsRpcBuffers`, `NfsRpcProofs`). The assumption `RpcAssumption` is that
the duplicate cache has at least one entry, that a mount's `retrans` is a natural
number, that the server is across the network or on the client's machine, and that
clients call only `create`, `remove`, `link` and `write`. The
number of clients, nfsds, calls, retransmissions, duplicates and crashes is
arbitrary.

- `RpcAnswers`: `Spec => []AnswerInv`.
- `RpcReplyIsTrue`: `Spec => []ReplyIsTrue`.
- `RpcBuffersKept`: `Spec => []RpcInv`.

`ReplyIsTrue` looks only at what a call returned. `AnswerInv` follows the answer
back to where it comes from. Requests, wherever they are, carry a number (xid) that
their client has given out, and the latest number belongs to the latest call
(`Sent`). An `NFS_OK`, wherever it is, answers a request that was performed
(`TrueReplies`), and so does each entry of the cache (`Known`). A client in
`receive` waits for its latest number (`ClientInv`), and an nfsd that found its
request in the cache or is about to answer `NFS_OK` has a request that was performed
(`NfsdInv`). These are sets that datagrams, requests and entries are members of.
`Forward` says that a step never takes back a number or an operation, from which
the sets only grow (`SetsGrow`); so what a step leaves alone stays as it was, and
each action has to account only for what it adds. A crash empties the cache and
loses requests, but takes back nothing that was performed.

`RpcInv` says that a buffer is marked busy, and not filled anew, while a datagram is
in it. When the driver frees one datagram it marks the buffer free, so the invariant
also has to say that there is no other: `BufferInv` counts, for each buffer, at most
one datagram that holds it, in the network (`NetInv`), or on one machine in the
server's socket, with an nfsd, or in a client's socket (`LoopInv`), where sequences
have no two datagrams of one buffer (`Distinct`). Each action is reduced to what it
does to handles (`ClientMove`, `Returned`) before the two routes are looked at. The
proof showed that `retrans = 0` is a mount of its own (the count of tries then
reaches -1), which TLC's mounts do not have, and that on one machine a crash would
end the clients as well, so `Crash` belongs to the network route.

**Only model-checked.**

- All liveness properties, which need fairness and `ENABLED` and are beyond the
  prover.
- Threads: `HoldsInv`, `NoPanic`, `TimerBelongsToWait`, `StoppedWhileExamined`,
  `HaltedAtCleanPoint` and `DeadIsForgotten`. Each fails for some load on several
  processors (section 6), so they are no theorems of `Spec` for every value of
  the constants.
- Messages: `Offer` is a fold over the receivers of a queue, and what it does to
  a queue of any length is an induction over data.
- Buffers: the free lists are searched and filtered as sequences, with the same
  consequence.
- Virtual memory: `VmMap` walks shadow chains and entry lists with recursive
  operators, which the prover does not take.
- RPC: `RetransmissionRecognised` and `NoLateCreate`, which fail on some mounts
  (section 5).

## 5. Where the code disagrees with its comments

Each of these is a run that TLC must find violated.

1. **`zone_wait_retry`** (`kern/zalloc.c:482`). A thread that waited for a zone
   to grow does not look at the free list again. It panics with "zone empty", or
   grows the zone once more, although elements are free. The comment says "Wait
   for it to show up, then try again."
2. **`vm_protect_span`** (`vm/vm_map.c:984`). `vm_map_protect` takes the
   copy-on-write mask of the first entry of the range for all of them
   (`MASK(entry)` where `current` is meant). If the first entry is not
   copy-on-write and a later one is, the later one's resident pages become
   writable in hardware while a forked task still reads them. The comment at
   `vm/vm_map.c:1527` says "Mark the entries copy-on-write, so that
   write-enabling the entry won't make copy-on-write pages writable."

The following are found by TLC on other values of the constants. The passing runs
keep to the values without them.

3. **Upgrade after a downgrade** (`kern/lock.c:455`; `Liberties =
   {"upgrade_after_downgrade"}`). A recursive owner that has downgraded has only a
   read hold. `lock_read_to_write` still takes the recursive branch and reports
   success, while other readers are inside. The comment says that it "Improves a
   read-only lock to one with write permission". `vm/vm_map.c:1138` avoids it:
   "Because of problems in the recursive lock package, we cannot upgrade to a
   write lock in vm_map_lookup".
4. **A withdrawn halt** (`kern/thread.c:1454`; `NCPUS = 2`). A thread that has
   seen `AST_HALT` sets `halted` after the request was withdrawn. It runs on with
   `halted` set, and the next `thread_halt` succeeds at once. The comment says
   "Halt a thread at a clean point, leaving it suspended."
5. **A dirty buffer that is not to be kept** (`bsd/vfs_bio.c:407`; workload
   `MCNoCache`). `brelse` turns `B_NOCACHE` into `B_INVAL` without a look at
   `B_DELWRI`, and `ufs_pagein` sets `B_NOCACHE` on whatever `bread` found. The next
   reader gets the old contents from the disk. `ReadsLatest` fails.
6. **A create on a hard mount** (`nfs/nfs_subr.c:516`; `HardWorkload`).
   `clntkudp_once` keeps the RPC layer from repeating a create, but `rfscall`
   repeats it with a new transaction id that the duplicate cache cannot know.
   `NoLateCreate` fails. The comment at `nfs/nfs_server.c:926` says "to be sure
   this is not a delayed retransmission".
7. **Two nfsds behind one socket** (`nfs/nfs_server.c:996`; `TwoWorkload`). The
   operation sleeps before it is noted in the cache. A second nfsd takes the
   retransmission meanwhile, fails it, and the client is told of the failure.
   `RetransmissionRecognised` fails.
8. **Loop-back** (`rpc/clnt_kudp.c:396`; `LoopWorkload`). The socket of an idle
   handle is emptied by nobody. A late reply in it keeps the buffer of the only
   nfsd, which then answers no other call. `LoopbackCallsReturn`, the
   unrestricted form of `CallsReturn`, fails. The comment says
   "This is a kludge to avoid deadlock in
   the case of a loop-back call".

## 6. Seen in exploration, without a run of their own

- With two processors, `thread_resume`'s release can come before
  `thread_suspend`'s hold (`kern/thread.c:1644`), and then `suspend_count` is -1
  for a moment, which breaks `HoldsInv`. `thread_two_cpus` therefore uses
  suspend without resume.
- With two processors, a thread can terminate the thread that is aborting it
  before it takes the halt AST. Each waits in `thread_dowait` for the other to
  stop, each stops under the other's hold, and nobody is left to release them.
  The comment at `kern/thread.c:1255` says that an operation with `must_halt`
  "can never cause a deadlock".
- With two processors, a late `thread_timeout` can end the next wait
  (`kern/sched_prim.c:417`), and `thread_terminate` can set a thread running that
  `thread_get_state` examines (`kern/thread.c:1358`). A timeout that has fired can
  still be on its way when its thread is freed, which breaks `DeadIsForgotten`.
- With two processors, a thread that runs on with `halted` set (number 4 above) can
  be terminated, reaped and freed while it runs. `thread_deallocate` then panics, so
  `NoPanic` fails.
- The state table sends `RWN` to `RN` on clear-wait (`kern/sched_prim.c:329`).
  The code makes the thread interruptible (`kern/sched_prim.c:601`).
- `thread_swappable` "May be called at any time" (`kern/thread_swap.c:491`).
  Making a thread swappable while it is being made unswappable leads to a panic.
  No caller passes TRUE.
- `thread_deallocate_interrupt` (`kern/thread.c:1009`) puts a thread where the
  reaper expects a `reaper_struct`. References are not counted in the model.
- `lock_set_recursive` after an upgrade panics (`kern/lock.c:646`), because it
  looks at `want_write` only. `lock_try_read_to_write` sleeps whatever
  `can_sleep` says (`kern/lock.c:628`).
- `zalloc` does not look at what `kmem_alloc_pageable` returns
  (`kern/zalloc.c:502`). The model lets it succeed.
- With several processors, a sender whose timeout expired can find itself taken
  off the queue by `port_destroy` and not told yet (`kern/ipc_kport.c:280`); it
  then removes itself a second time (`kern/ipc_basics.c:1030`).
  `SenderFindsItself` is checked for one processor.
- `vm_map_fork` counts entries that are not inherited in the child's size
  (`MapInv` therefore bounds the size from below). `vm_map_insert` moves
  `first_free` in a way that makes `vm_map_find` next-fit at times, where its
  comment says first-fit. `vm_fault_copy_entry` looks up with `max_protection`;
  it belongs to the wired branch of `vm_map_copy_entry`, which is not modelled.
- `vm_object_bypass`'s test uses `<=` where `vm_object_collapse` uses `<`
  (`vm/vm_object.c:1636`). It costs a bypass and changes nothing a task sees.
- `breadDirect` reads ahead into a private buffer on the stack
  (`bsd/vfs_bio.c:177`). Its comment says that others "will see the buffer, wait
  for IO to complete, then retry with their own buffer"; with `MCDirect`,
  `PrivateStaysPrivate` is violated, because another process can take the private
  buffer over. Two `breada` at once in a pool of two buffers would
  wait for one another; a pool has more.

## 7. Abstractions

- **Lock.** Counter widths (16 and 12 bits) are dropped. Spinning is one step.
- **Threads.** Priorities and the choice among runnable threads are left open;
  `Dispatch` may take any. Wakeups that `thread_continue` and `thread_dowait`
  issue right after they unlock are part of the section before. References are
  represented by `unref` (the thread's reference to itself is gone) and `dead`.
  All threads have been created and released once.
- **Zones.** The free list is a set. Zones exist from the start with the sizes
  `zinit` makes. `zone_ignore_overflow` is FALSE. Running out of memory in
  `kmem_alloc` ends the behaviour with a panic.
- **Messages.** A message is its port, number and size. `msg_queue`'s port and
  queue sections are one step, because the queue lock is taken before the port
  lock is dropped. Which member of a set comes next in `set_destroy` is open. A
  message too large for a receiver without `RCV_LARGE` counts as received,
  because the code dequeues it before it looks. Each sending thread is a task of
  its own, and one task has all receive rights. Unlocked pointer updates of the
  senders' queue are atomic, except for the two halves of a poke.
- **Virtual memory.** Addresses count pages. Memory is anonymous and resident,
  maps are task maps, no page is wired. The map lock is held throughout each
  call, and a fault is one step; the sections of `vm_fault` in which the map is
  unlocked, and its relookup (`vm/vm_fault.c:1067`), are needed only for pages
  that are busy or paged out, which do not occur here. Physical memory does not
  run out. `vm_protect` changes one page at a time when `SpanProtect` is FALSE.
- **Buffers.** One device; a page is as large as the largest block, so `allocbuf`
  never moves memory between buffers. `BUFHASH` puts blocks that can overlap into
  one bucket, so the model searches them all. `B_AGE`, `B_CACHE` and `B_LOCKED`
  are left out. `VN_RELE` does not sleep.
- **RPC.** One handle for each client, with a socket of its own. The file system is
  one name, which is absent, empty or written. Transaction ids do not wrap.
  The handle table of `clget`, authentication and shortage of mbufs are left out.

## 8. Not modelled

`PROJECT.json` lists every part with the reason. The repository has 270,000 lines
in 849 files: the kernel proper, device drivers, the boot monitor, a floating-point
emulator, generated stubs, headers and user-level tools. The models stand for a
few per cent of them, the part where state is shared between actors and a wrong
order of steps does damage. To cover a third of the lines would mean to model
register-level drivers, the TCP/IP stack and disk formats, which is neither in
TLC's reach nor a gain.

Inside the modelled parts, these are left out: `thread_create` and special ports;
`zchange` and `host_zone_info`; backup ports, notification delivery and
kernel-object ports; pagers, copy objects, pageout, sharing maps, submaps and
wiring; `binval`, physical I/O and locked buffers; the handle table of `clget`;
`rename`, `symlink`, `mkdir` and `rmdir`, which use the duplicate cache as `remove`
and `link` do.

Outside: tasks and processor sets (loops over the thread operations), port names and
reference counts, `kalloc` and kernel stacks (computations on top of the zone
allocator). Network IPC (`MACH_NP`) is not configured. MIG stubs are generated. The
other BSD code, the protocol stacks and the drivers are dominated by I/O or
serialised by the UNIX master.

## 9. Plan

Worth doing next, in this order:

1. Proofs for messages: `NeverBothWait`, and the symmetric half of
   `NotifyAgrees`.
2. Proofs for threads on one processor: `TimerBelongsToWait`,
   `StoppedWhileExamined`.
3. Proof for zones: `OneGrows`, through cardinality lemmas.
4. `VmPage`: busy and wanted pages with a pager, and the relookup of `vm_fault`
   after it dropped the map lock.
5. `Task` and processor sets: hold and release of whole tasks, termination,
   assignment.
6. Port references and names, with the message queue as client.

----------------------------- MODULE ZoneAlloc -----------------------------
(***************************************************************************)
(* The zone allocator of kern/zalloc.c: zones of fixed-size elements that  *)
(* several threads allocate from and free to, the contiguous space         *)
(* zget_space that all non-pageable zones carve their elements from, and   *)
(* the growth of a pageable zone by one thread while others wait.          *)
(*                                                                         *)
(* One step is what happens while a zone lock or zget_space_lock is held;  *)
(* kmem_alloc and kmem_free, which may block, are steps of their own with  *)
(* no lock held.  Addresses count units of zone_alignment + 1 bytes.       *)
(* Which element of the free list is handed out makes no difference here,  *)
(* so the list is a set.  zone_ignore_overflow keeps its initial FALSE.    *)
(***************************************************************************)
EXTENDS Integers, FiniteSets

CONSTANTS
  Thread,       \* threads that allocate and free
  Zone,         \* the zones, all made by zinit before they are used
  NoZone,       \* the zone of a thread that is not inside zalloc
  PageSize,
  Pages,        \* pages of zone_map, numbered from 1
  ElemSize,     \* ElemSize[z]: elem_size, rounded up by zinit
  MaxSize,      \* MaxSize[z]: max_size
  AllocSize,    \* AllocSize[z]: alloc_size, a number of whole pages
  Pageable,     \* the pageable zones
  Exhaustible   \* the exhaustible zones

ASSUME ThreadAssumption == IsFiniteSet(Thread) /\ Thread # {}
ASSUME PageAssumption == PageSize \in Nat \ {0} /\ Pages \in Nat
ASSUME ZoneAssumption ==
  /\ NoZone \notin Zone
  /\ ElemSize \in [Zone -> Nat \ {0}]
  /\ AllocSize \in [Zone -> Nat \ {0}]
  /\ MaxSize \in [Zone -> Nat]
  /\ Pageable \subseteq Zone /\ Exhaustible \subseteq Zone
ASSUME AllocAssumption ==   \* as zinit rounds them
  \A z \in Zone : AllocSize[z] % PageSize = 0 /\ MaxSize[z] >= AllocSize[z]

VARIABLES
  free,         \* free[z]: the elements on free_elements
  used,         \* used[z]: the elements in the hands of clients
  count,        \* count[z]: "Number of elements used now"
  cur_size,     \* cur_size[z]: "current memory utilization"
  doing_alloc,  \* doing_alloc[z]: "is zone expanding now?"
  next_space,   \* zalloc_next_space
  end_space,    \* zalloc_end_of_space
  mapped,       \* the addresses of zone_map that are allocated
  pc,           \* pc[t]: where t is in zalloc
  req,          \* req[t]: the zone t allocates from
  new_space,    \* new_space[t]: memory t got from kmem_alloc, or 0
  addr,         \* addr[t]: the element t carved from the space, or 0
  panicked      \* what the kernel has panicked about, and for which zone

zvars == <<free, used, count, cur_size, doing_alloc>>
svars == <<next_space, end_space>>
tvars == <<req, new_space, addr>>
vars == <<free, used, count, cur_size, doing_alloc, next_space, end_space, mapped,
          pc, req, new_space, addr, panicked>>

Running == panicked = <<"none", NoZone>>

Init ==
  /\ free = [z \in Zone |-> {}]
  /\ used = [z \in Zone |-> {}]
  /\ count = [z \in Zone |-> 0]
  /\ cur_size = [z \in Zone |-> 0]
  /\ doing_alloc = [z \in Zone |-> FALSE]
  /\ next_space = 0 /\ end_space = 0
  /\ mapped = {}
  /\ pc = [t \in Thread |-> "idle"]
  /\ req = [t \in Thread |-> NoZone]
  /\ new_space = [t \in Thread |-> 0]
  /\ addr = [t \in Thread |-> 0]
  /\ Running

Goto(t, label) == pc' = [pc EXCEPT ![t] = label]

----------------------------------------------------------------------------
(* Memory of zone_map, by kmem_alloc, kmem_alloc_pageable and kmem_free.   *)
Span(a, n) == a .. (a + n - 1)

round_page(n) == ((n + PageSize - 1) \div PageSize) * PageSize

Room(n) == {k * PageSize : k \in {j \in 1..Pages :
              /\ j * PageSize + n <= (Pages + 1) * PageSize
              /\ Span(j * PageSize, n) \cap mapped = {}}}

(* new_space[t] becomes n fresh units, or the caller panics.               *)
Obtain(t, n, label) ==
  \/ /\ \E a \in Room(n) :
          /\ mapped' = mapped \cup Span(a, n)
          /\ new_space' = [new_space EXCEPT ![t] = a]
     /\ Goto(t, label)
     /\ UNCHANGED panicked
  \/ /\ Room(n) = {}
     /\ panicked' = <<"memory", req[t]>>
     /\ UNCHANGED <<mapped, new_space, pc>>

----------------------------------------------------------------------------
(* REMOVE_FROM_ZONE and ADD_TO_ZONE.                                       *)
RemoveFromZone(z) ==
  \E a \in free[z] :
    /\ free' = [free EXCEPT ![z] = @ \ {a}]
    /\ used' = [used EXCEPT ![z] = @ \cup {a}]
    /\ count' = [count EXCEPT ![z] = @ + 1]

(* zget, which never waits; with an empty zone it changes nothing.         *)
zget(t) ==
  /\ pc[t] = "idle"
  /\ \E z \in Zone : RemoveFromZone(z)
  /\ UNCHANGED <<cur_size, doing_alloc, mapped, pc, panicked>>
  /\ UNCHANGED svars /\ UNCHANGED tvars

zfree(t) ==
  /\ pc[t] = "idle"
  /\ \E z \in Zone : \E a \in used[z] :
       /\ used' = [used EXCEPT ![z] = @ \ {a}]
       /\ free' = [free EXCEPT ![z] = @ \cup {a}]
       /\ count' = [count EXCEPT ![z] = @ - 1]
  /\ UNCHANGED <<cur_size, doing_alloc, mapped, pc, panicked>>
  /\ UNCHANGED svars /\ UNCHANGED tvars

----------------------------------------------------------------------------
(* zalloc.                                                                 *)
Increment(z) == IF z \in Pageable THEN AllocSize[z] ELSE ElemSize[z]

(* A test that leaves out what the zone is about to grow by.               *)
Full_Already(z) == cur_size[z] > MaxSize[z]

Full(z) == cur_size[z] + Increment(z) > MaxSize[z]

(* The body of the loop "while (addr == 0)", up to where it gives up the   *)
(* zone lock; p and doing are pc and doing_alloc as the loop finds them.   *)
Expand(t, z, p, doing) ==
  \/ /\ doing[z]
     /\ pc' = [p EXCEPT ![t] = "wait"]
     /\ req' = [req EXCEPT ![t] = z]
     /\ doing_alloc' = doing /\ UNCHANGED panicked
  \/ /\ ~doing[z] /\ Full(z) /\ z \in Exhaustible
     /\ pc' = [p EXCEPT ![t] = "idle"]
     /\ req' = [req EXCEPT ![t] = NoZone]
     /\ doing_alloc' = doing /\ UNCHANGED panicked
  \/ /\ ~doing[z] /\ Full(z) /\ z \notin Exhaustible
     /\ panicked' = <<"empty", z>>
     /\ doing_alloc' = doing /\ pc' = p /\ UNCHANGED req
  \/ /\ ~doing[z] /\ ~Full(z)
     /\ pc' = [p EXCEPT ![t] = IF z \in Pageable THEN "grow" ELSE "space"]
     /\ req' = [req EXCEPT ![t] = z]
     /\ doing_alloc' = [doing EXCEPT ![z] = z \in Pageable]
     /\ UNCHANGED panicked

zalloc(t) ==
  /\ pc[t] = "idle"
  /\ \E z \in Zone :
       \/ RemoveFromZone(z) /\ UNCHANGED <<doing_alloc, pc, req, panicked>>
       \/ free[z] = {} /\ Expand(t, z, pc, doing_alloc) /\ UNCHANGED <<free, used, count>>
  /\ UNCHANGED <<cur_size, mapped, new_space, addr>> /\ UNCHANGED svars

(* thread_wakeup of doing_alloc has reached t, or clear_wait its           *)
(* interruptible wait: it locks the zone and goes round the loop.          *)
zalloc_woken(t) ==
  /\ pc[t] = "woken"
  /\ Expand(t, req[t], pc, doing_alloc)
  /\ UNCHANGED <<free, used, count, cur_size, mapped, new_space, addr>> /\ UNCHANGED svars

Interrupted(t) ==
  /\ pc[t] = "wait"
  /\ Goto(t, "woken")
  /\ UNCHANGED <<mapped, panicked>> /\ UNCHANGED zvars /\ UNCHANGED svars /\ UNCHANGED tvars

(* A pageable zone grows: memory, then zcram, then the wakeup and a second *)
(* REMOVE_FROM_ZONE, which others may have left nothing for.               *)
kmem_alloc_pageable(t) ==
  /\ pc[t] = "grow"
  /\ Obtain(t, AllocSize[req[t]], "cram")
  /\ UNCHANGED <<req, addr>> /\ UNCHANGED zvars /\ UNCHANGED svars

Elements(z, a, n) == {a + i * ElemSize[z] : i \in 0 .. ((n \div ElemSize[z]) - 1)}

zcram(t) ==
  /\ pc[t] = "cram"
  /\ LET z == req[t] IN
       /\ free' = [free EXCEPT ![z] = @ \cup Elements(z, new_space[t], AllocSize[z])]
       /\ cur_size' = [cur_size EXCEPT ![z] = @ + AllocSize[z]]
  /\ new_space' = [new_space EXCEPT ![t] = 0]
  /\ Goto(t, "crammed")
  /\ UNCHANGED <<used, count, doing_alloc, mapped, req, addr, panicked>> /\ UNCHANGED svars

(* A growth that ends without thread_wakeup.                               *)
zalloc_crammed_Silent(t) ==
  /\ pc[t] = "crammed"
  /\ LET z == req[t]
         done == [doing_alloc EXCEPT ![z] = FALSE]
     IN \/ /\ RemoveFromZone(z)
           /\ Goto(t, "idle")
           /\ req' = [req EXCEPT ![t] = NoZone]
           /\ doing_alloc' = done
           /\ UNCHANGED panicked
        \/ /\ free[z] = {}
           /\ Expand(t, z, pc, done)
           /\ UNCHANGED <<free, used, count>>
  /\ UNCHANGED <<cur_size, mapped, new_space, addr>> /\ UNCHANGED svars

zalloc_crammed(t) ==
  /\ pc[t] = "crammed"
  /\ LET z == req[t]
         done == [doing_alloc EXCEPT ![z] = FALSE]
         woken == [u \in Thread |-> IF pc[u] = "wait" /\ req[u] = z THEN "woken" ELSE pc[u]]
     IN \/ /\ RemoveFromZone(z)
           /\ pc' = [woken EXCEPT ![t] = "idle"]
           /\ req' = [req EXCEPT ![t] = NoZone]
           /\ doing_alloc' = done
           /\ UNCHANGED panicked
        \/ /\ free[z] = {}
           /\ Expand(t, z, woken, done)
           /\ UNCHANGED <<free, used, count>>
  /\ UNCHANGED <<cur_size, mapped, new_space, addr>> /\ UNCHANGED svars
----------------------------------------------------------------------------
(* zget_space.                                                             *)
space_to_add(n) == IF PageSize < n THEN round_page(n) ELSE PageSize

(* result = zalloc_next_space; zalloc_next_space += size, if the space has *)
(* room; else unlock and ask for more.                                     *)
Carve(t, from, to, n, label) ==
  IF from + n <= to
  THEN /\ addr' = [addr EXCEPT ![t] = from]
       /\ next_space' = from + n
       /\ Goto(t, label)
  ELSE /\ next_space' = from
       /\ Goto(t, "kmem")
       /\ UNCHANGED addr

(* A zget_space that takes all memory it brings to follow the space, and   *)
(* one that does not forget the memory it has made part of the space.      *)
zget_space_Extends(t) ==
  /\ pc[t] = "space"
  /\ LET n == ElemSize[req[t]]
         ns == new_space[t]
         to == ns + space_to_add(n)
     IN IF ns = 0 \/ next_space + n <= end_space
        THEN /\ Carve(t, next_space, end_space, n, IF ns # 0 THEN "unmap" ELSE "count")
             /\ UNCHANGED <<end_space, new_space>>
        ELSE /\ Carve(t, next_space, to, n, "count")
             /\ end_space' = to
             /\ new_space' = [new_space EXCEPT ![t] = 0]
  /\ UNCHANGED <<mapped, req, panicked>> /\ UNCHANGED zvars

zget_space_Remembers(t) ==
  /\ pc[t] = "space"
  /\ LET n == ElemSize[req[t]]
         ns == new_space[t]
         to == ns + space_to_add(n)
     IN IF ns = 0 \/ next_space + n <= end_space
        THEN /\ Carve(t, next_space, end_space, n, IF ns # 0 THEN "unmap" ELSE "count")
             /\ UNCHANGED end_space
        ELSE /\ Carve(t, IF ns # end_space THEN ns ELSE next_space, to, n, "unmap")
             /\ end_space' = to
  /\ UNCHANGED <<new_space, mapped, req, panicked>> /\ UNCHANGED zvars

(* One pass under zget_space_lock.  Memory that t brought is not needed    *)
(* if others have made room; else it extends the space or replaces it.     *)
zget_space(t) ==
  /\ pc[t] = "space"
  /\ LET n == ElemSize[req[t]]
         ns == new_space[t]
         to == ns + space_to_add(n)
     IN IF ns = 0 \/ next_space + n <= end_space
        THEN /\ Carve(t, next_space, end_space, n, IF ns # 0 THEN "unmap" ELSE "count")
             /\ UNCHANGED <<end_space, new_space>>
        ELSE /\ Carve(t, IF ns # end_space THEN ns ELSE next_space, to, n, "count")
             /\ end_space' = to
             /\ new_space' = [new_space EXCEPT ![t] = 0]
  /\ UNCHANGED <<mapped, req, panicked>> /\ UNCHANGED zvars

kmem_alloc(t) ==
  /\ pc[t] = "kmem"
  /\ Obtain(t, space_to_add(ElemSize[req[t]]), "space")
  /\ UNCHANGED <<req, addr>> /\ UNCHANGED zvars /\ UNCHANGED svars

kmem_free(t) ==
  /\ pc[t] = "unmap"
  /\ mapped' = mapped \ Span(new_space[t], space_to_add(ElemSize[req[t]]))
  /\ new_space' = [new_space EXCEPT ![t] = 0]
  /\ Goto(t, "count")
  /\ UNCHANGED <<req, addr, panicked>> /\ UNCHANGED zvars /\ UNCHANGED svars

zalloc_count(t) ==
  /\ pc[t] = "count"
  /\ LET z == req[t] IN
       /\ used' = [used EXCEPT ![z] = @ \cup {addr[t]}]
       /\ count' = [count EXCEPT ![z] = @ + 1]
       /\ cur_size' = [cur_size EXCEPT ![z] = @ + ElemSize[z]]
  /\ addr' = [addr EXCEPT ![t] = 0]
  /\ req' = [req EXCEPT ![t] = NoZone]
  /\ Goto(t, "idle")
  /\ UNCHANGED <<free, doing_alloc, mapped, new_space, panicked>> /\ UNCHANGED svars

----------------------------------------------------------------------------
Step(t) ==
  \/ zalloc_woken(t) \/ kmem_alloc_pageable(t) \/ zcram(t) \/ zalloc_crammed(t)
  \/ zget_space(t) \/ kmem_alloc(t) \/ kmem_free(t) \/ zalloc_count(t)

Next ==
  /\ Running
  /\ \E t \in Thread :
       zget(t) \/ zfree(t) \/ zalloc(t) \/ Interrupted(t) \/ Step(t)

Spec == Init /\ [][Next]_vars

----------------------------------------------------------------------------
Labels == {"idle", "wait", "woken", "grow", "cram", "crammed",
           "space", "kmem", "unmap", "count"}

(* The zones, the space and the threads' locals in zalloc and zget_space   *)
(* keep their types; in particular cur_size never becomes negative.        *)
TypeOK ==
  /\ free \in [Zone -> SUBSET Nat] /\ used \in [Zone -> SUBSET Nat]
  /\ count \in [Zone -> Int] /\ cur_size \in [Zone -> Nat]
  /\ doing_alloc \in [Zone -> BOOLEAN]
  /\ next_space \in Nat /\ end_space \in Nat
  /\ mapped \subseteq Nat
  /\ pc \in [Thread -> Labels]
  /\ req \in [Thread -> Zone \cup {NoZone}]
  /\ new_space \in [Thread -> Nat] /\ addr \in [Thread -> Nat]

(* An element carved from the space that zalloc has not counted yet.       *)
Pending(t) == pc[t] \in {"unmap", "count"}

Apart(z, a, y, b) == a + ElemSize[z] <= b \/ b + ElemSize[y] <= a

(* No two elements share memory, whichever zone they belong to and whether *)
(* they are free, in use or on their way to a client, although zget_space  *)
(* drops its lock to get memory and others move the space meanwhile.       *)
ElementsApart ==
  /\ \A z, y \in Zone : \A a \in free[z] \cup used[z], b \in free[y] \cup used[y] :
       <<z, a>> = <<y, b>> \/ Apart(z, a, y, b)
  /\ \A t \in Thread : Pending(t) =>
       /\ \A z \in Zone : \A a \in free[z] \cup used[z] : Apart(z, a, req[t], addr[t])
       /\ \A u \in Thread \ {t} : Pending(u) => Apart(req[u], addr[u], req[t], addr[t])
  /\ \A z \in Zone : free[z] \cap used[z] = {}

(* Every element lies in memory the kernel still has: what kmem_free gives *)
(* back is never what another thread has carved.                           *)
ElementsMapped ==
  /\ \A z \in Zone : \A a \in free[z] \cup used[z] : Span(a, ElemSize[z]) \subseteq mapped
  /\ \A t \in Thread : Pending(t) => Span(addr[t], ElemSize[req[t]]) \subseteq mapped

(* Only one thread at a time grows a pageable zone, and doing_alloc says   *)
(* so; whoever waits for it has someone to wait for.                       *)
Growing(z) == {t \in Thread : req[t] = z /\ pc[t] \in {"grow", "cram", "crammed"}}
OneGrows == Running =>
  \A z \in Zone :
    /\ Cardinality(Growing(z)) = IF doing_alloc[z] THEN 1 ELSE 0
    /\ (\E t \in Thread : pc[t] = "wait" /\ req[t] = z) => doing_alloc[z]

(* max_size is tested before the zone lock is dropped and cur_size raised  *)
(* after it is taken again, so a non-pageable zone may exceed it, but only *)
(* by the elements the other threads were getting at that moment.          *)
OvershootBounded ==
  \A z \in Zone \ Pageable :
    cur_size[z] <= MaxSize[z] + (Cardinality(Thread) - 1) * ElemSize[z]

(* "Wait for it to show up, then try again": zalloc gives up only when the *)
(* zone is empty.                                                          *)
EmptyWhenGivenUp == panicked[1] = "empty" => free[panicked[2]] = {}

----------------------------------------------------------------------------
(* Who owns which part of mapped: the live elements of the zones, the      *)
(* pending elements, the space between next_space and end_space, and the   *)
(* memory threads bring from kmem_alloc.  All of them are apart.           *)
Live(z) == free[z] \cup used[z]

Sep(a, n, b, m) == a + n <= b \/ b + m <= a

HasNew(t) == new_space[t] # 0

NewSize(t) == IF pc[t] = "cram" THEN AllocSize[req[t]] ELSE space_to_add(ElemSize[req[t]])

Places ==
  /\ \A t \in Thread : pc[t] # "idle" => req[t] \in Zone
  /\ \A t \in Thread : HasNew(t) => pc[t] \in {"space", "unmap", "cram"}
  /\ \A t \in Thread : pc[t] \in {"cram", "unmap"} => HasNew(t)
  /\ next_space <= end_space

ElementsClear ==
  /\ \A z, y \in Zone : \A a \in Live(z), b \in Live(y) :
       (z = y /\ a = b) \/ Sep(a, ElemSize[z], b, ElemSize[y])
  /\ \A z \in Zone : \A a \in Live(z) : Span(a, ElemSize[z]) \subseteq mapped
  /\ \A z \in Zone : free[z] \cap used[z] = {}

PendingClear ==
  \A t \in Thread : Pending(t) =>
    /\ Span(addr[t], ElemSize[req[t]]) \subseteq mapped
    /\ \A z \in Zone : \A a \in Live(z) : Sep(a, ElemSize[z], addr[t], ElemSize[req[t]])
    /\ \A u \in Thread : (u # t /\ Pending(u)) =>
         Sep(addr[u], ElemSize[req[u]], addr[t], ElemSize[req[t]])

SpaceClear ==
  next_space < end_space =>
    /\ next_space .. (end_space - 1) \subseteq mapped
    /\ \A z \in Zone : \A a \in Live(z) :
         a + ElemSize[z] <= next_space \/ end_space <= a
    /\ \A t \in Thread : Pending(t) =>
         addr[t] + ElemSize[req[t]] <= next_space \/ end_space <= addr[t]

NewClear ==
  \A t \in Thread : HasNew(t) =>
    /\ Span(new_space[t], NewSize(t)) \subseteq mapped
    /\ \A z \in Zone : \A a \in Live(z) : Sep(a, ElemSize[z], new_space[t], NewSize(t))
    /\ \A u \in Thread : Pending(u) =>
         Sep(addr[u], ElemSize[req[u]], new_space[t], NewSize(t))
    /\ \A u \in Thread : (u # t /\ HasNew(u)) =>
         Sep(new_space[u], NewSize(u), new_space[t], NewSize(t))
    /\ next_space < end_space =>
         end_space <= new_space[t] \/ new_space[t] + NewSize(t) <= next_space

ZoneInv ==
  TypeOK /\ Places /\ ElementsClear /\ PendingClear /\ SpaceClear /\ NewClear
============================================================================

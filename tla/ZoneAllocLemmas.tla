-------------------------- MODULE ZoneAllocLemmas ---------------------------
(***************************************************************************)
(* Facts about the regions of memory that ZoneAlloc deals in; all steps    *)
(* but those of zget_space keep ZoneInv.                                   *)
(***************************************************************************)
EXTENDS ZoneAlloc, TLAPS

\* The provers, in turn, of a leaf that names none.
USE SMTT(30), ZenonT(30), Z3T(30), SMTT(60), Z3T(60), SMTT(90)

\* space_to_add is at least the size zget_space was asked for.
LEMMA SpaceToAdd ==
  ASSUME NEW n \in Nat
  PROVE  space_to_add(n) \in Nat /\ space_to_add(n) >= n /\ space_to_add(n) >= 1
  <1> DEFINE q == (n + PageSize - 1) \div PageSize
             r == (n + PageSize - 1) % PageSize
  <1>1. PageSize \in Nat /\ PageSize >= 1
    BY PageAssumption
  <1>2. q \in Int /\ r \in 0 .. (PageSize - 1) /\ n + PageSize - 1 = PageSize * q + r
    BY <1>1
  <1>3. q * PageSize = PageSize * q
    BY <1>1, <1>2
  <1>4. round_page(n) \in Int /\ round_page(n) >= n
    BY <1>1, <1>2, <1>3 DEF round_page
  <1> QED
    BY <1>1, <1>4 DEF space_to_add

\* The next multiple, in the loop of zcram.
LEMMA NextMultiple ==
  ASSUME NEW i \in Int, NEW s \in Int
  PROVE  (i + 1) * s = i * s + s
  OBVIOUS

\* The elements zcram makes of n units at a lie inside them and are apart.
LEMMA ElementsFit ==
  ASSUME NEW z \in Zone, NEW a \in Nat, NEW n \in Nat
  PROVE  /\ \A e \in Elements(z, a, n) : e \in Nat /\ a <= e /\ e + ElemSize[z] <= a + n
         /\ \A e, f \in Elements(z, a, n) : e = f \/ Sep(e, ElemSize[z], f, ElemSize[z])
  <1> DEFINE s == ElemSize[z]
             q == n \div s
  <1>1. s \in Nat /\ s >= 1
    BY ZoneAssumption
  <1>2. q \in Int /\ s * q <= n /\ q >= 0
    BY <1>1
  <1>3. ASSUME NEW i \in 0 .. (q - 1)
        PROVE  i * s \in Nat /\ i * s + s <= n
    <2>1. (i + 1) * s <= q * s
      BY <1>1, <1>2
    <2>2. (i + 1) * s = i * s + s /\ q * s = s * q
      BY <1>1, <1>2
    <2> QED
      BY <1>1, <1>2, <2>1, <2>2
  <1>4. ASSUME NEW i \in 0 .. (q - 1), NEW j \in 0 .. (q - 1), i < j
        PROVE  i * s + s <= j * s
    <2>1. (i + 1) * s <= j * s
      BY <1>1, <1>2, <1>4
    <2>2. (i + 1) * s = i * s + s
      <3>1. i \in Int /\ s \in Int
        BY <1>1, <1>2
      <3> HIDE DEF s
      <3> QED
        BY <3>1, NextMultiple
    <2> QED
      BY <2>1, <2>2
  <1>5. ASSUME NEW e \in Elements(z, a, n)
        PROVE  e \in Nat /\ a <= e /\ e + s <= a + n
    <2>1. PICK i \in 0 .. (q - 1) : e = a + i * s
      BY DEF Elements
    <2> HIDE DEF q, s
    <2>2. i * s \in Nat /\ i * s + s <= n
      BY <1>3
    <2> QED
      BY <2>1, <2>2, <1>1
  <1>6. ASSUME NEW e \in Elements(z, a, n), NEW f \in Elements(z, a, n), e # f
        PROVE  e + s <= f \/ f + s <= e
    <2>1. PICK i \in 0 .. (q - 1) : e = a + i * s
      BY DEF Elements
    <2>2. PICK j \in 0 .. (q - 1) : f = a + j * s
      BY DEF Elements
    <2> HIDE DEF q, s
    <2>3. i \in Int /\ j \in Int /\ i # j
      BY <2>1, <2>2, <1>6, <1>2
    <2>4. i * s \in Nat /\ j * s \in Nat
      BY <1>3
    <2>5. CASE i < j
      <3>1. i * s + s <= j * s
        BY <2>5, <1>4
      <3> QED
        BY <3>1, <2>1, <2>2, <2>4, <1>1
    <2>6. CASE j < i
      <3>1. j * s + s <= i * s
        BY <2>6, <1>4
      <3> QED
        BY <3>1, <2>1, <2>2, <2>4, <1>1
    <2> QED
      BY <2>3, <2>5, <2>6
  <1> QED
    BY <1>5, <1>6 DEF Sep

\* zone_bootstrap and zinit establish the invariant.
LEMMA InitInv == Init => ZoneInv
  <1> SUFFICES ASSUME Init PROVE ZoneInv
    OBVIOUS
  <1>1. TypeOK
    BY DEF Init, TypeOK, Labels
  <1>2. Places
    BY DEF Init, Places, HasNew
  <1>3. \A z \in Zone : Live(z) = {}
    BY DEF Init, Live
  <1>4. ElementsClear
    BY <1>3 DEF Init, ElementsClear
  <1>5. \A t \in Thread : ~Pending(t) /\ ~HasNew(t)
    BY DEF Init, Pending, HasNew
  <1>6. PendingClear /\ NewClear
    BY <1>5 DEF PendingClear, NewClear
  <1>7. SpaceClear
    BY DEF Init, SpaceClear
  <1> QED
    BY <1>1, <1>2, <1>4, <1>6, <1>7 DEF ZoneInv

\* A step that moves no memory from one owner to another: elements may go
\* from the free list to a client or back, threads may enter and leave zalloc.
LEMMA Frame ==
  ASSUME ZoneInv, TypeOK', Places',
         \A z \in Zone : Live(z)' = Live(z) /\ free'[z] \cap used'[z] = {},
         UNCHANGED <<mapped, next_space, end_space, new_space, addr>>,
         \A t \in Thread : Pending(t)' => Pending(t) /\ req'[t] = req[t],
         \A t \in Thread : HasNew(t) => req'[t] = req[t] /\ (pc'[t] = "cram" <=> pc[t] = "cram")
  PROVE  ZoneInv'
  <1> USE DEF ZoneInv
  <1>1. \A t \in Thread : HasNew(t)' <=> HasNew(t)
    BY DEF HasNew
  <1>2. \A t \in Thread : HasNew(t) => NewSize(t)' = NewSize(t)
    BY DEF NewSize
  <1>3. ElementsClear'
    BY DEF ElementsClear
  <1>4. PendingClear'
    BY DEF PendingClear
  <1>5. SpaceClear'
    BY DEF SpaceClear
  <1>6. NewClear'
    BY <1>1, <1>2 DEF NewClear
  <1> QED
    BY <1>3, <1>4, <1>5, <1>6

\* REMOVE_FROM_ZONE takes an element from the free list to the client.
LEMMA Removal ==
  ASSUME ZoneInv, NEW z \in Zone, RemoveFromZone(z)
  PROVE  /\ free' \in [Zone -> SUBSET Nat] /\ used' \in [Zone -> SUBSET Nat]
         /\ count' \in [Zone -> Int]
         /\ \A y \in Zone : Live(y)' = Live(y) /\ free'[y] \cap used'[y] = {}
  <1> PICK a \in free[z] :
         /\ free' = [free EXCEPT ![z] = @ \ {a}]
         /\ used' = [used EXCEPT ![z] = @ \cup {a}]
         /\ count' = [count EXCEPT ![z] = @ + 1]
    BY ZenonT(30) DEF RemoveFromZone
  <1>1. free \in [Zone -> SUBSET Nat] /\ used \in [Zone -> SUBSET Nat] /\ count \in [Zone -> Int]
    BY DEF ZoneInv, TypeOK
  <1>2. \A y \in Zone : free[y] \cap used[y] = {}
    BY DEF ZoneInv, ElementsClear
  <1>3. a \in Nat
    BY <1>1
  <1>4. \A y \in Zone : Live(y)' = Live(y)
    BY <1>1 DEF Live
  <1>5. \A y \in Zone : free'[y] \cap used'[y] = {}
    BY <1>1, <1>2
  <1> QED
    BY <1>1, <1>3, <1>4, <1>5

\* zget.
LEMMA ZgetStep == ASSUME ZoneInv, NEW t \in Thread, zget(t) PROVE ZoneInv'
  <1> PICK z \in Zone : RemoveFromZone(z)
    BY DEF zget
  <1> USE DEF zget, svars, tvars
  <1>1. TypeOK'
    BY Removal DEF ZoneInv, TypeOK
  <1>2. Places'
    BY DEF ZoneInv, Places, HasNew
  <1>3. \A u \in Thread : Pending(u)' <=> Pending(u)
    BY DEF Pending
  <1> QED
    BY <1>1, <1>2, <1>3, Removal, Frame

\* zfree.
LEMMA ZfreeStep == ASSUME ZoneInv, NEW t \in Thread, zfree(t) PROVE ZoneInv'
  <1> USE DEF svars, tvars
  <1>0. PICK z \in Zone : \E b \in used[z] :
         /\ used' = [used EXCEPT ![z] = @ \ {b}]
         /\ free' = [free EXCEPT ![z] = @ \cup {b}]
         /\ count' = [count EXCEPT ![z] = @ - 1]
    BY ZenonT(30) DEF zfree
  <1>1. PICK a \in used[z] :
         /\ used' = [used EXCEPT ![z] = @ \ {a}]
         /\ free' = [free EXCEPT ![z] = @ \cup {a}]
         /\ count' = [count EXCEPT ![z] = @ - 1]
    BY <1>0, ZenonT(30)
  <1>2. free \in [Zone -> SUBSET Nat] /\ used \in [Zone -> SUBSET Nat] /\ count \in [Zone -> Int]
    BY DEF ZoneInv, TypeOK
  <1>3. \A y \in Zone : free[y] \cap used[y] = {}
    BY DEF ZoneInv, ElementsClear
  <1>4. a \in Nat
    BY <1>2
  <1>5. free' \in [Zone -> SUBSET Nat] /\ used' \in [Zone -> SUBSET Nat] /\ count' \in [Zone -> Int]
    BY <1>1, <1>2, <1>4
  <1>6. \A y \in Zone : Live(y)' = Live(y) /\ free'[y] \cap used'[y] = {}
    BY <1>1, <1>2, <1>3 DEF Live
  <1>7. TypeOK'
    BY <1>5 DEF zfree, ZoneInv, TypeOK
  <1>8. Places'
    BY DEF zfree, ZoneInv, Places, HasNew
  <1>9. \A u \in Thread : Pending(u)' <=> Pending(u)
    BY DEF zfree, Pending
  <1> QED
    BY <1>6, <1>7, <1>8, <1>9, Frame DEF zfree

\* The loop of zalloc, up to where it gives up the zone lock.
LEMMA ExpandFacts ==
  ASSUME NEW t \in Thread, NEW z \in Zone, NEW p \in [Thread -> Labels],
         NEW doing \in [Zone -> BOOLEAN], req \in [Thread -> Zone \cup {NoZone}],
         p[t] # "idle" => req[t] \in Zone, Expand(t, z, p, doing)
  PROVE  /\ pc' \in [Thread -> Labels] /\ req' \in [Thread -> Zone \cup {NoZone}]
         /\ doing_alloc' \in [Zone -> BOOLEAN]
         /\ \A u \in Thread \ {t} : pc'[u] = p[u] /\ req'[u] = req[u]
         /\ pc'[t] \in {"wait", "idle", "grow", "space", p[t]}
         /\ pc'[t] # "idle" => req'[t] \in Zone
  <1> USE DEF Labels
  <1>1. CASE doing[z] /\ pc' = [p EXCEPT ![t] = "wait"] /\ req' = [req EXCEPT ![t] = z]
               /\ doing_alloc' = doing
    BY <1>1
  <1>2. CASE pc' = [p EXCEPT ![t] = "idle"] /\ req' = [req EXCEPT ![t] = NoZone]
               /\ doing_alloc' = doing
    BY <1>2
  <1>3. CASE doing_alloc' = doing /\ pc' = p /\ UNCHANGED req
    BY <1>3
  <1>4. CASE /\ pc' = [p EXCEPT ![t] = IF z \in Pageable THEN "grow" ELSE "space"]
             /\ req' = [req EXCEPT ![t] = z]
             /\ doing_alloc' = [doing EXCEPT ![z] = z \in Pageable]
    <2>1. (z \in Pageable) \in BOOLEAN
      OBVIOUS
    <2>2. doing_alloc' \in [Zone -> BOOLEAN]
      BY <1>4, <2>1
    <2> QED
      BY <1>4, <2>2
  <1> QED
    BY <1>1, <1>2, <1>3, <1>4 DEF Expand

\* zalloc's first hold of the zone lock.
LEMMA ZallocStep == ASSUME ZoneInv, NEW t \in Thread, zalloc(t) PROVE ZoneInv'
  <1> USE DEF svars
  <1>0. PICK z \in Zone :
         \/ RemoveFromZone(z) /\ UNCHANGED <<doing_alloc, pc, req, panicked>>
         \/ free[z] = {} /\ Expand(t, z, pc, doing_alloc) /\ UNCHANGED <<free, used, count>>
    BY DEF zalloc
  <1>1. CASE RemoveFromZone(z) /\ UNCHANGED <<doing_alloc, pc, req, panicked>>
    <2>1. TypeOK'
      BY <1>1, Removal DEF zalloc, ZoneInv, TypeOK
    <2>2. Places'
      BY <1>1 DEF zalloc, ZoneInv, Places, HasNew
    <2>3. \A u \in Thread : Pending(u)' <=> Pending(u)
      BY <1>1 DEF Pending
    <2> QED
      BY <1>1, <2>1, <2>2, <2>3, Removal, Frame DEF zalloc
  <1>2. CASE Expand(t, z, pc, doing_alloc) /\ UNCHANGED <<free, used, count>>
    <2>1. /\ pc \in [Thread -> Labels] /\ doing_alloc \in [Zone -> BOOLEAN]
          /\ req \in [Thread -> Zone \cup {NoZone}] /\ pc[t] = "idle"
      BY DEF ZoneInv, TypeOK, zalloc
    <2>2. /\ pc' \in [Thread -> Labels] /\ req' \in [Thread -> Zone \cup {NoZone}]
          /\ doing_alloc' \in [Zone -> BOOLEAN]
          /\ \A u \in Thread \ {t} : pc'[u] = pc[u] /\ req'[u] = req[u]
          /\ pc'[t] \in {"wait", "idle", "grow", "space"}
          /\ pc'[t] # "idle" => req'[t] \in Zone
      BY <1>2, <2>1, ExpandFacts
    <2>3. ~HasNew(t)
      BY <2>1 DEF ZoneInv, Places
    <2>4. TypeOK'
      BY <1>2, <2>2 DEF zalloc, ZoneInv, TypeOK
    <2>5. Places'
      BY <1>2, <2>2, <2>3 DEF zalloc, ZoneInv, Places, HasNew
    <2>6. \A u \in Thread : Pending(u)' => Pending(u) /\ req'[u] = req[u]
      BY <2>2 DEF Pending
    <2>7. \A y \in Zone : Live(y)' = Live(y) /\ free'[y] \cap used'[y] = {}
      BY <1>2 DEF Live, ZoneInv, ElementsClear
    <2> QED
      BY <2>2, <2>3, <2>4, <2>5, <2>6, <2>7, Frame DEF zalloc
  <1> QED
    BY <1>0, <1>1, <1>2

\* A woken waiter goes round the loop again.
LEMMA WokenStep == ASSUME ZoneInv, NEW t \in Thread, zalloc_woken(t) PROVE ZoneInv'
  <1> USE DEF svars
  <1>1. /\ pc \in [Thread -> Labels] /\ doing_alloc \in [Zone -> BOOLEAN]
        /\ req \in [Thread -> Zone \cup {NoZone}] /\ pc[t] = "woken" /\ req[t] \in Zone
    BY DEF ZoneInv, TypeOK, Places, zalloc_woken
  <1>2. /\ pc' \in [Thread -> Labels] /\ req' \in [Thread -> Zone \cup {NoZone}]
        /\ doing_alloc' \in [Zone -> BOOLEAN]
        /\ \A u \in Thread \ {t} : pc'[u] = pc[u] /\ req'[u] = req[u]
        /\ pc'[t] \in {"wait", "idle", "grow", "space", "woken"}
        /\ pc'[t] # "idle" => req'[t] \in Zone
    <2>1. Expand(t, req[t], pc, doing_alloc)
      BY DEF zalloc_woken
    <2> QED
      BY <2>1, <1>1, ExpandFacts
  <1>3. ~HasNew(t)
    BY <1>1 DEF ZoneInv, Places
  <1>4. TypeOK'
    BY <1>2 DEF zalloc_woken, ZoneInv, TypeOK
  <1>5. Places'
    BY <1>2, <1>3 DEF zalloc_woken, ZoneInv, Places, HasNew
  <1>6. \A u \in Thread : Pending(u)' => Pending(u) /\ req'[u] = req[u]
    BY <1>2 DEF Pending
  <1>7. \A y \in Zone : Live(y)' = Live(y) /\ free'[y] \cap used'[y] = {}
    BY DEF zalloc_woken, Live, ZoneInv, ElementsClear
  <1> QED
    BY <1>2, <1>3, <1>4, <1>5, <1>6, <1>7, Frame DEF zalloc_woken

\* clear_wait reaches a thread that waits for the zone to grow.
LEMMA InterruptedStep == ASSUME ZoneInv, NEW t \in Thread, Interrupted(t) PROVE ZoneInv'
  <1> USE DEF Interrupted, Goto, zvars, svars, tvars
  <1>1. pc \in [Thread -> Labels]
    BY DEF ZoneInv, TypeOK
  <1>2. TypeOK'
    BY <1>1 DEF ZoneInv, TypeOK, Labels
  <1>3. Places'
    BY <1>1 DEF ZoneInv, Places, HasNew
  <1>4. \A u \in Thread : Pending(u)' => Pending(u)
    BY <1>1 DEF Pending
  <1>5. \A u \in Thread : pc'[u] = "cram" <=> pc[u] = "cram"
    BY <1>1
  <1>6. \A y \in Zone : Live(y)' = Live(y) /\ free'[y] \cap used'[y] = {}
    BY DEF Live, ZoneInv, ElementsClear
  <1> QED
    BY <1>2, <1>3, <1>4, <1>5, <1>6, Frame

\* Memory kmem_alloc finds free is apart from memory that is mapped.
LEMMA Outside ==
  ASSUME NEW a \in Nat, NEW n \in Nat, NEW b \in Nat, NEW m \in Nat, n >= 1, m >= 1,
         Span(b, m) \subseteq mapped, Span(a, n) \cap mapped = {}
  PROVE  Sep(b, m, a, n) /\ Sep(a, n, b, m)
  <1> SUFFICES ASSUME a < b + m, b < a + n PROVE FALSE
    BY DEF Sep
  <1>1. CASE a <= b
    <2>1. b \in Span(a, n) /\ b \in Span(b, m)
      BY <1>1 DEF Span
    <2> QED
      BY <2>1
  <1>2. CASE b < a
    <2>1. a \in Span(a, n) /\ a \in Span(b, m)
      BY <1>2 DEF Span
    <2> QED
      BY <2>1
  <1> QED
    BY <1>1, <1>2

\* The address of a page is positive.
LEMMA PageAddress ==
  ASSUME NEW k \in Nat, k >= 1
  PROVE  k * PageSize \in Nat /\ k * PageSize >= 1
  <1>1. PageSize \in Nat /\ PageSize >= 1
    BY PageAssumption
  <1> QED
    BY <1>1

\* The sizes of a thread's new memory.
LEMMA NewSizes ==
  ASSUME ZoneInv, NEW t \in Thread, HasNew(t)
  PROVE  /\ req[t] \in Zone /\ NewSize(t) \in Nat /\ NewSize(t) >= 1
         /\ new_space[t] \in Nat /\ new_space[t] >= 1
         /\ pc[t] # "cram" => NewSize(t) = space_to_add(ElemSize[req[t]])
                               /\ NewSize(t) >= ElemSize[req[t]]
  <1>1. req[t] \in Zone
    BY DEF ZoneInv, Places
  <1>2. AllocSize[req[t]] \in Nat \ {0} /\ ElemSize[req[t]] \in Nat \ {0}
    BY <1>1, ZoneAssumption
  <1>3. /\ space_to_add(ElemSize[req[t]]) \in Nat /\ space_to_add(ElemSize[req[t]]) >= 1
        /\ space_to_add(ElemSize[req[t]]) >= ElemSize[req[t]]
    BY <1>2, SpaceToAdd
  <1>4. new_space[t] \in Nat /\ new_space[t] >= 1
    BY DEF ZoneInv, TypeOK, HasNew
  <1> QED
    BY <1>1, <1>2, <1>3, <1>4 DEF NewSize

\* What is apart from a region is apart from every part of it.
LEMMA Inside ==
  ASSUME NEW a \in Nat, NEW n \in Nat, NEW b \in Nat, NEW m \in Nat, NEW c \in Nat, NEW k \in Nat,
         Sep(a, n, b, m), b <= c, c + k <= b + m
  PROVE  Sep(a, n, c, k) /\ Sep(c, k, a, n)
  BY DEF Sep

\* Regions that are apart share no address.
LEMMA SepDisjoint ==
  ASSUME NEW a \in Nat, NEW n \in Nat, NEW b \in Nat, NEW m \in Nat, Sep(a, n, b, m)
  PROVE  Span(a, n) \cap Span(b, m) = {}
  BY DEF Sep, Span

\* The types of the regions that ZoneInv is about.
LEMMA RegionTypes ==
  ASSUME ZoneInv
  PROVE  /\ \A z \in Zone : Live(z) \subseteq Nat /\ ElemSize[z] \in Nat /\ ElemSize[z] >= 1
         /\ \A t \in Thread : Pending(t) => addr[t] \in Nat /\ req[t] \in Zone
         /\ next_space \in Nat /\ end_space \in Nat /\ next_space <= end_space
  BY ZoneAssumption DEF ZoneInv, TypeOK, Places, Live, Pending

----------------------------------------------------------------------------
(* The steps that get memory from kmem_alloc, and the one after zcram.     *)

\* A thread gets memory from zone_map: it is apart from all that is owned.
LEMMA ObtainStep ==
  ASSUME ZoneInv, NEW t \in Thread, NEW n \in Nat, n >= 1, NEW label \in {"cram", "space"},
         pc[t] \in {"grow", "kmem"}, Obtain(t, n, label),
         n = IF label = "cram" THEN AllocSize[req[t]] ELSE space_to_add(ElemSize[req[t]]),
         UNCHANGED <<req, addr>>, UNCHANGED zvars, UNCHANGED svars
  PROVE  ZoneInv'
  <1> USE DEF zvars, svars
  <1>0. /\ pc \in [Thread -> Labels] /\ new_space \in [Thread -> Nat] /\ mapped \subseteq Nat
        /\ addr \in [Thread -> Nat] /\ free \in [Zone -> SUBSET Nat] /\ used \in [Zone -> SUBSET Nat]
        /\ next_space \in Nat /\ end_space \in Nat /\ req[t] \in Zone /\ ~HasNew(t)
    BY DEF ZoneInv, TypeOK, Places
  <1>a. \A z \in Zone : Live(z)' = Live(z) /\ Live(z) \subseteq Nat /\ ElemSize[z] \in Nat /\ ElemSize[z] >= 1
    BY <1>0, ZoneAssumption DEF Live
  <1>b. \A z \in Zone : free'[z] \cap used'[z] = {}
    BY DEF ZoneInv, ElementsClear
  <1>1. CASE UNCHANGED <<mapped, new_space, pc>>
    <2>1. TypeOK' /\ Places'
      BY <1>1 DEF ZoneInv, TypeOK, Places, HasNew
    <2>2. \A u \in Thread : Pending(u)' <=> Pending(u)
      BY <1>1 DEF Pending
    <2> QED
      BY <1>1, <1>a, <1>b, <2>1, <2>2, Frame
  <1>2. ASSUME NEW a \in Room(n), mapped' = mapped \cup Span(a, n),
               new_space' = [new_space EXCEPT ![t] = a], Goto(t, label)
        PROVE  ZoneInv'
    <2>1. a \in Nat /\ a >= 1 /\ Span(a, n) \cap mapped = {}
      <3>1. PICK k \in 1 .. Pages : a = k * PageSize /\ Span(k * PageSize, n) \cap mapped = {}
        BY <1>2 DEF Room
      <3>2. k \in Nat /\ k >= 1
        BY PageAssumption
      <3> QED
        BY <3>1, <3>2, PageAddress
    <2>2. Span(a, n) \subseteq Nat
      BY <2>1 DEF Span
    <2>3. /\ pc'[t] = label /\ new_space'[t] = a
          /\ \A u \in Thread \ {t} : pc'[u] = pc[u] /\ new_space'[u] = new_space[u]
      BY <1>0, <1>2 DEF Goto
    <2>4. TypeOK'
      BY <1>0, <1>2, <2>1, <2>2, ZenonT(30) DEF ZoneInv, TypeOK, Goto, Labels
    <2>5. Places'
      BY <1>0, <2>1, <2>3 DEF ZoneInv, Places, HasNew
    <2>6. \A u \in Thread : Pending(u)' <=> Pending(u)
      BY <2>3 DEF Pending
    <2>7. ElementsClear'
      BY <1>a, <1>b, <1>2, ZenonT(30) DEF ZoneInv, ElementsClear
    <2>8. PendingClear'
      BY <1>a, <1>2, <2>6 DEF ZoneInv, PendingClear
    <2>9. SpaceClear'
      BY <1>a, <1>2, <2>6 DEF ZoneInv, SpaceClear
    <2>10. \A u \in Thread \ {t} : (HasNew(u)' <=> HasNew(u)) /\ NewSize(u)' = NewSize(u)
      BY <2>3 DEF HasNew, NewSize
    <2>11. HasNew(t)' /\ NewSize(t)' = n
      BY <2>1, <2>3 DEF HasNew, NewSize
    <2>12. \A z \in Zone : \A b \in Live(z) : Sep(b, ElemSize[z], a, n)
      BY <1>a, <2>1, Outside DEF ZoneInv, ElementsClear
    <2>13. \A u \in Thread : Pending(u) => Sep(addr[u], ElemSize[req[u]], a, n)
      <3> SUFFICES ASSUME NEW u \in Thread, Pending(u) PROVE Sep(addr[u], ElemSize[req[u]], a, n)
        OBVIOUS
      <3>1. req[u] \in Zone /\ addr[u] \in Nat
        BY <1>0 DEF ZoneInv, Places, Pending
      <3>2. Span(addr[u], ElemSize[req[u]]) \subseteq mapped
        BY DEF ZoneInv, PendingClear
      <3> QED
        BY <3>1, <3>2, <1>a, <2>1, Outside
    <2>14. \A u \in Thread : HasNew(u) => Sep(new_space[u], NewSize(u), a, n) /\ Sep(a, n, new_space[u], NewSize(u))
      <3> SUFFICES ASSUME NEW u \in Thread, HasNew(u)
                   PROVE  Sep(new_space[u], NewSize(u), a, n) /\ Sep(a, n, new_space[u], NewSize(u))
        OBVIOUS
      <3>1. Span(new_space[u], NewSize(u)) \subseteq mapped
        BY DEF ZoneInv, NewClear
      <3> QED
        BY <3>1, NewSizes, <2>1, Outside
    <2>15. next_space < end_space => end_space <= a \/ a + n <= next_space
      <3> SUFFICES ASSUME next_space < end_space PROVE end_space <= a \/ a + n <= next_space
        OBVIOUS
      <3>1. Span(next_space, end_space - next_space) \subseteq mapped
        BY <1>0 DEF ZoneInv, SpaceClear, Span
      <3>2. end_space - next_space \in Nat /\ end_space - next_space >= 1
        BY <1>0
      <3>3. Sep(next_space, end_space - next_space, a, n)
        BY <3>1, <3>2, <1>0, <2>1, Outside
      <3> QED
        BY <3>3, <1>0, <2>1 DEF Sep
    <2>16. NewClear'
      <3> SUFFICES ASSUME NEW u \in Thread, HasNew(u)'
                   PROVE  /\ Span(new_space'[u], NewSize(u)') \subseteq mapped'
                          /\ \A z \in Zone : \A b \in Live(z) : Sep(b, ElemSize[z], new_space'[u], NewSize(u)')
                          /\ \A v \in Thread : Pending(v) =>
                               Sep(addr[v], ElemSize[req[v]], new_space'[u], NewSize(u)')
                          /\ \A v \in Thread : (v # u /\ HasNew(v)') =>
                               Sep(new_space'[v], NewSize(v)', new_space'[u], NewSize(u)')
                          /\ next_space < end_space =>
                               end_space <= new_space'[u] \/ new_space'[u] + NewSize(u)' <= next_space
        BY <1>a, <2>6, ZenonT(30) DEF NewClear
      <3>1. CASE u = t
        BY <3>1, <1>2, <2>3, <2>10, <2>11, <2>12, <2>13, <2>14, <2>15, ZenonT(30)
      <3>2. CASE u # t
        <4>1. HasNew(u) /\ NewSize(u)' = NewSize(u) /\ new_space'[u] = new_space[u]
          BY <3>2, <2>3, <2>10, ZenonT(30)
        <4>2. \A v \in Thread : (v # u /\ HasNew(v)') =>
                 Sep(new_space'[v], NewSize(v)', new_space[u], NewSize(u))
          BY <4>1, <2>3, <2>10, <2>11, <2>14, ZenonT(30) DEF ZoneInv, NewClear
        <4> QED
          BY <4>1, <4>2, <1>2, ZenonT(30) DEF ZoneInv, NewClear
      <3> QED
        BY <3>1, <3>2, ZenonT(30)
    <2> QED
      BY <2>4, <2>5, <2>7, <2>8, <2>9, <2>16 DEF ZoneInv
  <1> QED
    BY <1>1, <1>2 DEF Obtain

\* kmem_alloc_pageable in zalloc, and kmem_alloc in zget_space.
LEMMA KmemStep ==
  ASSUME ZoneInv, NEW t \in Thread, kmem_alloc_pageable(t) \/ kmem_alloc(t)
  PROVE  ZoneInv'
  <1>1. CASE kmem_alloc_pageable(t)
    <2>1. pc[t] = "grow" /\ req[t] \in Zone
      BY <1>1 DEF kmem_alloc_pageable, ZoneInv, Places
    <2>2. AllocSize[req[t]] \in Nat /\ AllocSize[req[t]] >= 1
      BY <2>1, ZoneAssumption
    <2>3. /\ Obtain(t, AllocSize[req[t]], "cram")
          /\ UNCHANGED <<req, addr>> /\ UNCHANGED zvars /\ UNCHANGED svars
      BY <1>1 DEF kmem_alloc_pageable
    <2> QED
      BY <2>1, <2>2, <2>3, ObtainStep
  <1>2. CASE kmem_alloc(t)
    <2>1. pc[t] = "kmem" /\ req[t] \in Zone
      BY <1>2 DEF kmem_alloc, ZoneInv, Places
    <2>2. ElemSize[req[t]] \in Nat
      BY <2>1, ZoneAssumption
    <2>3. space_to_add(ElemSize[req[t]]) \in Nat /\ space_to_add(ElemSize[req[t]]) >= 1
      BY <2>2, SpaceToAdd
    <2>4. /\ Obtain(t, space_to_add(ElemSize[req[t]]), "space")
          /\ UNCHANGED <<req, addr>> /\ UNCHANGED zvars /\ UNCHANGED svars
      BY <1>2 DEF kmem_alloc
    <2> QED
      BY <2>1, <2>3, <2>4, ObtainStep
  <1> QED
    BY <1>1, <1>2

\* zalloc after zcram: the waiters are woken and the zone tried again.
LEMMA CrammedStep == ASSUME ZoneInv, NEW t \in Thread, zalloc_crammed(t) PROVE ZoneInv'
  <1> DEFINE z == req[t]
             done == [doing_alloc EXCEPT ![z] = FALSE]
             woken == [u \in Thread |-> IF pc[u] = "wait" /\ req[u] = z THEN "woken" ELSE pc[u]]
  <1> USE DEF svars
  <1>1. /\ pc \in [Thread -> Labels] /\ doing_alloc \in [Zone -> BOOLEAN] /\ pc[t] = "crammed"
        /\ req \in [Thread -> Zone \cup {NoZone}] /\ z \in Zone /\ ~HasNew(t)
        /\ UNCHANGED <<cur_size, mapped, new_space, addr, next_space, end_space>>
    BY DEF zalloc_crammed, ZoneInv, TypeOK, Places
  <1>2. /\ woken \in [Thread -> Labels] /\ done \in [Zone -> BOOLEAN] /\ woken[t] = "crammed"
        /\ \A u \in Thread : woken[u] = pc[u] \/ (pc[u] = "wait" /\ woken[u] = "woken")
    BY <1>1 DEF Labels
  <1>3. \/ /\ RemoveFromZone(z)
           /\ pc' = [woken EXCEPT ![t] = "idle"]
           /\ req' = [req EXCEPT ![t] = NoZone]
           /\ doing_alloc' = done
        \/ /\ Expand(t, z, woken, done)
           /\ UNCHANGED <<free, used, count>>
    BY ZenonT(30) DEF zalloc_crammed
  <1> HIDE DEF z, done, woken
  <1>4. /\ pc' \in [Thread -> Labels] /\ req' \in [Thread -> Zone \cup {NoZone}]
        /\ doing_alloc' \in [Zone -> BOOLEAN]
        /\ \A u \in Thread \ {t} : pc'[u] = woken[u] /\ req'[u] = req[u]
        /\ pc'[t] \in {"wait", "idle", "grow", "space", "crammed"}
        /\ pc'[t] # "idle" => req'[t] \in Zone
    <2>1. CASE RemoveFromZone(z) /\ pc' = [woken EXCEPT ![t] = "idle"]
                 /\ req' = [req EXCEPT ![t] = NoZone] /\ doing_alloc' = done
      BY <2>1, <1>1, <1>2 DEF Labels
    <2>2. CASE Expand(t, z, woken, done)
      <3>1. woken[t] # "idle" => req[t] \in Zone
        BY <1>1 DEF z
      <3> QED
        BY <2>2, <3>1, <1>1, <1>2, ExpandFacts
    <2> QED
      BY <1>3, <2>1, <2>2
  <1>5. /\ free' \in [Zone -> SUBSET Nat] /\ used' \in [Zone -> SUBSET Nat] /\ count' \in [Zone -> Int]
        /\ \A y \in Zone : Live(y)' = Live(y) /\ free'[y] \cap used'[y] = {}
    <2>1. CASE RemoveFromZone(z)
      BY <2>1, <1>1, Removal
    <2>2. CASE UNCHANGED <<free, used, count>>
      BY <2>2 DEF Live, ZoneInv, TypeOK, ElementsClear
    <2> QED
      BY <1>3, <2>1, <2>2
  <1>6. TypeOK'
    BY <1>1, <1>4, <1>5 DEF ZoneInv, TypeOK
  <1>7. Places'
    BY <1>1, <1>2, <1>4 DEF ZoneInv, Places, HasNew
  <1>8. \A u \in Thread : Pending(u)' => Pending(u) /\ req'[u] = req[u]
    BY <1>2, <1>4 DEF Pending
  <1>9. \A u \in Thread : HasNew(u) => req'[u] = req[u] /\ (pc'[u] = "cram" <=> pc[u] = "cram")
    BY <1>1, <1>2, <1>4
  <1> QED
    BY <1>1, <1>5, <1>6, <1>7, <1>8, <1>9, Frame

\* zget_space gives back memory it did not need.
LEMMA KmemFreeStep == ASSUME ZoneInv, NEW t \in Thread, kmem_free(t) PROVE ZoneInv'
  <1> USE DEF zvars, svars, Goto
  <1> DEFINE ns == new_space[t]
             n == space_to_add(ElemSize[req[t]])
             gone == Span(ns, n)
  <1>1. /\ pc \in [Thread -> Labels] /\ new_space \in [Thread -> Nat] /\ mapped \subseteq Nat
        /\ req[t] \in Zone /\ pc[t] = "unmap"
    BY DEF kmem_free, ZoneInv, TypeOK, Places
  <1>2. /\ pc' = [pc EXCEPT ![t] = "count"] /\ new_space' = [new_space EXCEPT ![t] = 0]
        /\ mapped' = mapped \ gone
        /\ UNCHANGED <<req, addr, free, used, count, cur_size, doing_alloc, next_space, end_space>>
    BY DEF kmem_free
  <1>3. ns \in Nat /\ n \in Nat
    <2>1. ElemSize[req[t]] \in Nat
      BY <1>1, ZoneAssumption
    <2> QED
      BY <1>1, <2>1, SpaceToAdd
  <1>4. TypeOK'
    BY <1>1, <1>2, ZenonT(30) DEF ZoneInv, TypeOK, Labels
  <1>5. Places'
    BY <1>1, <1>2 DEF ZoneInv, Places, HasNew
  <1>6. /\ \A z \in Zone : Live(z)' = Live(z)
        /\ \A u \in Thread : Pending(u)' <=> Pending(u)
        /\ \A u \in Thread : HasNew(u)' => u # t /\ HasNew(u) /\ NewSize(u)' = NewSize(u)
                                           /\ new_space'[u] = new_space[u]
    BY <1>1, <1>2 DEF Live, Pending, HasNew, NewSize
  <1>7. HasNew(t) /\ NewSize(t) = n
    BY <1>1 DEF NewSize, ZoneInv, Places
  <1>8. ASSUME NEW a \in Nat, NEW k \in Nat, Sep(a, k, ns, n), Span(a, k) \subseteq mapped
        PROVE  Span(a, k) \subseteq mapped'
    BY <1>2, <1>3, <1>8, SepDisjoint
  <1>9. /\ \A z \in Zone : \A a \in Live(z) : Sep(a, ElemSize[z], ns, n)
        /\ \A u \in Thread : Pending(u) => Sep(addr[u], ElemSize[req[u]], ns, n)
        /\ \A u \in Thread : (u # t /\ HasNew(u)) => Sep(new_space[u], NewSize(u), ns, n)
        /\ next_space < end_space => end_space <= ns \/ ns + n <= next_space
    BY <1>7 DEF ZoneInv, NewClear
  <1> HIDE DEF ns, n, gone
  <1>10. ElementsClear'
    <2>1. \A z \in Zone : \A a \in Live(z) : Span(a, ElemSize[z]) \subseteq mapped'
      BY <1>8, <1>9, RegionTypes DEF ZoneInv, ElementsClear
    <2> QED
      BY <1>2, <1>6, <2>1 DEF ZoneInv, ElementsClear
  <1>11. PendingClear'
    <2>1. \A u \in Thread : Pending(u) => Span(addr[u], ElemSize[req[u]]) \subseteq mapped'
      BY <1>8, <1>9, RegionTypes, ZenonT(30) DEF ZoneInv, PendingClear
    <2> QED
      BY <1>2, <1>6, <2>1, ZenonT(30) DEF ZoneInv, PendingClear
  <1>12. SpaceClear'
    <2>1. next_space < end_space => next_space .. (end_space - 1) \subseteq mapped'
      BY <1>2, <1>3, <1>9, RegionTypes DEF ZoneInv, SpaceClear, gone, Span
    <2> QED
      BY <1>2, <1>6, <2>1, ZenonT(30) DEF ZoneInv, SpaceClear
  <1>13. NewClear'
    <2>1. \A u \in Thread \ {t} : HasNew(u) => Span(new_space[u], NewSize(u)) \subseteq mapped'
      <3> SUFFICES ASSUME NEW u \in Thread \ {t}, HasNew(u)
                   PROVE  Span(new_space[u], NewSize(u)) \subseteq mapped'
        OBVIOUS
      <3>1. new_space[u] \in Nat /\ NewSize(u) \in Nat
        BY NewSizes
      <3>2. Span(new_space[u], NewSize(u)) \subseteq mapped
        BY DEF ZoneInv, NewClear
      <3> QED
        BY <1>8, <1>9, <3>1, <3>2, ZenonT(30)
    <2> QED
      BY <1>2, <1>6, <2>1, ZenonT(30) DEF ZoneInv, NewClear
  <1> QED
    BY <1>4, <1>5, <1>10, <1>11, <1>12, <1>13 DEF ZoneInv

\* zalloc counts the element it got from zget_space and returns it.
LEMMA CountStep == ASSUME ZoneInv, NEW t \in Thread, zalloc_count(t) PROVE ZoneInv'
  <1> USE DEF svars, Goto
  <1>0. PICK z \in Zone, e \in Nat : z = req[t] /\ e = addr[t]
    BY DEF zalloc_count, ZoneInv, TypeOK, Places
  <1>1. /\ pc[t] = "count" /\ Pending(t) /\ z \in Zone /\ e \in Nat
        /\ pc \in [Thread -> Labels] /\ addr \in [Thread -> Nat]
        /\ free \in [Zone -> SUBSET Nat] /\ used \in [Zone -> SUBSET Nat]
        /\ count \in [Zone -> Int] /\ cur_size \in [Zone -> Nat]
        /\ req \in [Thread -> Zone \cup {NoZone}]
    BY <1>0 DEF zalloc_count, ZoneInv, TypeOK, Places, Pending
  <1>2. ElemSize[z] \in Nat /\ ElemSize[z] >= 1
    BY <1>1, ZoneAssumption
  <1>3. /\ used' = [used EXCEPT ![z] = @ \cup {e}]
        /\ count' = [count EXCEPT ![z] = @ + 1]
        /\ cur_size' = [cur_size EXCEPT ![z] = @ + ElemSize[z]]
        /\ addr' = [addr EXCEPT ![t] = 0] /\ req' = [req EXCEPT ![t] = NoZone]
        /\ pc' = [pc EXCEPT ![t] = "idle"]
        /\ UNCHANGED <<free, doing_alloc, mapped, new_space, next_space, end_space>>
    BY <1>0 DEF zalloc_count
  <1>4. ~HasNew(t)
    BY <1>1 DEF ZoneInv, Places
  <1>5. TypeOK'
    BY <1>1, <1>2, <1>3 DEF ZoneInv, TypeOK, Labels
  <1>6. Places'
    BY <1>1, <1>3, <1>4 DEF ZoneInv, Places, HasNew
  <1>7. /\ Live(z)' = Live(z) \cup {e}
        /\ \A y \in Zone \ {z} : Live(y)' = Live(y)
    BY <1>1, <1>3 DEF Live
  <1>8. /\ \A u \in Thread : Pending(u)' => u # t /\ Pending(u) /\ req'[u] = req[u] /\ addr'[u] = addr[u]
        /\ \A u \in Thread : HasNew(u)' => u # t /\ HasNew(u) /\ NewSize(u)' = NewSize(u)
    BY <1>1, <1>3, <1>4 DEF Pending, HasNew, NewSize
  <1>9. /\ Span(e, ElemSize[z]) \subseteq mapped
        /\ \A y \in Zone : \A a \in Live(y) : Sep(a, ElemSize[y], e, ElemSize[z]) /\ Sep(e, ElemSize[z], a, ElemSize[y])
        /\ \A u \in Thread : (u # t /\ Pending(u)) =>
              Sep(addr[u], ElemSize[req[u]], e, ElemSize[z]) /\ Sep(e, ElemSize[z], addr[u], ElemSize[req[u]])
    BY <1>0, <1>1 DEF ZoneInv, PendingClear, Sep
  <1>10. e \notin Live(z)
    BY <1>1, <1>2, <1>9 DEF Sep
  <1>11. ElementsClear'
    <2>1. \A y \in Zone : free'[y] \cap used'[y] = {}
      <3>1. \A y \in Zone : free[y] \cap used[y] = {}
        BY ZenonT(30) DEF ZoneInv, ElementsClear
      <3>2. e \notin free[z]
        BY <1>10, ZenonT(30) DEF Live
      <3> QED
        BY <1>1, <1>3, <3>1, <3>2, ZenonT(30)
    <2>2. \A x, y \in Zone : \A a \in Live(x)', b \in Live(y)' :
             (x = y /\ a = b) \/ Sep(a, ElemSize[x], b, ElemSize[y])
      <3> SUFFICES ASSUME NEW x \in Zone, NEW y \in Zone, NEW a \in Live(x)', NEW b \in Live(y)'
                   PROVE  (x = y /\ a = b) \/ Sep(a, ElemSize[x], b, ElemSize[y])
        OBVIOUS
      <3>1. (a \in Live(x) \/ (x = z /\ a = e)) /\ (b \in Live(y) \/ (y = z /\ b = e))
        BY <1>7
      <3>2. CASE a \in Live(x) /\ b \in Live(y)
        BY <3>2 DEF ZoneInv, ElementsClear
      <3>3. CASE (x = z /\ a = e) \/ (y = z /\ b = e)
        BY <1>9, <3>1, <3>3
      <3> QED
        BY <3>1, <3>2, <3>3
    <2>3. \A y \in Zone : \A a \in Live(y)' : Span(a, ElemSize[y]) \subseteq mapped'
      BY <1>3, <1>7, <1>9 DEF ZoneInv, ElementsClear
    <2> QED
      BY <2>1, <2>2, <2>3, ZenonT(30) DEF ElementsClear
  <1>12. PendingClear'
    BY <1>3, <1>7, <1>8, <1>9 DEF ZoneInv, PendingClear
  <1>13. SpaceClear'
    <2>1. next_space < end_space => e + ElemSize[z] <= next_space \/ end_space <= e
      BY <1>0, <1>1 DEF ZoneInv, SpaceClear
    <2> QED
      BY <1>3, <1>7, <1>8, <2>1 DEF ZoneInv, SpaceClear
  <1>14. NewClear'
    <2>1. \A u \in Thread : HasNew(u) => Sep(e, ElemSize[z], new_space[u], NewSize(u))
      BY <1>0, <1>1 DEF ZoneInv, NewClear
    <2> QED
      BY <1>3, <1>7, <1>8, <2>1 DEF ZoneInv, NewClear
  <1> QED
    BY <1>5, <1>6, <1>11, <1>12, <1>13, <1>14 DEF ZoneInv

\* zcram makes free elements of the memory its caller brought.
LEMMA ZcramStep == ASSUME ZoneInv, NEW t \in Thread, zcram(t) PROVE ZoneInv'
  <1> USE DEF svars, Goto
  <1>0. PICK z \in Zone, ns \in Nat : z = req[t] /\ ns = new_space[t]
    BY DEF zcram, ZoneInv, TypeOK, Places
  <1>1. PICK n \in Nat : n = AllocSize[z] /\ n >= 1
    BY ZoneAssumption
  <1>2. PICK E : E = Elements(z, ns, n)
    OBVIOUS
  <1>3. /\ pc[t] = "cram" /\ HasNew(t) /\ NewSize(t) = n /\ ~Pending(t)
        /\ pc \in [Thread -> Labels] /\ new_space \in [Thread -> Nat]
        /\ free \in [Zone -> SUBSET Nat] /\ used \in [Zone -> SUBSET Nat]
        /\ cur_size \in [Zone -> Nat]
    BY <1>0, <1>1 DEF zcram, ZoneInv, TypeOK, Places, Pending, NewSize
  <1>4. /\ free' = [free EXCEPT ![z] = @ \cup E]
        /\ cur_size' = [cur_size EXCEPT ![z] = @ + n]
        /\ new_space' = [new_space EXCEPT ![t] = 0]
        /\ pc' = [pc EXCEPT ![t] = "crammed"]
        /\ UNCHANGED <<used, count, doing_alloc, mapped, req, addr, next_space, end_space>>
    BY <1>0, <1>1, <1>2 DEF zcram
  <1>5. ElemSize[z] \in Nat /\ ElemSize[z] >= 1
    BY ZoneAssumption
  <1>6. /\ \A e \in E : e \in Nat /\ ns <= e /\ e + ElemSize[z] <= ns + n
        /\ \A e, f \in E : e = f \/ Sep(e, ElemSize[z], f, ElemSize[z])
    BY <1>2, ElementsFit
  <1>7. /\ Span(ns, n) \subseteq mapped
        /\ \A y \in Zone : \A a \in Live(y) : Sep(a, ElemSize[y], ns, n)
        /\ \A u \in Thread : Pending(u) => Sep(addr[u], ElemSize[req[u]], ns, n)
        /\ \A u \in Thread : (u # t /\ HasNew(u)) => Sep(new_space[u], NewSize(u), ns, n)
    BY <1>0, <1>3 DEF ZoneInv, NewClear
  <1>71. next_space < end_space => end_space <= ns \/ ns + n <= next_space
    BY <1>0, <1>3 DEF ZoneInv, NewClear
  <1>72. next_space \in Nat /\ end_space \in Nat
    BY RegionTypes
  <1>8. /\ \A e \in E : Span(e, ElemSize[z]) \subseteq mapped
        /\ \A e \in E : \A y \in Zone : \A a \in Live(y) :
             Sep(a, ElemSize[y], e, ElemSize[z]) /\ Sep(e, ElemSize[z], a, ElemSize[y])
        /\ \A e \in E : \A u \in Thread : Pending(u) => Sep(e, ElemSize[z], addr[u], ElemSize[req[u]])
        /\ \A e \in E : \A u \in Thread : (u # t /\ HasNew(u)) => Sep(e, ElemSize[z], new_space[u], NewSize(u))
        /\ \A e \in E : next_space < end_space => e + ElemSize[z] <= next_space \/ end_space <= e
    <2> SUFFICES ASSUME NEW e \in E
                 PROVE  /\ Span(e, ElemSize[z]) \subseteq mapped
                        /\ \A y \in Zone : \A a \in Live(y) :
                             Sep(a, ElemSize[y], e, ElemSize[z]) /\ Sep(e, ElemSize[z], a, ElemSize[y])
                        /\ \A u \in Thread : Pending(u) => Sep(e, ElemSize[z], addr[u], ElemSize[req[u]])
                        /\ \A u \in Thread : (u # t /\ HasNew(u)) => Sep(e, ElemSize[z], new_space[u], NewSize(u))
                        /\ next_space < end_space => e + ElemSize[z] <= next_space \/ end_space <= e
      OBVIOUS
    <2>1. e \in Nat /\ ns <= e /\ e + ElemSize[z] <= ns + n
      BY <1>6
    <2>2. Span(e, ElemSize[z]) \subseteq mapped
      BY <1>5, <1>7, <2>1 DEF Span
    <2>3. \A y \in Zone : \A a \in Live(y) :
             Sep(a, ElemSize[y], e, ElemSize[z]) /\ Sep(e, ElemSize[z], a, ElemSize[y])
      BY <1>5, <1>7, <2>1, Inside, RegionTypes, ZenonT(30)
    <2>4. \A u \in Thread : Pending(u) => Sep(e, ElemSize[z], addr[u], ElemSize[req[u]])
      BY <1>5, <1>7, <2>1, Inside, RegionTypes, ZenonT(30)
    <2>5. \A u \in Thread : (u # t /\ HasNew(u)) => Sep(e, ElemSize[z], new_space[u], NewSize(u))
      BY <1>5, <1>7, <2>1, Inside, NewSizes, ZenonT(30)
    <2>6. next_space < end_space => e + ElemSize[z] <= next_space \/ end_space <= e
      BY <1>5, <1>71, <1>72, <2>1
    <2> QED
      BY <2>2, <2>3, <2>4, <2>5, <2>6, ZenonT(30)
  <1>9. E \subseteq Nat /\ E \cap Live(z) = {}
    BY <1>5, <1>6, <1>8 DEF Sep
  <1>10. TypeOK'
    <2>1. free' \in [Zone -> SUBSET Nat]
      BY <1>3, <1>4, <1>9, ZenonT(30)
    <2>2. cur_size' \in [Zone -> Nat] /\ new_space' \in [Thread -> Nat] /\ pc' \in [Thread -> Labels]
      BY <1>1, <1>3, <1>4 DEF Labels
    <2> QED
      BY <1>4, <2>1, <2>2 DEF ZoneInv, TypeOK
  <1>11. Places'
    BY <1>3, <1>4 DEF ZoneInv, Places, HasNew
  <1>12. /\ Live(z)' = Live(z) \cup E
         /\ \A y \in Zone \ {z} : Live(y)' = Live(y)
    BY <1>3, <1>4 DEF Live
  <1>13. /\ \A u \in Thread : Pending(u)' => Pending(u)
         /\ \A u \in Thread : HasNew(u)' => u # t /\ HasNew(u) /\ NewSize(u)' = NewSize(u)
                                            /\ new_space'[u] = new_space[u]
    BY <1>3, <1>4 DEF Pending, HasNew, NewSize
  <1>14. ElementsClear'
    <2>1. \A y \in Zone : free'[y] \cap used'[y] = {}
      <3>1. \A y \in Zone : free[y] \cap used[y] = {}
        BY DEF ZoneInv, ElementsClear
      <3>2. E \cap used[z] = {}
        BY <1>9 DEF Live
      <3> QED
        BY <1>3, <1>4, <3>1, <3>2
    <2>2. \A x, y \in Zone : \A a \in Live(x)', b \in Live(y)' :
             (x = y /\ a = b) \/ Sep(a, ElemSize[x], b, ElemSize[y])
      BY <1>6, <1>8, <1>12 DEF ZoneInv, ElementsClear
    <2>3. \A y \in Zone : \A a \in Live(y)' : Span(a, ElemSize[y]) \subseteq mapped'
      BY <1>4, <1>8, <1>12, ZenonT(30) DEF ZoneInv, ElementsClear
    <2> QED
      BY <2>1, <2>2, <2>3 DEF ElementsClear
  <1>15. PendingClear'
    <2> SUFFICES ASSUME NEW u \in Thread, Pending(u)
                 PROVE  /\ Span(addr[u], ElemSize[req[u]]) \subseteq mapped
                        /\ \A y \in Zone : \A a \in Live(y)' : Sep(a, ElemSize[y], addr[u], ElemSize[req[u]])
                        /\ \A v \in Thread : (v # u /\ Pending(v)) =>
                              Sep(addr[v], ElemSize[req[v]], addr[u], ElemSize[req[u]])
      BY <1>4, <1>13, ZenonT(30) DEF PendingClear
    <2>1. \A e \in E : Sep(e, ElemSize[z], addr[u], ElemSize[req[u]])
      BY <1>8, ZenonT(30)
    <2>2. /\ Span(addr[u], ElemSize[req[u]]) \subseteq mapped
          /\ \A y \in Zone : \A a \in Live(y) : Sep(a, ElemSize[y], addr[u], ElemSize[req[u]])
          /\ \A v \in Thread : (v # u /\ Pending(v)) =>
                Sep(addr[v], ElemSize[req[v]], addr[u], ElemSize[req[u]])
      BY DEF ZoneInv, PendingClear
    <2> QED
      BY <1>12, <2>1, <2>2
  <1>16. SpaceClear'
    BY <1>4, <1>8, <1>12, <1>13, ZenonT(30) DEF ZoneInv, SpaceClear
  <1>17. NewClear'
    <2> SUFFICES ASSUME NEW u \in Thread, u # t, HasNew(u)
                 PROVE  /\ Span(new_space[u], NewSize(u)) \subseteq mapped
                        /\ \A y \in Zone : \A a \in Live(y)' : Sep(a, ElemSize[y], new_space[u], NewSize(u))
                        /\ \A v \in Thread : Pending(v) =>
                             Sep(addr[v], ElemSize[req[v]], new_space[u], NewSize(u))
                        /\ \A v \in Thread : (v # u /\ HasNew(v)) =>
                             Sep(new_space[v], NewSize(v), new_space[u], NewSize(u))
                        /\ next_space < end_space =>
                             end_space <= new_space[u] \/ new_space[u] + NewSize(u) <= next_space
      BY <1>4, <1>13, ZenonT(30) DEF NewClear
    <2>1. \A e \in E : Sep(e, ElemSize[z], new_space[u], NewSize(u))
      BY <1>8
    <2>2. \A y \in Zone : \A a \in Live(y)' : Sep(a, ElemSize[y], new_space[u], NewSize(u))
      BY <1>12, <2>1 DEF ZoneInv, NewClear
    <2> QED
      BY <2>2 DEF ZoneInv, NewClear
  <1> QED
    BY <1>10, <1>11, <1>14, <1>15, <1>16, <1>17 DEF ZoneInv

----------------------------------------------------------------------------
(* zget_space.                                                             *)
=============================================================================

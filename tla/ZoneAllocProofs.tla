-------------------------- MODULE ZoneAllocProofs ---------------------------
(***************************************************************************)
(* Proofs about ZoneAlloc, for any zones, element sizes and page size and  *)
(* any finite set of threads: the memory of zone_map is partitioned among  *)
(* the elements, the space zget_space carves from and the memory threads   *)
(* bring to it (ZoneInv); threads take turns at growing a pageable zone    *)
(* (TurnInv); and a zone that is not pageable exceeds max_size by a        *)
(* bounded amount (SizeInv).                                               *)
(***************************************************************************)
EXTENDS ZoneAllocLemmas, FiniteSetTheorems

\* The provers, in turn, of a leaf that names none.
USE SMTT(30), ZenonT(30), Z3T(30), SMTT(60), Z3T(60), SMTT(90)

(* The steps of zget_space.                                                *)

\* Nothing has a part of the n units at a, after a step that leaves the
\* threads' new memory where it was.
Unowned(a, n) ==
  /\ Span(a, n) \subseteq mapped
  /\ \A z \in Zone : \A b \in Live(z) : Sep(b, ElemSize[z], a, n)
  /\ \A u \in Thread : Pending(u) => Sep(addr[u], ElemSize[req[u]], a, n)
  /\ \A u \in Thread : HasNew(u)' => HasNew(u) /\ Sep(new_space[u], NewSize(u), a, n)

\* A part of an unowned region is unowned.
LEMMA UnownedPart ==
  ASSUME ZoneInv, NEW a \in Nat, NEW n \in Nat, NEW c \in Nat, NEW k \in Nat,
         a <= c, c + k <= a + n, Unowned(a, n)
  PROVE  Unowned(c, k)
  <1>1. Span(c, k) \subseteq Span(a, n)
    BY DEF Span
  <1>2. \A z \in Zone : \A b \in Live(z) : Sep(b, ElemSize[z], c, k)
    <2> SUFFICES ASSUME NEW z \in Zone, NEW b \in Live(z) PROVE Sep(b, ElemSize[z], c, k)
      OBVIOUS
    <2>1. b \in Nat /\ ElemSize[z] \in Nat
      BY RegionTypes
    <2>2. Sep(b, ElemSize[z], a, n)
      BY DEF Unowned
    <2> QED
      BY <2>1, <2>2, Inside
  <1>3. \A u \in Thread : Pending(u) => Sep(addr[u], ElemSize[req[u]], c, k)
    <2> SUFFICES ASSUME NEW u \in Thread, Pending(u) PROVE Sep(addr[u], ElemSize[req[u]], c, k)
      OBVIOUS
    <2>1. addr[u] \in Nat /\ ElemSize[req[u]] \in Nat
      BY RegionTypes
    <2>2. Sep(addr[u], ElemSize[req[u]], a, n)
      BY DEF Unowned
    <2> QED
      BY <2>1, <2>2, Inside
  <1>4. \A u \in Thread : HasNew(u)' => HasNew(u) /\ Sep(new_space[u], NewSize(u), c, k)
    <2> SUFFICES ASSUME NEW u \in Thread, HasNew(u)'
                 PROVE  HasNew(u) /\ Sep(new_space[u], NewSize(u), c, k)
      OBVIOUS
    <2>1. HasNew(u) /\ Sep(new_space[u], NewSize(u), a, n)
      BY DEF Unowned
    <2>2. new_space[u] \in Nat /\ NewSize(u) \in Nat
      BY <2>1, NewSizes
    <2> QED
      BY <2>1, <2>2, Inside
  <1>5. Span(c, k) \subseteq mapped
    BY <1>1 DEF Unowned
  <1> QED
    BY <1>2, <1>3, <1>4, <1>5 DEF Unowned

\* The step of zget_space that gives t the units at from, n of them, and keeps
\* those up to to as the space.
CarveAt(t, from, to, n, label) ==
  /\ addr' = [addr EXCEPT ![t] = from] /\ Goto(t, label)
  /\ next_space' = from + n /\ end_space' = to
  /\ label = "unmap" <=> HasNew(t)'
  /\ new_space' = new_space \/ new_space' = [new_space EXCEPT ![t] = 0]
  /\ UNCHANGED <<mapped, req>> /\ UNCHANGED zvars

\* Such a step keeps the invariant when the region is unowned.
LEMMA CarveStep ==
  ASSUME ZoneInv, NEW t \in Thread, pc[t] = "space",
         NEW from \in Nat, NEW to \in Nat, NEW n \in Nat, n = ElemSize[req[t]], from + n <= to,
         NEW size \in Nat, from + size = to, Unowned(from, size),
         NEW label \in {"unmap", "count"}, CarveAt(t, from, to, n, label)
  PROVE  ZoneInv'
  <1>1. /\ pc \in [Thread -> Labels] /\ new_space \in [Thread -> Nat] /\ addr \in [Thread -> Nat]
        /\ req[t] \in Zone /\ ~Pending(t)
    BY DEF ZoneInv, TypeOK, Places, Pending
  <1>2. n >= 1
    BY <1>1, ZoneAssumption
  <1>3. /\ pc' = [pc EXCEPT ![t] = label] /\ addr' = [addr EXCEPT ![t] = from]
        /\ next_space' = from + n /\ end_space' = to
        /\ label = "unmap" <=> HasNew(t)'
        /\ new_space' = new_space \/ new_space' = [new_space EXCEPT ![t] = 0]
        /\ UNCHANGED <<mapped, req, free, used, count, cur_size, doing_alloc>>
    BY DEF CarveAt, Goto, zvars
  <1>4. PICK rest \in Nat : n + rest = size
    <2>1. size - n \in Nat /\ n + (size - n) = size
      OBVIOUS
    <2> QED
      BY <2>1
  <1>5. Unowned(from, n)
    <2>1. from <= from /\ from + n <= from + size
      BY <1>4
    <2> QED
      BY <2>1, UnownedPart
  <1>6. Unowned(from + n, rest)
    <2>1. from + n \in Nat /\ from <= from + n /\ (from + n) + rest <= from + size
      BY <1>4
    <2> QED
      BY <2>1, UnownedPart
  <1>7. /\ \A z \in Zone : Live(z)' = Live(z)
        /\ \A u \in Thread : Pending(u)' <=> (Pending(u) \/ u = t)
        /\ addr'[t] = from /\ \A u \in Thread \ {t} : addr'[u] = addr[u]
    BY <1>1, <1>3 DEF Live, Pending
  <1>8. \A u \in Thread : HasNew(u)' => HasNew(u) /\ NewSize(u)' = NewSize(u)
                                        /\ new_space'[u] = new_space[u]
    BY <1>1, <1>3 DEF HasNew, NewSize
  <1>9. TypeOK'
    <2>1. new_space' \in [Thread -> Nat]
      <3>1. CASE new_space' = new_space
        BY <1>1, <3>1
      <3>2. CASE new_space' = [new_space EXCEPT ![t] = 0]
        BY <1>1, <3>2
      <3> QED
        BY <1>3, <3>1, <3>2
    <2>2. pc' \in [Thread -> Labels] /\ addr' \in [Thread -> Nat]
      BY <1>1, <1>3, ZenonT(30) DEF Labels
    <2>3. next_space' \in Nat /\ end_space' \in Nat
      BY <1>3
    <2> QED
      BY <1>3, <2>1, <2>2, <2>3 DEF ZoneInv, TypeOK
  <1>10. Places'
    <2>1. \A u \in Thread \ {t} : pc'[u] = pc[u] /\ new_space'[u] = new_space[u]
      BY <1>1, <1>3, ZenonT(30)
    <2>2. pc'[t] = label /\ next_space' <= end_space'
      BY <1>1, <1>3
    <2> QED
      BY <1>1, <1>3, <2>1, <2>2 DEF ZoneInv, Places, HasNew
  <1>11. ElementsClear'
    BY <1>3, <1>7 DEF ZoneInv, ElementsClear
  <1>12. PendingClear'
    <2>0. \A u \in Thread : Pending(u) =>
            /\ addr[u] \in Nat /\ ElemSize[req[u]] \in Nat
            /\ Sep(addr[u], ElemSize[req[u]], from, n) /\ Sep(from, n, addr[u], ElemSize[req[u]])
      <3>1. \A u \in Thread : Pending(u) => Sep(addr[u], ElemSize[req[u]], from, n)
        BY <1>5, ZenonT(30) DEF Unowned
      <3>2. \A u \in Thread : Pending(u) => addr[u] \in Nat /\ ElemSize[req[u]] \in Nat
        BY RegionTypes
      <3> QED
        BY <3>1, <3>2 DEF Sep
    <2> SUFFICES ASSUME NEW u \in Thread, Pending(u)'
                 PROVE  /\ Span(addr'[u], ElemSize[req[u]]) \subseteq mapped
                        /\ \A z \in Zone : \A a \in Live(z) : Sep(a, ElemSize[z], addr'[u], ElemSize[req[u]])
                        /\ \A v \in Thread : (v # u /\ Pending(v)') =>
                              Sep(addr'[v], ElemSize[req[v]], addr'[u], ElemSize[req[u]])
      BY <1>3, <1>7 DEF PendingClear
    <2>1. CASE u = t
      BY <2>0, <2>1, <1>5, <1>7, ZenonT(30) DEF Unowned
    <2>2. CASE u # t
      BY <2>0, <2>2, <1>7 DEF ZoneInv, PendingClear
    <2> QED
      BY <2>1, <2>2
  <1>13. SpaceClear'
    <2>1. (from + n) .. (to - 1) \subseteq mapped
      <3>1. Span(from + n, rest) = (from + n) .. (to - 1)
        BY <1>4 DEF Span
      <3> QED
        BY <3>1, <1>6 DEF Unowned
    <2>2. (from + n) + rest = to
      BY <1>4
    <2>3. \A z \in Zone : \A a \in Live(z) : a + ElemSize[z] <= from + n \/ to <= a
      BY <1>6, <2>2 DEF Unowned, Sep
    <2>4. \A u \in Thread : Pending(u) => addr[u] + ElemSize[req[u]] <= from + n \/ to <= addr[u]
      BY <1>6, <2>2 DEF Unowned, Sep
    <2>5. addr'[t] + ElemSize[req[t]] <= from + n
      BY <1>7
    <2> QED
      BY <1>3, <1>7, <2>1, <2>3, <2>4, <2>5 DEF SpaceClear
  <1>14. NewClear'
    <2> SUFFICES ASSUME NEW u \in Thread, HasNew(u)'
                 PROVE  /\ Span(new_space'[u], NewSize(u)') \subseteq mapped'
                        /\ \A z \in Zone : \A a \in Live(z)' :
                             Sep(a, ElemSize[z], new_space'[u], NewSize(u)')
                        /\ \A v \in Thread : Pending(v)' =>
                             Sep(addr'[v], ElemSize[req'[v]], new_space'[u], NewSize(u)')
                        /\ \A v \in Thread : (v # u /\ HasNew(v)') =>
                             Sep(new_space'[v], NewSize(v)', new_space'[u], NewSize(u)')
                        /\ next_space' < end_space' => \/ end_space' <= new_space'[u]
                                                       \/ new_space'[u] + NewSize(u)' <= next_space'
      BY DEF NewClear, Sep
    <2>1. HasNew(u) /\ new_space[u] \in Nat /\ NewSize(u) \in Nat
      BY <1>8, NewSizes
    <2>2. new_space'[u] = new_space[u] /\ NewSize(u)' = NewSize(u) /\ mapped' = mapped /\ req' = req
      BY <1>3, <1>8
    <2>3. Sep(from, n, new_space[u], NewSize(u))
      <3>1. Sep(new_space[u], NewSize(u), from, n)
        BY <1>5, ZenonT(30) DEF Unowned
      <3> QED
        BY <2>1, <3>1 DEF Sep
    <2>4. from + n < to => to <= new_space[u] \/ new_space[u] + NewSize(u) <= from + n
      <3>1. Sep(new_space[u], NewSize(u), from + n, rest) /\ (from + n) + rest = to
        BY <1>4, <1>6 DEF Unowned
      <3> QED
        BY <3>1 DEF Sep
    <2>5. \A v \in Thread : Pending(v)' => Sep(addr'[v], ElemSize[req[v]], new_space[u], NewSize(u))
      BY <1>7, <2>1, <2>3 DEF ZoneInv, NewClear
    <2>6. /\ Span(new_space[u], NewSize(u)) \subseteq mapped
          /\ \A z \in Zone : \A a \in Live(z) : Sep(a, ElemSize[z], new_space[u], NewSize(u))
      BY <2>1 DEF ZoneInv, NewClear
    <2>7. \A v \in Thread : (v # u /\ HasNew(v)') =>
            Sep(new_space'[v], NewSize(v)', new_space[u], NewSize(u))
      BY <1>8, <2>1, ZenonT(30) DEF ZoneInv, NewClear
    <2> QED
      BY <1>3, <1>7, <2>2, <2>4, <2>5, <2>6, <2>7
  <1> QED
    BY <1>9, <1>10, <1>11, <1>12, <1>13, <1>14 DEF ZoneInv

\* zget_space.  The space is extended only by memory that follows it, and
\* memory brought along is always large enough for the element.
LEMMA ZgetSpaceStep == ASSUME ZoneInv, NEW t \in Thread, zget_space(t) PROVE ZoneInv'
  <1>0. PICK n \in Nat, ns \in Nat : n = ElemSize[req[t]] /\ ns = new_space[t] /\ n >= 1
    <2>1. req[t] \in Zone /\ new_space[t] \in Nat
      BY DEF zget_space, ZoneInv, Places, TypeOK
    <2> QED
      BY <2>1, RegionTypes
  <1>1. PICK add \in Nat : add = space_to_add(n) /\ add >= n
    BY SpaceToAdd
  <1>2. /\ pc[t] = "space" /\ UNCHANGED <<mapped, req>> /\ UNCHANGED zvars
        /\ pc \in [Thread -> Labels] /\ new_space \in [Thread -> Nat] /\ ~Pending(t)
        /\ HasNew(t) <=> ns # 0
    BY <1>0 DEF zget_space, ZoneInv, TypeOK, Pending, HasNew
  <1>3. next_space \in Nat /\ end_space \in Nat /\ next_space <= end_space
    BY RegionTypes
  <1>4. ASSUME next_space < end_space
        PROVE  /\ Span(next_space, end_space - next_space) \subseteq mapped
               /\ \A z \in Zone : \A a \in Live(z) : Sep(a, ElemSize[z], next_space, end_space - next_space)
               /\ \A u \in Thread : Pending(u) =>
                    Sep(addr[u], ElemSize[req[u]], next_space, end_space - next_space)
               /\ \A u \in Thread : HasNew(u) =>
                    Sep(new_space[u], NewSize(u), next_space, end_space - next_space)
    <2>1. next_space + (end_space - next_space) = end_space
      BY <1>3
    <2>2. Span(next_space, end_space - next_space) \subseteq mapped
      BY <1>3, <1>4, <2>1 DEF ZoneInv, SpaceClear, Span
    <2> QED
      BY <1>4, <2>1, <2>2 DEF ZoneInv, SpaceClear, NewClear, Sep
  <1>5. CASE next_space + n <= end_space
    <2>1. PICK label \in {"unmap", "count"} : label = IF ns # 0 THEN "unmap" ELSE "count"
      OBVIOUS
    <2>2. /\ addr' = [addr EXCEPT ![t] = next_space] /\ Goto(t, label)
          /\ next_space' = next_space + n /\ end_space' = end_space /\ new_space' = new_space
      BY <1>0, <1>5, <2>1 DEF zget_space, Carve
    <2>3. /\ label = "unmap" <=> HasNew(t)'
          /\ \A u \in Thread : HasNew(u)' => HasNew(u)
      BY <1>0, <2>1, <2>2 DEF HasNew
    <2>4. PICK size \in Nat : size = end_space - next_space /\ next_space + size = end_space
      BY <1>3
    <2>5. next_space < end_space
      BY <1>0, <1>3, <1>5
    <2>6. Unowned(next_space, size)
      BY <1>4, <2>3, <2>4, <2>5 DEF Unowned
    <2>7. CarveAt(t, next_space, end_space, n, label)
      BY <1>2, <2>2, <2>3 DEF CarveAt
    <2> QED
      BY <1>0, <1>2, <1>3, <1>5, <2>4, <2>6, <2>7, CarveStep
  <1>6. CASE ~(next_space + n <= end_space) /\ ns = 0
    <2>1. UNCHANGED <<addr, next_space, end_space, new_space>> /\ Goto(t, "kmem")
      BY <1>0, <1>6 DEF zget_space, Carve
    <2>2. TypeOK' /\ Places'
      BY <1>2, <1>6, <2>1 DEF ZoneInv, TypeOK, Places, HasNew, Goto, Labels, zvars
    <2>3. \A u \in Thread : Pending(u)' => Pending(u)
      BY <1>2, <2>1 DEF Pending, Goto
    <2>4. \A u \in Thread : HasNew(u) => (pc'[u] = "cram" <=> pc[u] = "cram")
      BY <1>2, <2>1 DEF Goto
    <2>5. \A y \in Zone : Live(y)' = Live(y) /\ free'[y] \cap used'[y] = {}
      BY <1>2 DEF Live, ZoneInv, ElementsClear, zvars
    <2> QED
      BY <1>2, <2>1, <2>2, <2>3, <2>4, <2>5, Frame
  <1>7. CASE ~(next_space + n <= end_space) /\ ns # 0
    <2>1. PICK from \in Nat, to \in Nat : from = (IF ns # end_space THEN ns ELSE next_space) /\ to = ns + add
      BY <1>3
    <2>2. from + n <= to
      BY <1>1, <1>3, <2>1
    <2>3. /\ addr' = [addr EXCEPT ![t] = from] /\ Goto(t, "count")
          /\ next_space' = from + n /\ end_space' = to
          /\ new_space' = [new_space EXCEPT ![t] = 0]
      BY <1>0, <1>1, <1>7, <2>1, <2>2 DEF zget_space, Carve
    <2>4. /\ HasNew(t) /\ NewSize(t) = add /\ ~HasNew(t)'
          /\ \A u \in Thread : HasNew(u)' => u # t /\ HasNew(u)
      BY <1>0, <1>1, <1>2, <1>7, <2>3 DEF NewSize, HasNew
    <2>5. /\ Span(ns, add) \subseteq mapped
          /\ \A z \in Zone : \A a \in Live(z) : Sep(a, ElemSize[z], ns, add)
          /\ \A u \in Thread : Pending(u) => Sep(addr[u], ElemSize[req[u]], ns, add)
          /\ \A u \in Thread : (u # t /\ HasNew(u)) => Sep(new_space[u], NewSize(u), ns, add)
      <3>1. /\ Span(new_space[t], NewSize(t)) \subseteq mapped
            /\ \A z \in Zone : \A a \in Live(z) : Sep(a, ElemSize[z], new_space[t], NewSize(t))
            /\ \A u \in Thread : Pending(u) => Sep(addr[u], ElemSize[req[u]], new_space[t], NewSize(t))
            /\ \A u \in Thread : (u # t /\ HasNew(u)) =>
                 Sep(new_space[u], NewSize(u), new_space[t], NewSize(t))
        <4>1. NewClear /\ HasNew(t)
          BY <2>4 DEF ZoneInv
        <4> QED
          BY <4>1, ZenonT(30) DEF NewClear
      <3>2. new_space[t] = ns /\ NewSize(t) = add
        BY <1>0, <2>4
      <3> QED
        BY <3>1, <3>2
    <2>6. /\ Span(from, to - from) \subseteq mapped
          /\ \A z \in Zone : \A a \in Live(z) : Sep(a, ElemSize[z], from, to - from)
          /\ \A u \in Thread : Pending(u) => Sep(addr[u], ElemSize[req[u]], from, to - from)
          /\ \A u \in Thread : HasNew(u)' => Sep(new_space[u], NewSize(u), from, to - from)
      <3>1. CASE from = ns
        <4>1. to - from = add
          <5>1. to = ns + add
            BY <2>1
          <5> QED
            BY <3>1, <5>1
        <4> QED
          BY <3>1, <4>1, <2>4, <2>5
      <3>2. CASE from # ns
        <4>1. /\ ns = end_space /\ from = next_space /\ next_space < end_space
              /\ to - from \in Nat /\ end_space - next_space \in Nat
              /\ next_space + (end_space - next_space) = ns /\ from + (to - from) = ns + add
          BY <1>3, <2>1, <3>2
        <4>2. Span(from, to - from) \subseteq mapped
          BY <1>3, <1>4, <2>1, <2>5, <4>1 DEF Span
        <4>3. ASSUME NEW a \in Nat, NEW k \in Nat, k >= 1,
                     Sep(a, k, next_space, end_space - next_space), Sep(a, k, ns, add)
              PROVE  Sep(a, k, from, to - from)
          BY <1>1, <1>3, <2>1, <4>1, <4>3 DEF Sep
        <4>4. \A z \in Zone : \A a \in Live(z) : Sep(a, ElemSize[z], from, to - from)
          BY <1>4, <2>5, <4>1, <4>3, RegionTypes, ZenonT(30)
        <4>5. \A u \in Thread : Pending(u) => Sep(addr[u], ElemSize[req[u]], from, to - from)
          BY <1>4, <2>5, <4>1, <4>3, RegionTypes
        <4>6. \A u \in Thread : HasNew(u)' => Sep(new_space[u], NewSize(u), from, to - from)
          BY <1>4, <2>4, <2>5, <4>1, <4>3, NewSizes, ZenonT(30)
        <4> QED
          BY <4>2, <4>4, <4>5, <4>6
      <3> QED
        BY <3>1, <3>2
    <2>7. PICK size \in Nat : size = to - from /\ from + size = to
      BY <2>2
    <2>8. Unowned(from, size)
      BY <2>4, <2>6, <2>7, ZenonT(30) DEF Unowned
    <2>9. CarveAt(t, from, to, n, "count")
      BY <1>2, <2>3, <2>4 DEF CarveAt
    <2> QED
      BY <1>0, <1>2, <2>2, <2>7, <2>8, <2>9, CarveStep
  <1> QED
    BY <1>5, <1>6, <1>7

\* Every step of the allocator preserves the partition of memory.
LEMMA NextInv == ZoneInv /\ [Next]_vars => ZoneInv'
  <1> SUFFICES ASSUME ZoneInv, [Next]_vars PROVE ZoneInv'
    OBVIOUS
  <1>1. CASE Next
    <2>1. PICK t \in Thread :
            \/ zget(t) \/ zfree(t) \/ zalloc(t) \/ Interrupted(t)
            \/ zalloc_woken(t) \/ kmem_alloc_pageable(t) \/ zcram(t) \/ zalloc_crammed(t)
            \/ zget_space(t) \/ kmem_alloc(t) \/ kmem_free(t) \/ zalloc_count(t)
      BY <1>1 DEF Next, Step
    <2>2. CASE zget(t)
      BY <2>2, ZgetStep
    <2>3. CASE zfree(t)
      BY <2>3, ZfreeStep
    <2>4. CASE zalloc(t)
      BY <2>4, ZallocStep
    <2>5. CASE Interrupted(t)
      BY <2>5, InterruptedStep
    <2>6. CASE zalloc_woken(t)
      BY <2>6, WokenStep
    <2>7. CASE kmem_alloc_pageable(t) \/ kmem_alloc(t)
      BY <2>7, KmemStep
    <2>8. CASE zcram(t)
      BY <2>8, ZcramStep
    <2>9. CASE zalloc_crammed(t)
      BY <2>9, CrammedStep
    <2>10. CASE zget_space(t)
      BY <2>10, ZgetSpaceStep
    <2>11. CASE kmem_free(t)
      BY <2>11, KmemFreeStep
    <2>12. CASE zalloc_count(t)
      BY <2>12, CountStep
    <2> QED
      BY <2>1, <2>2, <2>3, <2>4, <2>5, <2>6, <2>7, <2>8, <2>9, <2>10, <2>11, <2>12
  <1>2. CASE UNCHANGED vars
    <2>1. TypeOK' /\ Places'
      BY <1>2 DEF vars, ZoneInv, TypeOK, Places, HasNew
    <2>2. \A y \in Zone : Live(y)' = Live(y) /\ free'[y] \cap used'[y] = {}
      BY <1>2 DEF vars, Live, ZoneInv, ElementsClear
    <2>3. \A u \in Thread : Pending(u)' => Pending(u)
      BY <1>2 DEF vars, Pending
    <2> QED
      BY <1>2, <2>1, <2>2, <2>3, Frame, ZenonT(30) DEF vars
  <1> QED
    BY <1>1, <1>2

\* The memory of zone_map always has one owner: an element, the space of
\* zget_space, or a thread on its way from kmem_alloc to zcram or zget_space.
THEOREM ZoneSafe == Spec => []ZoneInv
  BY InitInv, NextInv, PTL DEF Spec

\* The types hold of every state: no allocation makes cur_size negative, and
\* a thread inside zalloc has a zone.
THEOREM ZoneTypes == Spec => []TypeOK
  <1>1. ZoneInv => TypeOK
    BY DEF ZoneInv
  <1> QED
    BY <1>1, ZoneSafe, PTL

\* zalloc never returns memory that another element overlaps, for zones of any
\* sizes, any number of threads, and any interleaving of zget_space's passes.
THEOREM ZoneElementsApart == Spec => []ElementsApart
  <1>1. ZoneInv => ElementsApart
    <2> SUFFICES ASSUME ZoneInv PROVE ElementsApart
      OBVIOUS
    <2>1. \A z, y \in Zone : \A a \in Live(z), b \in Live(y) :
            <<z, a>> = <<y, b>> \/ Apart(z, a, y, b)
      BY DEF ZoneInv, ElementsClear, Sep, Apart
    <2>2. \A t \in Thread : Pending(t) =>
            /\ \A z \in Zone : \A a \in Live(z) : Apart(z, a, req[t], addr[t])
            /\ \A u \in Thread \ {t} : Pending(u) => Apart(req[u], addr[u], req[t], addr[t])
      BY DEF ZoneInv, PendingClear, Sep, Apart
    <2>3. \A z \in Zone : free[z] \cap used[z] = {}
      BY DEF ZoneInv, ElementsClear
    <2> QED
      BY <2>1, <2>2, <2>3 DEF ElementsApart, Live
  <1> QED
    BY <1>1, ZoneSafe, PTL

\* kmem_free never takes memory an element lies in.
THEOREM ZoneElementsMapped == Spec => []ElementsMapped
  <1>1. ZoneInv => ElementsMapped
    BY DEF ZoneInv, ElementsClear, PendingClear, ElementsMapped, Live
  <1> QED
    BY <1>1, ZoneSafe, PTL

----------------------------------------------------------------------------
(* Turns at growing a pageable zone.  OneGrows counts threads; what is     *)
(* inductive is said of the threads one by one.                            *)
GrowPcs == {"grow", "cram", "crammed"}

Turns(p, r, doing) ==
  \A z \in Zone :
    /\ doing[z] <=> \E t \in Thread : r[t] = z /\ p[t] \in GrowPcs
    /\ \A t, u \in Thread :
         r[t] = z /\ p[t] \in GrowPcs /\ r[u] = z /\ p[u] \in GrowPcs => t = u
    /\ \A t \in Thread : r[t] = z /\ p[t] = "wait" => doing[z]

TurnInv == Running => Turns(pc, req, doing_alloc)

Tables(p, r, doing) ==
  p \in [Thread -> Labels] /\ r \in [Thread -> Zone \cup {NoZone}] /\ doing \in [Zone -> BOOLEAN]

\* A thread that goes elsewhere than to grow a zone or to wait for its growth
\* changes no turn.
LEMMA OtherTurn ==
  ASSUME NEW p, NEW r, NEW doing, Tables(p, r, doing), Turns(p, r, doing),
         NEW t \in Thread, NEW l \in Labels \ (GrowPcs \cup {"wait"}), NEW y,
         p[t] \notin GrowPcs
  PROVE  Turns([p EXCEPT ![t] = l], [r EXCEPT ![t] = y], doing)
  BY DEF Turns, Tables, GrowPcs, Labels

\* A thread that has its turn goes on with it.
LEMMA SameTurn ==
  ASSUME NEW p, NEW r, NEW doing, Tables(p, r, doing), Turns(p, r, doing),
         NEW t \in Thread, NEW l \in Labels \ {"wait"}, p[t] \in GrowPcs <=> l \in GrowPcs
  PROVE  Turns([p EXCEPT ![t] = l], r, doing)
  BY DEF Turns, Tables

\* A thread waits for the thread whose turn it is.
LEMMA WaitsTurn ==
  ASSUME NEW p, NEW r, NEW doing, Tables(p, r, doing), Turns(p, r, doing),
         NEW t \in Thread, NEW z \in Zone, doing[z], p[t] \notin GrowPcs
  PROVE  Turns([p EXCEPT ![t] = "wait"], [r EXCEPT ![t] = z], doing)
  BY DEF Turns, Tables, GrowPcs

\* A thread takes the turn that nobody has.
LEMMA TakesTurn ==
  ASSUME NEW p, NEW r, NEW doing, Tables(p, r, doing), Turns(p, r, doing),
         NEW t \in Thread, NEW z \in Zone, ~doing[z], p[t] \notin GrowPcs
  PROVE  Turns([p EXCEPT ![t] = "grow"], [r EXCEPT ![t] = z], [doing EXCEPT ![z] = TRUE])
  BY DEF Turns, Tables, GrowPcs

\* The loop of zalloc, entered by a thread that does not have the turn (any more).
LEMMA ExpandTurn ==
  ASSUME NEW t \in Thread, NEW z \in Zone, NEW p, NEW doing, Tables(p, req, doing),
         Turns([p EXCEPT ![t] = "idle"], req, doing), Expand(t, z, p, doing)
  PROVE  TurnInv'
  <1> DEFINE q == [p EXCEPT ![t] = "idle"]
  <1>1. Tables(q, req, doing) /\ q[t] = "idle" /\ \A l : [q EXCEPT ![t] = l] = [p EXCEPT ![t] = l]
    BY DEF Tables, Labels
  <1>2. Turns(q, req, doing)
    OBVIOUS
  <1> HIDE DEF q
  <1>3. CASE doing[z] /\ pc' = [p EXCEPT ![t] = "wait"] /\ req' = [req EXCEPT ![t] = z]
             /\ doing_alloc' = doing
    <2>1. Turns([q EXCEPT ![t] = "wait"], [req EXCEPT ![t] = z], doing)
      BY <1>1, <1>2, <1>3, WaitsTurn, ZenonT(30) DEF GrowPcs
    <2> QED
      BY <1>1, <1>3, <2>1, ZenonT(30) DEF TurnInv
  <1>4. CASE pc' = [p EXCEPT ![t] = "idle"] /\ req' = [req EXCEPT ![t] = NoZone]
             /\ doing_alloc' = doing
    <2>1. Turns([q EXCEPT ![t] = "idle"], [req EXCEPT ![t] = NoZone], doing)
      BY <1>1, <1>2, OtherTurn DEF GrowPcs, Labels
    <2> QED
      BY <1>1, <1>4, <2>1, ZenonT(30) DEF TurnInv
  <1>5. CASE panicked' = <<"empty", z>>
    BY <1>5 DEF TurnInv, Running
  <1>6. CASE z \in Pageable /\ ~doing[z] /\ pc' = [p EXCEPT ![t] = "grow"]
             /\ req' = [req EXCEPT ![t] = z] /\ doing_alloc' = [doing EXCEPT ![z] = TRUE]
    <2>1. Turns([q EXCEPT ![t] = "grow"], [req EXCEPT ![t] = z], [doing EXCEPT ![z] = TRUE])
      BY <1>1, <1>2, <1>6, TakesTurn, ZenonT(30) DEF GrowPcs
    <2> QED
      BY <1>1, <1>6, <2>1, ZenonT(30) DEF TurnInv
  <1>7. CASE z \notin Pageable /\ ~doing[z] /\ pc' = [p EXCEPT ![t] = "space"]
             /\ req' = [req EXCEPT ![t] = z] /\ doing_alloc' = [doing EXCEPT ![z] = FALSE]
    <2>1. Turns([q EXCEPT ![t] = "space"], [req EXCEPT ![t] = z], doing)
      BY <1>1, <1>2, OtherTurn, ZenonT(30) DEF GrowPcs, Labels
    <2>2. [doing EXCEPT ![z] = FALSE] = doing
      BY <1>7 DEF Tables
    <2> QED
      BY <1>1, <1>7, <2>1, <2>2, ZenonT(30) DEF TurnInv
  <1>8. CASE z \in Pageable
    <2>1. (z \in Pageable) = TRUE
      BY <1>8
    <2> QED
      BY <1>3, <1>4, <1>5, <1>6, <1>8, <2>1, ZenonT(30) DEF Expand
  <1>9. CASE z \notin Pageable
    <2>1. (z \in Pageable) = FALSE
      BY <1>9
    <2> QED
      BY <1>3, <1>4, <1>5, <1>7, <1>9, <2>1, ZenonT(30) DEF Expand
  <1> QED
    BY <1>8, <1>9

\* Every step keeps the turns.
LEMMA NextTurn ==
  ASSUME TypeOK, Places, TurnInv, Next
  PROVE  TurnInv'
  <1>1. Turns(pc, req, doing_alloc) /\ Tables(pc, req, doing_alloc)
    BY DEF TypeOK, TurnInv, Tables, Next
  <1>2. PICK t \in Thread : zget(t) \/ zfree(t) \/ zalloc(t) \/ Interrupted(t) \/ Step(t)
    BY DEF Next
  <1>3. ASSUME pc[t] \in {"idle", "woken"} PROVE Turns([pc EXCEPT ![t] = "idle"], req, doing_alloc)
    BY <1>1, <1>3, SameTurn DEF GrowPcs, Labels
  <1>4. CASE UNCHANGED <<pc, req, doing_alloc>>
    BY <1>1, <1>4 DEF TurnInv
  <1>5. ASSUME NEW l \in Labels \ {"wait"}, pc[t] \in GrowPcs <=> l \in GrowPcs, Goto(t, l),
               UNCHANGED <<req, doing_alloc>>
        PROVE  TurnInv'
    BY <1>1, <1>5, SameTurn, ZenonT(30) DEF TurnInv, Goto
  <1>6. CASE zalloc(t)
    <2>1. PICK z \in Zone : UNCHANGED <<doing_alloc, pc, req>> \/ Expand(t, z, pc, doing_alloc)
      BY <1>6 DEF zalloc
    <2> QED
      BY <1>1, <1>3, <1>4, <1>6, <2>1, ExpandTurn DEF zalloc
  <1>7. CASE zalloc_woken(t)
    <2>1. req[t] \in Zone
      BY <1>7 DEF zalloc_woken, Places
    <2> QED
      BY <1>1, <1>3, <1>7, <2>1, ExpandTurn DEF zalloc_woken
  <1>8. CASE kmem_alloc_pageable(t) \/ kmem_alloc(t)
    <2>1. \/ panicked' = <<"memory", req[t]>>
          \/ pc[t] = "grow" /\ Goto(t, "cram")
          \/ pc[t] = "kmem" /\ Goto(t, "space")
      BY <1>8 DEF kmem_alloc_pageable, kmem_alloc, Obtain
    <2>2. UNCHANGED <<req, doing_alloc>>
      BY <1>8 DEF kmem_alloc_pageable, kmem_alloc, zvars
    <2>3. CASE panicked' = <<"memory", req[t]>>
      BY <2>3 DEF TurnInv, Running
    <2> QED
      BY <1>5, <2>1, <2>2, <2>3 DEF GrowPcs, Labels
  <1>9. CASE zalloc_crammed(t)
    <2> DEFINE z == req[t]
               done == [doing_alloc EXCEPT ![z] = FALSE]
               woken == [u \in Thread |-> IF pc[u] = "wait" /\ req[u] = z THEN "woken" ELSE pc[u]]
    <2>1. z \in Zone /\ pc[t] = "crammed"
      BY <1>9 DEF zalloc_crammed, Places
    <2>2. Tables(woken, req, done)
      BY <1>1, <2>1 DEF Tables, Labels
    <2>3. Turns([woken EXCEPT ![t] = "idle"], req, done)
      <3> DEFINE q == [woken EXCEPT ![t] = "idle"]
      <3>1. /\ q[t] = "idle" /\ req[t] = z /\ pc[t] \in GrowPcs
            /\ \A u \in Thread \ {t} : q[u] \in GrowPcs <=> pc[u] \in GrowPcs
            /\ \A u \in Thread \ {t} : q[u] = "wait" => pc[u] = "wait" /\ req[u] # z
        BY <2>1, <2>2 DEF GrowPcs, Tables
      <3>2. done[z] = FALSE /\ \A y \in Zone \ {z} : done[y] = doing_alloc[y]
        BY <1>1, <2>1 DEF Tables
      <3> HIDE DEF q, done, woken, z
      <3>3. Turns(q, req, done)
        BY <1>1, <2>1, <3>1, <3>2 DEF Turns, GrowPcs
      <3> QED
        BY <3>3 DEF q
    <2>4. CASE pc' = [woken EXCEPT ![t] = "idle"] /\ req' = [req EXCEPT ![t] = NoZone]
               /\ doing_alloc' = done
      <3>1. Tables([woken EXCEPT ![t] = "idle"], req, done)
        BY <2>2 DEF Tables, Labels
      <3> HIDE DEF done
      <3>2. Turns([[woken EXCEPT ![t] = "idle"] EXCEPT ![t] = "idle"], [req EXCEPT ![t] = NoZone], done)
        BY <2>3, <3>1, OtherTurn, ZenonT(30) DEF GrowPcs, Labels
      <3> QED
        BY <2>4, <3>2, ZenonT(30) DEF TurnInv
    <2>5. CASE Expand(t, z, woken, done)
      <3> HIDE DEF woken, done
      <3> QED
        BY <2>1, <2>2, <2>3, <2>5, ExpandTurn
    <2> QED
      BY <1>9, <2>4, <2>5, ZenonT(30) DEF zalloc_crammed
  <1>10. CASE zget_space(t)
    BY <1>5, <1>10 DEF zget_space, Carve, zvars, GrowPcs, Labels
  <1>11. CASE zalloc_count(t)
    <2>1. Turns([pc EXCEPT ![t] = "idle"], [req EXCEPT ![t] = NoZone], doing_alloc)
      BY <1>1, <1>11, OtherTurn, ZenonT(30) DEF zalloc_count, GrowPcs, Labels
    <2> QED
      BY <1>11, <2>1 DEF zalloc_count, TurnInv, Goto
  <1>12. CASE zget(t) \/ zfree(t)
    BY <1>4, <1>12 DEF zget, zfree, tvars
  <1>13. CASE Interrupted(t) \/ zcram(t) \/ kmem_free(t)
    BY <1>5, <1>13 DEF Interrupted, zcram, kmem_free, tvars, zvars, GrowPcs, Labels
  <1> QED
    BY <1>2, <1>6, <1>7, <1>8, <1>9, <1>10, <1>11, <1>12, <1>13 DEF Step

\* The turns, counted.
LEMMA CountTurns ==
  ASSUME TypeOK, TurnInv PROVE OneGrows
  <1> SUFFICES ASSUME Running, NEW z \in Zone
               PROVE  /\ Cardinality(Growing(z)) = IF doing_alloc[z] THEN 1 ELSE 0
                      /\ (\E t \in Thread : pc[t] = "wait" /\ req[t] = z) => doing_alloc[z]
    BY DEF OneGrows
  <1>1. Turns(pc, req, doing_alloc)
    BY DEF TurnInv
  <1>2. (\E t \in Thread : pc[t] = "wait" /\ req[t] = z) => doing_alloc[z]
    BY <1>1 DEF Turns
  <1>3. CASE doing_alloc[z]
    <2>1. PICK t \in Thread : Growing(z) = {t}
      BY <1>1, <1>3 DEF Turns, Growing, GrowPcs
    <2> QED
      BY <1>2, <1>3, <2>1, FS_Singleton, ZenonT(30)
  <1>4. CASE ~doing_alloc[z]
    <2>1. Growing(z) = {}
      BY <1>1, <1>4 DEF Turns, Growing, GrowPcs
    <2> QED
      BY <1>2, <1>4, <2>1, FS_EmptySet
  <1> QED
    BY <1>3, <1>4

\* Nobody grows a zone, or waits, at the start.
LEMMA InitTurn == Init => TurnInv
  BY DEF Init, TurnInv, Turns, GrowPcs

\* At most one thread grows a pageable zone, doing_alloc tells whether one does, and a
\* thread that waits for the growth of its zone waits for a thread that is at it, however
\* many threads ask for elements, are woken or interrupted.
THEOREM ZoneOneGrows == Spec => []OneGrows
  <1>1. ZoneInv /\ TurnInv /\ [Next]_vars => TurnInv'
    <2> SUFFICES ASSUME ZoneInv, TurnInv, [Next]_vars PROVE TurnInv'
      OBVIOUS
    <2>1. CASE Next
      BY <2>1, NextTurn DEF ZoneInv
    <2>2. CASE UNCHANGED vars
      BY <2>2 DEF vars, TurnInv, Turns, Running
    <2> QED
      BY <2>1, <2>2
  <1>2. ZoneInv /\ TurnInv => OneGrows
    BY CountTurns DEF ZoneInv
  <1> QED
    BY <1>1, <1>2, InitTurn, ZoneSafe, PTL DEF Spec

----------------------------------------------------------------------------
(* The size of a zone that is not pageable, with the elements that threads *)
(* are getting for it and have not counted yet.                            *)
FlightPcs == {"space", "kmem", "unmap", "count"}
InFlight(z) == {t \in Thread : req[t] = z /\ pc[t] \in FlightPcs}

Bounded(size, n, z) ==
  size + n * ElemSize[z] <= MaxSize[z] + (Cardinality(Thread) - 1) * ElemSize[z]

SizeInv ==
  /\ \A z \in Zone \ Pageable : Bounded(cur_size[z], Cardinality(InFlight(z)), z)
  /\ \A t \in Thread : pc[t] \in GrowPcs => req[t] \in Pageable

\* The threads that get elements are finitely many.
LEMMA FlightIsFinite ==
  ASSUME NEW z
  PROVE  /\ IsFiniteSet(InFlight(z)) /\ Cardinality(InFlight(z)) \in Nat
         /\ Cardinality(InFlight(z)) <= Cardinality(Thread) /\ Cardinality(Thread) \in Nat
         /\ Cardinality(Thread) >= 1
  <1>1. InFlight(z) \in SUBSET Thread /\ IsFiniteSet(Thread) /\ Thread # {}
    BY ThreadAssumption DEF InFlight
  <1>2. IsFiniteSet(InFlight(z)) /\ Cardinality(InFlight(z)) <= Cardinality(Thread)
    BY <1>1, FS_Subset
  <1>3. Cardinality(InFlight(z)) \in Nat /\ Cardinality(Thread) \in Nat
    BY <1>1, <1>2, FS_CardinalityType
  <1>4. Cardinality(Thread) # 0
    BY <1>1, FS_EmptySet
  <1> QED
    BY <1>2, <1>3, <1>4

\* Fewer threads, and the same size.
LEMMA FewerBounded ==
  ASSUME TypeOK, NEW z \in Zone, cur_size'[z] = cur_size[z], InFlight(z)' \subseteq InFlight(z),
         Bounded(cur_size[z], Cardinality(InFlight(z)), z)
  PROVE  Bounded(cur_size[z], Cardinality(InFlight(z)), z)'
  <1> DEFINE m == Cardinality(InFlight(z)')
             n == Cardinality(InFlight(z))
  <1>1. m \in Nat /\ n \in Nat /\ m <= n
    BY FlightIsFinite, FS_Subset, FS_CardinalityType
  <1>2. ElemSize[z] \in Nat /\ cur_size[z] \in Nat /\ MaxSize[z] \in Nat /\ Cardinality(Thread) \in Nat
    BY ZoneAssumption, FlightIsFinite DEF TypeOK
  <1>3. \A e, i, j \in Nat : i <= j => i * e <= j * e
    OBVIOUS
  <1>4. m * ElemSize[z] <= n * ElemSize[z]
    BY <1>1, <1>2, <1>3
  <1> HIDE DEF m, n
  <1>5. Bounded(cur_size'[z], m, z)
    BY <1>1, <1>2, <1>4 DEF Bounded, n
  <1> QED
    BY <1>5 DEF Bounded, m

\* The size was tested under the zone lock: whatever the others are getting fits.
LEMMA TestedBounded ==
  ASSUME TypeOK, NEW z \in Zone \ Pageable, ~Full(z), cur_size'[z] = cur_size[z]
  PROVE  Bounded(cur_size[z], Cardinality(InFlight(z)), z)'
  <1> DEFINE m == Cardinality(InFlight(z)')
             k == Cardinality(Thread)
  <1>1. InFlight(z)' \in SUBSET Thread
    BY DEF InFlight
  <1>2. m \in Nat /\ k \in Nat /\ m <= k
    BY <1>1, ThreadAssumption, FS_Subset, FS_CardinalityType
  <1>3. ElemSize[z] \in Nat /\ cur_size[z] \in Nat /\ MaxSize[z] \in Nat
    BY ZoneAssumption DEF TypeOK
  <1>4. cur_size[z] + ElemSize[z] <= MaxSize[z]
    BY <1>3 DEF Full, Increment
  <1> HIDE DEF m, k
  <1>5. \A e, i, j \in Nat : i <= j => i * e <= j * e /\ (j - 1) * e = j * e - e
    OBVIOUS
  <1>6. m * ElemSize[z] <= k * ElemSize[z] /\ (k - 1) * ElemSize[z] = k * ElemSize[z] - ElemSize[z]
    BY <1>2, <1>3, <1>5
  <1>7. cur_size[z] + m * ElemSize[z] <= MaxSize[z] + (k - 1) * ElemSize[z]
    BY <1>2, <1>3, <1>4, <1>6
  <1> QED
    BY <1>7 DEF Bounded, m, k

\* An element that was on its way is counted.
LEMMA CountedBounded ==
  ASSUME TypeOK, NEW z \in Zone, NEW t \in InFlight(z), InFlight(z)' = InFlight(z) \ {t},
         cur_size'[z] = cur_size[z] + ElemSize[z],
         Bounded(cur_size[z], Cardinality(InFlight(z)), z)
  PROVE  Bounded(cur_size[z], Cardinality(InFlight(z)), z)'
  <1> DEFINE n == Cardinality(InFlight(z))
  <1>1. n \in Nat /\ Cardinality(InFlight(z)') = n - 1
    BY FlightIsFinite, FS_RemoveElement, ZenonT(30)
  <1>2. ElemSize[z] \in Nat /\ cur_size[z] \in Nat /\ MaxSize[z] \in Nat
    BY ZoneAssumption DEF TypeOK
  <1> HIDE DEF n
  <1>3. \A e, j \in Nat : (j - 1) * e = j * e - e
    OBVIOUS
  <1>4. (n - 1) * ElemSize[z] = n * ElemSize[z] - ElemSize[z] /\ n * ElemSize[z] \in Nat
    BY <1>1, <1>2, <1>3
  <1>5. cur_size'[z] + (n - 1) * ElemSize[z] = cur_size[z] + n * ElemSize[z]
    BY <1>1, <1>2, <1>4
  <1> QED
    BY <1>1, <1>5 DEF Bounded, n

\* The loop of zalloc, whoever was woken before it.
LEMMA ExpandSize ==
  ASSUME TypeOK, SizeInv, NEW t \in Thread, NEW z \in Zone, NEW p \in [Thread -> Labels], NEW doing,
         \A u \in Thread : p[u] = pc[u] \/ (pc[u] = "wait" /\ p[u] = "woken"),
         Expand(t, z, p, doing), UNCHANGED cur_size
  PROVE  SizeInv'
  <1>1. pc \in [Thread -> Labels] /\ req \in [Thread -> Zone \cup {NoZone}] /\ NoZone \notin Zone
    BY ZoneAssumption DEF TypeOK
  <1>2. ASSUME NEW y \in Zone \ Pageable
        PROVE  InFlight(y)' \subseteq InFlight(y) \/ (y = z /\ ~Full(z))
    BY <1>1, <1>2 DEF Expand, InFlight, FlightPcs
  <1>3. ASSUME NEW u \in Thread, pc'[u] \in GrowPcs PROVE req'[u] \in Pageable
    BY <1>1, <1>3 DEF Expand, GrowPcs, SizeInv
  <1>4. ASSUME NEW y \in Zone \ Pageable
        PROVE  Bounded(cur_size[y], Cardinality(InFlight(y)), y)'
    BY <1>2, FewerBounded, TestedBounded, ZenonT(30) DEF SizeInv
  <1> QED
    BY <1>3, <1>4 DEF SizeInv

\* Every step keeps the sizes bounded.
LEMMA NextSize ==
  ASSUME TypeOK, Places, SizeInv, Next
  PROVE  SizeInv'
  <1>1. pc \in [Thread -> Labels] /\ req \in [Thread -> Zone \cup {NoZone}] /\ NoZone \notin Zone
        /\ cur_size \in [Zone -> Nat]
    BY ZoneAssumption DEF TypeOK
  <1>2. PICK t \in Thread : zget(t) \/ zfree(t) \/ zalloc(t) \/ Interrupted(t) \/ Step(t)
    BY DEF Next
  <1>3. CASE UNCHANGED <<pc, req, cur_size>>
    BY <1>3, FewerBounded DEF SizeInv, InFlight
  <1>4. ASSUME NEW l, pc[t] \in FlightPcs <=> l \in FlightPcs, pc[t] \in GrowPcs <=> l \in GrowPcs,
               Goto(t, l), UNCHANGED req, \A z \in Zone \ Pageable : cur_size'[z] = cur_size[z]
        PROVE  SizeInv'
    <2>1. \A z : InFlight(z)' = InFlight(z)
      BY <1>1, <1>4 DEF InFlight, Goto
    <2>2. \A u \in Thread : pc'[u] \in GrowPcs => req'[u] \in Pageable
      BY <1>1, <1>4 DEF SizeInv, Goto
    <2> QED
      BY <1>4, <2>1, <2>2, FewerBounded DEF SizeInv
  <1>5. CASE zalloc(t)
    BY <1>1, <1>3, <1>5, ExpandSize DEF zalloc
  <1>6. CASE zalloc_woken(t)
    BY <1>1, <1>6, ExpandSize DEF zalloc_woken, Places
  <1>7. CASE kmem_alloc_pageable(t) \/ kmem_alloc(t)
    BY <1>3, <1>4, <1>7
    DEF kmem_alloc_pageable, kmem_alloc, Obtain, zvars, FlightPcs, GrowPcs
  <1>8. CASE zcram(t)
    <2>1. req[t] \in Pageable
      BY <1>8 DEF zcram, SizeInv, GrowPcs
    <2> QED
      BY <1>1, <1>4, <1>8, <2>1 DEF zcram, FlightPcs, GrowPcs
  <1>9. CASE zalloc_crammed(t)
    <2> DEFINE z == req[t]
               done == [doing_alloc EXCEPT ![z] = FALSE]
               woken == [u \in Thread |-> IF pc[u] = "wait" /\ req[u] = z THEN "woken" ELSE pc[u]]
    <2>1. z \in Zone /\ cur_size' = cur_size
      BY <1>9 DEF zalloc_crammed, Places
    <2>2. woken \in [Thread -> Labels]
      BY <1>1 DEF Labels
    <2>3. CASE pc' = [woken EXCEPT ![t] = "idle"] /\ req' = [req EXCEPT ![t] = NoZone]
      <3>1. ASSUME NEW y \in Zone PROVE InFlight(y)' \subseteq InFlight(y)
        BY <1>1, <2>3, <3>1 DEF InFlight, FlightPcs
      <3>2. \A u \in Thread : pc'[u] \in GrowPcs => req'[u] \in Pageable
        BY <1>1, <2>3 DEF SizeInv, GrowPcs
      <3> QED
        BY <2>1, <3>1, <3>2, FewerBounded DEF SizeInv
    <2>4. CASE Expand(t, z, woken, done)
      <3>1. \A u \in Thread : woken[u] = pc[u] \/ (pc[u] = "wait" /\ woken[u] = "woken")
        OBVIOUS
      <3> HIDE DEF woken, done
      <3> QED
        BY <2>1, <2>2, <2>4, <3>1, ExpandSize
    <2> QED
      BY <1>9, <2>3, <2>4 DEF zalloc_crammed
  <1>10. CASE zget_space(t)
    BY <1>4, <1>10 DEF zget_space, Carve, zvars, FlightPcs, GrowPcs
  <1>11. CASE zalloc_count(t)
    <2>1. req[t] \in Zone /\ pc[t] = "count" /\ t \in InFlight(req[t])
      BY <1>11 DEF zalloc_count, Places, InFlight, FlightPcs
    <2>2. /\ pc' = [pc EXCEPT ![t] = "idle"] /\ req' = [req EXCEPT ![t] = NoZone]
          /\ cur_size' = [cur_size EXCEPT ![req[t]] = @ + ElemSize[req[t]]]
      BY <1>11 DEF zalloc_count, Goto
    <2>3. \A y \in Zone : InFlight(y)' = InFlight(y) \ {t}
      BY <1>1, <2>1, <2>2 DEF InFlight, FlightPcs
    <2>4. \A u \in Thread : pc'[u] \in GrowPcs => req'[u] \in Pageable
      BY <1>1, <2>2 DEF SizeInv, GrowPcs
    <2>5. ASSUME NEW y \in Zone \ Pageable
          PROVE  Bounded(cur_size[y], Cardinality(InFlight(y)), y)'
      <3>1. Bounded(cur_size[y], Cardinality(InFlight(y)), y)
        BY DEF SizeInv
      <3>2. CASE y = req[t]
        BY <1>1, <2>1, <2>2, <2>3, <3>1, <3>2, CountedBounded
      <3>3. CASE y # req[t]
        BY <1>1, <2>1, <2>2, <2>3, <3>1, <3>3, FewerBounded
      <3> QED
        BY <3>2, <3>3
    <2> QED
      BY <2>4, <2>5 DEF SizeInv
  <1>12. CASE zget(t) \/ zfree(t)
    BY <1>3, <1>12 DEF zget, zfree, tvars
  <1>13. CASE Interrupted(t) \/ kmem_free(t)
    BY <1>4, <1>13 DEF Interrupted, kmem_free, tvars, zvars, FlightPcs, GrowPcs
  <1> QED
    BY <1>2, <1>5, <1>6, <1>7, <1>8, <1>9, <1>10, <1>11, <1>12, <1>13 DEF Step

\* The sizes are bounded at the start, when all are zero.
LEMMA InitSize == Init => SizeInv
  <1> SUFFICES ASSUME Init PROVE SizeInv
    OBVIOUS
  <1>1. ASSUME NEW z \in Zone PROVE Bounded(cur_size[z], Cardinality(InFlight(z)), z)
    <2>1. cur_size[z] = 0 /\ InFlight(z) = {}
      BY <1>1 DEF Init, InFlight, FlightPcs
    <2>2. Cardinality(InFlight(z)) = 0
      BY <2>1, FS_EmptySet
    <2>3. Cardinality(Thread) \in Nat /\ Cardinality(Thread) >= 1
      BY FlightIsFinite
    <2>5. Cardinality(Thread) - 1 \in Nat /\ ElemSize[z] \in Nat /\ MaxSize[z] \in Nat
      BY <1>1, <2>3, ZoneAssumption
    <2>4. (Cardinality(Thread) - 1) * ElemSize[z] \in Nat /\ 0 * ElemSize[z] = 0
      BY <2>5
    <2> QED
      BY <2>1, <2>2, <2>5, <2>4 DEF Bounded
  <1> QED
    BY <1>1 DEF SizeInv, Init, GrowPcs

\* The elements on their way take nothing away from the size.
LEMMA SizesBounded ==
  ASSUME TypeOK, SizeInv PROVE OvershootBounded
  <1> SUFFICES ASSUME NEW z \in Zone \ Pageable
               PROVE  cur_size[z] <= MaxSize[z] + (Cardinality(Thread) - 1) * ElemSize[z]
    BY DEF OvershootBounded
  <1>1. Bounded(cur_size[z], Cardinality(InFlight(z)), z)
    BY DEF SizeInv
  <1>4. Cardinality(InFlight(z)) \in Nat /\ Cardinality(Thread) \in Nat /\ Cardinality(Thread) >= 1
    BY FlightIsFinite
  <1>2. /\ Cardinality(InFlight(z)) \in Nat /\ Cardinality(Thread) - 1 \in Nat
        /\ ElemSize[z] \in Nat /\ cur_size[z] \in Nat /\ MaxSize[z] \in Nat
    BY <1>4, ZoneAssumption DEF TypeOK
  <1>3. /\ Cardinality(InFlight(z)) * ElemSize[z] \in Nat
        /\ (Cardinality(Thread) - 1) * ElemSize[z] \in Nat
    BY <1>2
  <1> QED
    BY <1>1, <1>2, <1>3 DEF Bounded

\* A zone that is not pageable exceeds max_size by no more than the elements that the other
\* threads can be getting when the size is tested, for any number of threads.
THEOREM ZoneOvershoot == Spec => []OvershootBounded
  <1>1. ZoneInv /\ SizeInv /\ [Next]_vars => SizeInv'
    <2> SUFFICES ASSUME ZoneInv, SizeInv, [Next]_vars PROVE SizeInv'
      OBVIOUS
    <2>1. CASE Next
      BY <2>1, NextSize DEF ZoneInv
    <2>2. CASE UNCHANGED vars
      <3>1. \A z : InFlight(z)' = InFlight(z)
        BY <2>2 DEF vars, InFlight
      <3>2. \A t \in Thread : pc'[t] \in GrowPcs => req'[t] \in Pageable
        BY <2>2 DEF vars, SizeInv
      <3> QED
        BY <2>2, <3>1, <3>2, FewerBounded DEF vars, ZoneInv, SizeInv
    <2> QED
      BY <2>1, <2>2
  <1>2. ZoneInv /\ SizeInv => OvershootBounded
    BY SizesBounded DEF ZoneInv
  <1> QED
    BY <1>1, <1>2, InitSize, ZoneSafe, PTL DEF Spec
=============================================================================

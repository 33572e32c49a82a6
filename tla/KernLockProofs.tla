--------------------------- MODULE KernLockProofs ---------------------------
(***************************************************************************)
(* Proofs about KernLock, for any set of threads and any nesting bound.    *)
(* LockInv is inductive for clients that keep to the discipline of the     *)
(* callers in this tree (Liberties = {}).                                  *)
(*                                                                         *)
(* Then, kern/lock.c implements RWLock: every step of KernLock is, seen    *)
(* through Mode, a step of the readers-writer lock or none at all.  Who    *)
(* else may have the lock follows from LockInv in the state a step starts  *)
(* from and in the one it reaches, so a step only has to say what it does  *)
(* to Mode.                                                                *)
(***************************************************************************)
EXTENDS KernLock, FiniteSetTheorems, TLAPS

\* The provers, in turn, of a leaf that names none.
USE SMTT(30), ZenonT(30), Z3T(30), SMTT(60), Z3T(60), SMTT(90)

\* A read hold more is one more in read_count (lock_read, downgrade).
LEMMA CountUp ==
  ASSUME NEW S, IsFiniteSet(S), NEW x, x \notin S
  PROVE  IsFiniteSet(S \cup {x}) /\ Cardinality(S \cup {x}) = Cardinality(S) + 1
  BY FS_AddElement

\* A read hold less is one less, and the count was not zero (lock_done, upgrade).
LEMMA CountDown ==
  ASSUME NEW S, IsFiniteSet(S), NEW x \in S
  PROVE  /\ IsFiniteSet(S \ {x}) /\ Cardinality(S \ {x}) = Cardinality(S) - 1
         /\ Cardinality(S) # 0 /\ Cardinality(S) \in Nat
  <1>1. S # {}
    OBVIOUS
  <1> QED
    BY <1>1, FS_RemoveElement, FS_EmptySet, FS_CardinalityType

\* The holds of a thread that a step does not concern keep their shape.
LEMMA ShapeFrame ==
  ASSUME NEW u \in Thread, Shape(u), pc'[u] = pc[u], wr'[u] = wr[u],
         status'[u] \in {"run", status[u]},
         \A k \in 1..MaxNest : Reads(u, k)' <=> Reads(u, k),
         IsOwner(u)' <=> IsOwner(u), (wbit = u) => (wbit' = u) \/ wr[u] = 0
  PROVE  Shape(u)'
  <1>1. HoldsRead(u)' <=> HoldsRead(u)
    BY DEF HoldsRead, Reads
  <1>2. HoldsNothing(u)' <=> HoldsNothing(u)
    BY <1>1 DEF HoldsNothing
  <1>3. \A k \in 1..MaxNest : Reads(u, k) => \A j \in 1..(k - 1) : Reads(u, j)
    BY DEF Shape
  <1>4. \A k \in 1..MaxNest : Reads(u, k)' => \A j \in 1..(k - 1) : Reads(u, j)'
    BY <1>3, NestAssumption DEF Reads
  <1>5. (\A k \in 2..MaxNest : ~Reads(u, k)) => \A k \in 2..MaxNest : ~Reads(u, k)'
    BY NestAssumption DEF Reads
  <1> QED
    BY <1>1, <1>2, <1>4, <1>5 DEF Shape, IsOwner

\* lock_init() establishes the invariant.
LEMMA InitInv == Init => LockInv
  <1> SUFFICES ASSUME Init PROVE LockInv
    OBVIOUS
  <1>1. IsFiniteSet(readers) /\ Cardinality(readers) = 0
    BY FS_EmptySet DEF Init
  <1>2. PICK b \in BOOLEAN : l = lock_init(b)
    BY DEF Init
  <1>3. TypeOK
    BY <1>2, ZenonT(30) DEF Init, lock_init, TypeOK, LockData, Loops
  <1>4. Accounting
    BY <1>1, <1>2, NoThreadAssumption DEF Init, lock_init, Accounting, Bits
  <1>5. HoldShape
    BY <1>2, NoThreadAssumption DEF Init, lock_init, HoldShape, Shape, IsOwner, Reads, HoldsRead, HoldsNothing
  <1>6. Exclusion /\ UpgradeKeepsOut /\ NoSleepOnFreeLock /\ NoPanic
    BY DEF Init, Exclusion, UpgradeKeepsOut, NoSleepOnFreeLock, NoPanic
  <1> QED
    BY <1>3, <1>4, <1>5, <1>6 DEF LockInv

\* Spinning and sleeping in a wait loop.
LEMMA WaitInv ==
  ASSUME LockInv, NEW t \in Thread, Spin(t) \/ Sleep(t)
  PROVE  LockInv'
  <1> USE DEF LockInv, IsOwner, Reads, HoldsRead, HoldsNothing
  <1>1. l' \in LockData /\ l'.read_count = l.read_count /\ l'.want_write = l.want_write /\ l'.want_upgrade = l.want_upgrade
        /\ l'.recursion_depth = l.recursion_depth /\ l'.thread = l.thread /\ l'.can_sleep = l.can_sleep
        /\ (l.waiting => l'.waiting)
    BY ZenonT(30) DEF Spin, Sleep, TypeOK, LockData
  <1>2. UNCHANGED <<pc, readers, wr, wbit, ubit, panicked>>
    BY DEF Spin, Sleep, ghosts
  <1>3. TypeOK'
    BY <1>1, <1>2 DEF Spin, Sleep, TypeOK
  <1>4. Accounting'
    BY <1>1, <1>2 DEF Accounting, Bits
  <1>5. Exclusion' /\ UpgradeKeepsOut' /\ NoPanic'
    BY <1>1, <1>2 DEF Exclusion, UpgradeKeepsOut, NoPanic
  <1>6. HoldShape'
    <2> SUFFICES ASSUME NEW u \in Thread PROVE Shape(u)'
      BY DEF HoldShape
    <2>1. Shape(u)
      BY DEF HoldShape
    <2> QED
      BY <1>1, <1>2, <2>1, ZenonT(30) DEF Shape, Spin, Sleep, Loops, TypeOK
  <1>7. NoSleepOnFreeLock'
    <2>1. \A u \in Thread : Blocked(u)' <=> Blocked(u)
      BY <1>1, <1>2 DEF Blocked
    <2> QED
      BY <1>1, <1>2, <2>1 DEF NoSleepOnFreeLock, Spin, Sleep, TypeOK, LockData
  <1> QED
    BY <1>3, <1>4, <1>5, <1>6, <1>7

\* One more nested write hold of the recursive owner (lock_write, lock_try_write).
LEMMA NestWriteInv ==
  ASSUME LockInv, NEW t \in Thread, IsOwner(t), wr[t] > 0,
         l' = [l EXCEPT !.recursion_depth = @ + 1], AddWrite(t),
         UNCHANGED <<pc, status, readers, wbit, ubit, panicked>>
  PROVE  LockInv'
  <1> USE DEF LockInv, IsOwner, Reads, HoldsRead, HoldsNothing
  <1>1. /\ l' \in LockData /\ l'.recursion_depth = l.recursion_depth + 1
        /\ l'.read_count = l.read_count /\ l'.want_write = l.want_write
        /\ l'.want_upgrade = l.want_upgrade /\ l'.thread = l.thread /\ l'.waiting = l.waiting
    BY DEF TypeOK, LockData
  <1>2. wr' \in [Thread -> Nat] /\ wr'[t] = wr[t] + 1 /\ \A u \in Thread \ {t} : wr'[u] = wr[u]
    BY DEF AddWrite, TypeOK
  <1>3. TypeOK'
    BY <1>1, <1>2 DEF TypeOK
  <1>4. Accounting'
    <2>1. \A u \in Thread \ {t} : wr[u] = 0
      BY DEF Exclusion, TypeOK
    <2>2. Bits(t)'
      <3>1. Bits(t) /\ wr[t] \in Nat
        BY DEF Accounting, TypeOK
      <3> QED
        BY <1>1, <1>2, <3>1 DEF Bits
    <2>3. \A u \in Thread \ {t} : Bits(u)'
      <3>1. \A u \in Thread : Bits(u)
        BY DEF Accounting
      <3> QED
        BY <1>2, <2>1, <3>1 DEF Bits
    <2>4. wr'[t] # 0
      BY <1>2 DEF TypeOK
    <2> QED
      BY <1>1, <2>2, <2>3, <2>4 DEF Accounting
  <1>5. Exclusion'
    <2> SUFFICES ASSUME NEW a \in Thread, NEW b \in Thread, wr'[a] > 0, a # b
                 PROVE  HoldsNothing(b)'
      BY DEF Exclusion
    <2>1. wr[a] > 0 /\ b # t
      BY <1>2 DEF Exclusion, TypeOK
    <2> QED
      BY <1>2, <2>1, ZenonT(30) DEF Exclusion, TypeOK
  <1>6. UpgradeKeepsOut' /\ NoPanic'
    BY <1>1, <1>2 DEF UpgradeKeepsOut, NoPanic, TypeOK
  <1>7. HoldShape'
    <2> SUFFICES ASSUME NEW u \in Thread PROVE Shape(u)'
      BY DEF HoldShape
    <2>1. Shape(u)
      BY DEF HoldShape
    <2>2. CASE u # t
      BY <1>1, <1>2, <2>1, <2>2, ShapeFrame
    <2>3. CASE u = t
      BY <1>1, <1>2, <2>1, <2>3 DEF Shape, TypeOK
    <2> QED
      BY <2>2, <2>3
  <1>8. NoSleepOnFreeLock'
    BY <1>1 DEF NoSleepOnFreeLock, Blocked
  <1> QED
    BY <1>3, <1>4, <1>5, <1>6, <1>7, <1>8

\* A thread that holds nothing calls lock_write() or lock_read().
LEMMA EnterInv ==
  ASSUME LockInv, NEW t \in Thread, Idle(t), HoldsNothing(t),
         NEW loop \in {"want_write", "read"}, Enter(t, loop)
  PROVE  LockInv'
  <1> USE DEF LockInv, IsOwner, Reads, HoldsRead, HoldsNothing
  <1>1. UNCHANGED <<l, readers, wr, wbit, ubit, panicked>>
    BY DEF Enter
  <1>2. /\ pc' \in [Thread -> Loops \cup {"idle"}] /\ pc'[t] = loop
        /\ pc[t] = "idle" /\ \A u \in Thread \ {t} : pc'[u] = pc[u]
    BY DEF Enter, TypeOK, Loops, Idle
  <1>3. /\ status' \in [Thread -> {"run", "spun", "asleep"}]
        /\ status'[t] = "run" /\ \A u \in Thread \ {t} : status'[u] = status[u]
    BY DEF Enter, TypeOK
  <1>4. TypeOK' /\ NoPanic'
    BY <1>1, <1>2, <1>3 DEF TypeOK, NoPanic
  <1>5. Accounting'
    BY <1>1, <1>2 DEF Accounting, Bits
  <1>6. Exclusion' /\ UpgradeKeepsOut'
    BY <1>1, <1>2 DEF Exclusion, UpgradeKeepsOut
  <1>7. HoldShape'
    <2> SUFFICES ASSUME NEW u \in Thread PROVE Shape(u)'
      BY DEF HoldShape
    <2>1. Shape(u)
      BY DEF HoldShape
    <2>2. CASE u # t
      BY <1>1, <1>2, <1>3, <2>1, <2>2, ShapeFrame
    <2>3. CASE u = t
      BY <1>1, <1>2, <1>3, <2>1, <2>3 DEF Shape
    <2> QED
      BY <2>2, <2>3
  <1>8. NoSleepOnFreeLock'
    BY <1>1, <1>2, <1>3 DEF NoSleepOnFreeLock, Blocked
  <1> QED
    BY <1>4, <1>5, <1>6, <1>7, <1>8

\* No hold of any kind is out: read_count is zero and nobody writes.
LEMMA FreeLock ==
  ASSUME LockInv, l.read_count = 0
  PROVE  readers = {} /\ \A u \in Thread : ~HoldsRead(u)
  <1>1. readers = {}
    BY FS_EmptySet, ZenonT(30) DEF LockInv, Accounting, Bits
  <1> QED
    BY <1>1 DEF HoldsRead, Reads

\* The first write hold, once the loops of lock_write() or the tests of
\* lock_try_write() are passed.
LEMMA GrantWriteInv ==
  ASSUME LockInv, NEW t \in Thread, HoldsNothing(t), ~IsOwner(t), l.read_count = 0,
         l.want_upgrade = FALSE, wbit \in {t, NoThread}, wbit = t => pc[t] = "drain",
         pc[t] \in {"idle", "want_write", "drain"},
         l' = [l EXCEPT !.want_write = TRUE], wbit' = t, AddWrite(t), Leave(t),
         UNCHANGED <<readers, ubit, panicked>>
  PROVE  LockInv'
  <1> USE NoThreadAssumption DEF LockInv, IsOwner, Reads, HoldsRead
  <1>1. /\ l' \in LockData /\ l'.recursion_depth = l.recursion_depth
        /\ l'.read_count = 0 /\ l'.want_write = TRUE
        /\ l'.want_upgrade = FALSE /\ l'.thread = l.thread /\ l'.waiting = l.waiting
    BY ZenonT(30) DEF TypeOK, LockData
  <1>2. /\ wr[t] = 0 /\ wr' \in [Thread -> Nat] /\ wr'[t] = 1
        /\ \A u \in Thread \ {t} : wr'[u] = wr[u]
    BY DEF AddWrite, TypeOK, HoldsNothing
  <1>3. /\ pc' \in [Thread -> Loops \cup {"idle"}] /\ pc'[t] = "idle"
        /\ \A u \in Thread \ {t} : pc'[u] = pc[u]
    BY DEF Leave, TypeOK, Loops
  <1>4. /\ status' \in [Thread -> {"run", "spun", "asleep"}]
        /\ status'[t] = "run" /\ \A u \in Thread \ {t} : status'[u] = status[u]
    BY DEF Leave, TypeOK
  <1>5. readers = {} /\ readers' = {}
    BY FreeLock
  <1>6. ubit = NoThread /\ ubit' = NoThread
    BY DEF Accounting, Bits
  <1>7. \A u \in Thread : wr[u] = 0
    BY <1>2, <1>6 DEF Accounting, Bits, TypeOK
  <1>8. l.recursion_depth = 0
    BY <1>7 DEF Accounting, Bits
  <1>9. TypeOK' /\ NoPanic'
    BY <1>1, <1>2, <1>3, <1>4 DEF TypeOK, NoPanic
  <1>10. Accounting'
    <2>1. \A u \in Thread \ {t} : pc[u] # "drain"
      BY <1>7 DEF Accounting, Bits
    <2> QED
      BY <1>1, <1>2, <1>3, <1>5, <1>6, <1>7, <1>8, <2>1, FS_EmptySet DEF Accounting, Bits
  <1>11. Exclusion' /\ UpgradeKeepsOut'
    BY <1>2, <1>3, <1>5, <1>6, <1>7 DEF Exclusion, UpgradeKeepsOut, HoldsNothing, Accounting, Bits
  <1>12. HoldShape'
    <2> SUFFICES ASSUME NEW u \in Thread PROVE Shape(u)'
      BY DEF HoldShape
    <2>1. Shape(u)
      BY DEF HoldShape
    <2>2. CASE u # t
      BY <1>1, <1>2, <1>3, <1>4, <1>5, <1>7, <2>1, <2>2, ShapeFrame
    <2>3. CASE u = t
      BY <1>1, <1>2, <1>3, <1>4, <1>5, <2>1, <2>3 DEF Shape
    <2> QED
      BY <2>2, <2>3
  <1>13. NoSleepOnFreeLock'
    BY <1>1, <1>3, <1>4 DEF NoSleepOnFreeLock, Blocked
  <1> QED
    BY <1>9, <1>10, <1>11, <1>12, <1>13

\* A writer that finds readers or an upgrade takes the bit and goes on waiting.
LEMMA StartDrainInv ==
  ASSUME LockInv, NEW t \in Thread, Ready(t, "want_write"),
         l' = [l EXCEPT !.want_write = TRUE], wbit' = t,
         pc' = [pc EXCEPT ![t] = "drain"], status' = [status EXCEPT ![t] = "run"],
         UNCHANGED <<wr, readers, ubit, panicked>>
  PROVE  LockInv'
  <1> USE NoThreadAssumption DEF LockInv, IsOwner, Reads, HoldsRead, HoldsNothing
  <1>1. /\ l' \in LockData /\ l'.recursion_depth = l.recursion_depth
        /\ l'.read_count = l.read_count /\ l'.want_write = TRUE
        /\ l'.want_upgrade = l.want_upgrade /\ l'.thread = l.thread /\ l'.waiting = l.waiting
    BY ZenonT(30) DEF TypeOK, LockData
  <1>2. /\ pc[t] = "want_write" /\ l.want_write = FALSE /\ wbit = NoThread
        /\ pc' \in [Thread -> Loops \cup {"idle"}] /\ pc'[t] = "drain"
        /\ \A u \in Thread \ {t} : pc'[u] = pc[u]
    BY DEF Ready, Blocked, TypeOK, LockData, Loops, Accounting, Bits
  <1>3. /\ status' \in [Thread -> {"run", "spun", "asleep"}]
        /\ status'[t] = "run" /\ \A u \in Thread \ {t} : status'[u] = status[u]
    BY DEF TypeOK
  <1>4. wr[t] = 0
    BY <1>2 DEF HoldShape, Shape
  <1>5. TypeOK' /\ NoPanic'
    BY <1>1, <1>2, <1>3 DEF TypeOK, NoPanic
  <1>6. Accounting'
    BY <1>1, <1>2, <1>4 DEF Accounting, Bits
  <1>7. Exclusion' /\ UpgradeKeepsOut'
    BY <1>2 DEF Exclusion, UpgradeKeepsOut
  <1>8. HoldShape'
    <2> SUFFICES ASSUME NEW u \in Thread PROVE Shape(u)'
      BY DEF HoldShape
    <2>1. Shape(u)
      BY DEF HoldShape
    <2>2. CASE u # t
      BY <1>1, <1>2, <1>3, <2>1, <2>2, ShapeFrame
    <2>3. CASE u = t
      BY <1>1, <1>2, <1>3, <2>1, <2>3 DEF Shape
    <2> QED
      BY <2>2, <2>3
  <1>9. NoSleepOnFreeLock'
    BY <1>1, <1>2, <1>3 DEF NoSleepOnFreeLock, Blocked
  <1> QED
    BY <1>5, <1>6, <1>7, <1>8, <1>9

\* The readers an upgrade waited for are gone.
LEMMA UpgradedInv ==
  ASSUME LockInv, NEW t \in Thread, lock_upgrade_drained(t)
  PROVE  LockInv'
  <1> USE NoThreadAssumption DEF LockInv, IsOwner, Reads, HoldsRead
  <1>1. /\ pc[t] \in {"upgrade", "try_upgrade"} /\ l.read_count = 0
        /\ UNCHANGED <<l, readers, wbit, ubit, panicked>>
    BY DEF lock_upgrade_drained, Ready, Blocked, TypeOK, LockData
  <1>2. /\ wr' \in [Thread -> Nat] /\ wr'[t] = wr[t] + 1
        /\ \A u \in Thread \ {t} : wr'[u] = wr[u]
    BY DEF lock_upgrade_drained, AddWrite, TypeOK
  <1>3. /\ pc' \in [Thread -> Loops \cup {"idle"}] /\ pc'[t] = "idle"
        /\ \A u \in Thread \ {t} : pc'[u] = pc[u]
    BY DEF lock_upgrade_drained, Leave, TypeOK, Loops
  <1>4. /\ status' \in [Thread -> {"run", "spun", "asleep"}]
        /\ status'[t] = "run" /\ \A u \in Thread \ {t} : status'[u] = status[u]
    BY DEF lock_upgrade_drained, Leave, TypeOK
  <1>5. readers = {} /\ readers' = {}
    BY <1>1, FreeLock
  <1>6. /\ \A u \in Thread : wr[u] = 0
        /\ ubit = t /\ wbit # t /\ l.recursion_depth = 0
    BY <1>1 DEF Accounting, Bits, UpgradeKeepsOut
  <1>7. TypeOK' /\ NoPanic'
    BY <1>1, <1>2, <1>3, <1>4 DEF TypeOK, NoPanic
  <1>8. Accounting'
    <2>1. wr'[t] = 1 /\ \A u \in Thread \ {t} : wr'[u] = 0
      BY <1>2, <1>6
    <2> QED
      <3>1. ASSUME NEW u \in Thread PROVE Bits(u)'
        BY <1>1, <1>3, <1>6, <2>1 DEF Accounting, Bits
      <3>2. /\ IsFiniteSet(readers') /\ l'.read_count = Cardinality(readers')
            /\ l'.want_write <=> wbit' # NoThread
            /\ l'.want_upgrade <=> ubit' # NoThread
        BY <1>1, ZenonT(30) DEF Accounting
      <3>3. ~ \A u \in Thread : wr'[u] = 0
        BY <2>1
      <3> QED
        BY <3>1, <3>2, <3>3 DEF Accounting
  <1>9. Exclusion'
    BY <1>2, <1>5, <1>6 DEF Exclusion, HoldsNothing
  <1>10. UpgradeKeepsOut'
    BY <1>1, <1>3, <1>6 DEF UpgradeKeepsOut, Accounting, Bits
  <1>11. HoldShape'
    <2>1. ~IsOwner(t)
      BY <1>1 DEF HoldShape, Shape
    <2> HIDE DEF IsOwner
    <2> SUFFICES ASSUME NEW u \in Thread PROVE Shape(u)'
      BY DEF HoldShape
    <2>2. Shape(u)
      BY DEF HoldShape
    <2>3. CASE u # t
      BY <1>1, <1>2, <1>3, <1>4, <2>2, <2>3, ShapeFrame DEF IsOwner
    <2>4. CASE u = t
      BY <1>1, <1>2, <1>3, <1>4, <1>5, <1>6, <2>1, <2>4 DEF Shape, IsOwner
    <2> QED
      BY <2>3, <2>4
  <1>12. NoSleepOnFreeLock'
    BY <1>1, <1>3, <1>4 DEF NoSleepOnFreeLock, Blocked
  <1> QED
    BY <1>7, <1>8, <1>9, <1>10, <1>11, <1>12

\* One more read hold (lock_read, lock_try_read).
LEMMA GrantReadInv ==
  ASSUME LockInv, NEW t \in Thread,
         \/ IsOwner(t)
         \/ HoldsNothing(t) /\ ~IsOwner(t) /\ ~l.want_write /\ ~l.want_upgrade,
         pc[t] \in {"idle", "read"},
         l' = [l EXCEPT !.read_count = @ + 1], AddRead(t), Leave(t),
         UNCHANGED <<wr, wbit, ubit, panicked>>
  PROVE  LockInv'
  <1> USE NoThreadAssumption, NestAssumption DEF LockInv, IsOwner, Reads
  <1>1. /\ l' \in LockData /\ l'.recursion_depth = l.recursion_depth
        /\ l.read_count \in Nat /\ l'.read_count = l.read_count + 1
        /\ l'.want_write = l.want_write
        /\ l'.want_upgrade = l.want_upgrade /\ l'.thread = l.thread /\ l'.waiting = l.waiting
    BY DEF TypeOK, LockData
  <1>2. /\ pc' \in [Thread -> Loops \cup {"idle"}] /\ pc'[t] = "idle"
        /\ \A u \in Thread \ {t} : pc'[u] = pc[u]
    BY DEF Leave, TypeOK, Loops
  <1>3. /\ status' \in [Thread -> {"run", "spun", "asleep"}]
        /\ status'[t] = "run" /\ \A u \in Thread \ {t} : status'[u] = status[u]
    BY DEF Leave, TypeOK
  <1>4. PICK k \in 1..MaxNest : NewRead(t, k) /\ readers' = readers \cup {<<t, k>>}
    BY DEF AddRead
  <1>5. IsFiniteSet(readers') /\ l'.read_count = Cardinality(readers')
    BY <1>1, <1>4, CountUp DEF Accounting, Bits, NewRead
  <1>6. \A u \in Thread \ {t} : \A j \in 1..MaxNest : Reads(u, j)' <=> Reads(u, j)
    BY <1>4
  <1>7. \A u \in Thread \ {t} : wr[u] = 0
    <2>1. CASE IsOwner(t)
      BY <2>1 DEF HoldShape, Shape, Exclusion, TypeOK
    <2>2. CASE ~l.want_write /\ ~l.want_upgrade
      BY <2>2 DEF Accounting, Bits, TypeOK
    <2> QED
      BY <2>1, <2>2
  <1>8. TypeOK' /\ NoPanic'
    BY <1>1, <1>2, <1>3, <1>4 DEF TypeOK, NoPanic
  <1>9. Accounting'
    BY <1>1, <1>2, <1>5 DEF Accounting, Bits
  <1>10. Exclusion'
    <2> SUFFICES ASSUME NEW a \in Thread, NEW b \in Thread, wr'[a] > 0, a # b
                 PROVE  HoldsNothing(b)'
      BY DEF Exclusion
    <2>1. a = t /\ b # t /\ HoldsNothing(b)
      BY <1>7 DEF Exclusion
    <2> QED
      BY <1>6, <2>1 DEF HoldsNothing, HoldsRead
  <1>11. UpgradeKeepsOut'
    BY <1>2 DEF UpgradeKeepsOut
  <1>12. HoldShape'
    <2> SUFFICES ASSUME NEW u \in Thread PROVE Shape(u)'
      BY DEF HoldShape
    <2>1. Shape(u)
      BY DEF HoldShape
    <2>2. CASE u # t
      BY <1>1, <1>2, <1>3, <1>6, <2>1, <2>2, ShapeFrame
    <2>3. CASE u = t
      <3>1. Reads(t, k)' /\ HoldsRead(t)'
        BY <1>4 DEF HoldsRead
      <3>2. \A i \in 1..MaxNest : Reads(t, i)' => \A j \in 1..(i - 1) : Reads(t, j)'
        BY <1>4, <2>1, <2>3 DEF NewRead, Shape
      <3>3. ~IsOwner(t) => wr[t] = 0 /\ k = 1 /\ \A i \in 2..MaxNest : ~Reads(t, i)'
        BY <1>4, <2>1, <2>3 DEF NewRead, Shape, HoldsNothing, HoldsRead
      <3>4. IsOwner(t) => (wr[t] > 0 => wbit = t)
        BY <2>1, <2>3 DEF Shape
      <3> QED
        BY <1>1, <1>2, <1>3, <2>3, <3>1, <3>2, <3>3, <3>4 DEF Shape, HoldsNothing
    <2> QED
      BY <2>2, <2>3
  <1>13. NoSleepOnFreeLock'
    BY <1>1, <1>2, <1>3 DEF NoSleepOnFreeLock, Blocked
  <1> QED
    BY <1>8, <1>9, <1>10, <1>11, <1>12, <1>13

\* thread_wakeup(l) leaves nobody asleep, because whoever sleeps has set waiting.
LEMMA WokenAll ==
  ASSUME LockInv, status' = Woken
  PROVE  /\ status' \in [Thread -> {"run", "spun", "asleep"}]
         /\ \A u \in Thread : status'[u] \in {"run", status[u]} /\ status'[u] # "asleep"
  BY DEF LockInv, TypeOK, NoSleepOnFreeLock, Woken

\* What is left when t gives its last read hold back.
LEMMA LessRead ==
  ASSUME LockInv, NEW t \in Thread, DropRead(t)
  PROVE  /\ readers' \subseteq readers /\ IsFiniteSet(readers')
         /\ l.read_count # 0 /\ l.read_count - 1 = Cardinality(readers')
         /\ \A u \in Thread \ {t} : \A j \in 1..MaxNest : Reads(u, j)' <=> Reads(u, j)
         /\ \A i \in 1..MaxNest : Reads(t, i)' => \A j \in 1..(i - 1) : Reads(t, j)'
         /\ OneRead(t) \/ Reads(t, 1)'
         /\ OneRead(t) => ~HoldsRead(t)'
         /\ \A i \in 2..MaxNest : ~Reads(t, i) => ~Reads(t, i)'
  <1> USE NestAssumption DEF LockInv, Reads
  <1>1. PICK k \in 1..MaxNest : LastRead(t, k) /\ readers' = readers \ {<<t, k>>}
    BY DEF DropRead
  <1>2. <<t, k>> \in readers /\ \A j \in (k + 1)..MaxNest : <<t, j>> \notin readers
    BY <1>1 DEF LastRead
  <1>3. /\ IsFiniteSet(readers') /\ l.read_count # 0
        /\ l.read_count - 1 = Cardinality(readers')
    BY <1>1, <1>2, CountDown DEF Accounting, Bits
  <1>4. Shape(t)
    BY DEF HoldShape
  <1>5. \A i \in 1..MaxNest : Reads(t, i) => \A j \in 1..(i - 1) : Reads(t, j)
    BY <1>4 DEF Shape
  <1>6. \A i \in 1..MaxNest : Reads(t, i)' => \A j \in 1..(i - 1) : Reads(t, j)'
    <2> SUFFICES ASSUME NEW i \in 1..MaxNest, Reads(t, i)', NEW j \in 1..(i - 1) PROVE Reads(t, j)'
      OBVIOUS
    <2>1. Reads(t, j) /\ i < k
      BY <1>1, <1>2, <1>5
    <2> QED
      BY <1>1, <2>1
  <1>7. OneRead(t) \/ Reads(t, 1)'
    <2>1. CASE k = 1
      BY <1>2, <2>1 DEF OneRead
    <2>2. CASE k # 1
      BY <1>1, <1>2, <1>5, <2>2
    <2> QED
      BY <2>1, <2>2
  <1>8. OneRead(t) => ~HoldsRead(t)'
    <2> SUFFICES ASSUME OneRead(t), NEW i \in 1..MaxNest, Reads(t, i)' PROVE FALSE
      BY ZenonT(30) DEF HoldsRead
    <2>1. k = 1 /\ i # k /\ Reads(t, i)
      BY <1>1, <1>2 DEF OneRead
    <2> QED
      BY <2>1 DEF OneRead
  <1> QED
    BY <1>1, <1>3, <1>6, <1>7, <1>8

\* lock_read_done(), and the lock_read_to_write() that gives up: one read hold
\* less, everybody woken.
LEMMA LessReadInv ==
  ASSUME LockInv, NEW t \in Thread, Idle(t), ~(IsOwner(t) /\ OneHold(t)), DropRead(t),
         l' = [l EXCEPT !.read_count = @ - 1, !.waiting = FALSE], status' = Woken,
         UNCHANGED <<pc, wr, wbit, ubit, panicked>>
  PROVE  LockInv'
  <1> USE NoThreadAssumption, NestAssumption DEF LockInv, IsOwner
  <1>1. /\ l.read_count # 0 /\ l' \in LockData /\ l'.recursion_depth = l.recursion_depth
        /\ l'.read_count = l.read_count - 1 /\ l'.want_write = l.want_write
        /\ l'.want_upgrade = l.want_upgrade /\ l'.thread = l.thread
    <2>1. l.read_count # 0 /\ l \in LockData
      BY LessRead DEF TypeOK
    <2>2. l.read_count \in Nat /\ l.read_count - 1 \in Nat
      BY <2>1 DEF LockData
    <2> HIDE DEF LockInv
    <2> QED
      BY <2>1, <2>2, ZenonT(30) DEF LockData
  <1>2. /\ status' \in [Thread -> {"run", "spun", "asleep"}]
        /\ \A u \in Thread : status'[u] \in {"run", status[u]} /\ status'[u] # "asleep"
    BY WokenAll
  <1>3. TypeOK' /\ NoPanic'
    BY <1>1, <1>2, LessRead DEF TypeOK, NoPanic
  <1>4. Accounting'
    <2>1. IsFiniteSet(readers') /\ l'.read_count = Cardinality(readers')
      BY <1>1, LessRead
    <2> QED
      BY <1>1, <2>1 DEF Accounting, Bits
  <1>5. Exclusion' /\ UpgradeKeepsOut'
    BY LessRead, ZenonT(30) DEF Exclusion, UpgradeKeepsOut, HoldsNothing, HoldsRead, Reads
  <1>6. HoldShape'
    <2> SUFFICES ASSUME NEW u \in Thread PROVE Shape(u)'
      BY DEF HoldShape
    <2>1. Shape(u)
      BY DEF HoldShape
    <2>2. CASE u # t
      BY <1>1, <1>2, <2>1, <2>2, LessRead, ShapeFrame
    <2>3. CASE u = t
      <3>1. /\ \A i \in 1..MaxNest : Reads(t, i)' => \A j \in 1..(i - 1) : Reads(t, j)'
            /\ \A i \in 2..MaxNest : ~Reads(t, i) => ~Reads(t, i)'
        BY LessRead
      <3>2. pc[t] = "idle" /\ status'[t] = "run"
        BY <1>2, <2>1, <2>3 DEF Idle, Shape
      <3>3. HoldsRead(t)
        BY DEF DropRead, LastRead, HoldsRead
      <3>4. ~IsOwner(t) => wr[t] = 0 /\ \A i \in 2..MaxNest : ~Reads(t, i)
        BY <2>1, <2>3, <3>3 DEF Shape
      <3>5. IsOwner(t) => ~HoldsNothing(t)' /\ (wr[t] > 0 => wbit = t)
        <4>1. IsOwner(t) => wr[t] # 0 \/ ~OneRead(t)
          BY DEF OneHold
        <4>2. OneRead(t) \/ HoldsRead(t)'
          BY LessRead DEF HoldsRead
        <4> QED
          BY <2>1, <2>3, <4>1, <4>2 DEF Shape, HoldsNothing
      <3> QED
        BY <1>1, <2>3, <3>1, <3>2, <3>4, <3>5 DEF Shape
    <2> QED
      BY <2>2, <2>3
  <1>7. NoSleepOnFreeLock'
    BY <1>2 DEF NoSleepOnFreeLock
  <1> QED
    BY <1>3, <1>4, <1>5, <1>6, <1>7

\* The write hold that lock_done() and lock_write_to_read() take back is the
\* caller's own: a nested one, the upgrade bit or the write bit.
LEMMA OwnWrite ==
  ASSUME LockInv, NEW t \in Thread, wr[t] > 0,
         NEW m \in LockData, m.thread = l.thread, m.want_write = l.want_write,
         m.want_upgrade = l.want_upgrade, m.recursion_depth = l.recursion_depth
  PROVE  /\ DropWrite(m) \in LockData /\ DropWrite(m).read_count = m.read_count
         /\ DropWrite(m).thread = l.thread
         /\ DropWrite(m).want_write <=> (l.want_write /\ ~(wr[t] = 1 /\ wbit = t))
         /\ DropWrite(m).want_upgrade <=> (l.want_upgrade /\ ~(wr[t] = 1 /\ ubit = t))
         /\ wr[t] > 1 => DropWrite(m).recursion_depth = wr[t] - 2
         /\ wr[t] = 1 => DropWrite(m).recursion_depth = 0
         /\ wbit = t <=> ubit # t
         /\ ubit \in {t, NoThread}
         /\ \A u \in Thread \ {t} : wr[u] = 0
  <1> USE NoThreadAssumption DEF LockInv
  <1>2. l.recursion_depth = wr[t] - 1 /\ wr[t] \in Nat
    BY DEF Accounting, Bits, TypeOK
  <1>3. \A u \in Thread \ {t} : wr[u] = 0
    BY DEF Exclusion, HoldsNothing
  <1>4. ubit \in {t, NoThread}
    BY <1>2, <1>3 DEF Accounting, Bits, UpgradeKeepsOut, TypeOK
  <1>5. wbit = t <=> ubit # t
    BY <1>2 DEF Accounting, Bits
  <1>6. (l.want_write <=> wbit # NoThread) /\ (l.want_upgrade <=> ubit # NoThread)
    BY DEF Accounting
  <1>7. CASE m.recursion_depth # 0
    BY <1>2, <1>3, <1>4, <1>5, <1>6, <1>7 DEF DropWrite, LockData
  <1>8. CASE m.recursion_depth = 0 /\ m.want_upgrade
    <2>1. DropWrite(m) = [m EXCEPT !.want_upgrade = FALSE]
      BY <1>8 DEF DropWrite
    <2>2. /\ DropWrite(m) \in LockData /\ DropWrite(m).read_count = m.read_count
          /\ DropWrite(m).thread = m.thread /\ DropWrite(m).want_write = m.want_write
          /\ DropWrite(m).want_upgrade = FALSE /\ DropWrite(m).recursion_depth = 0
      BY <1>8, <2>1, ZenonT(30) DEF LockData
    <2>3. wr[t] = 1
      BY <1>2, <1>8
    <2> QED
      BY <1>3, <1>4, <1>5, <1>6, <1>8, <2>2, <2>3
  <1>9. CASE m.recursion_depth = 0 /\ ~m.want_upgrade
    <2>1. DropWrite(m) = [m EXCEPT !.want_write = FALSE]
      BY <1>9 DEF DropWrite
    <2>2. /\ DropWrite(m) \in LockData /\ DropWrite(m).read_count = m.read_count
          /\ DropWrite(m).thread = m.thread /\ DropWrite(m).want_upgrade = m.want_upgrade
          /\ DropWrite(m).want_write = FALSE /\ DropWrite(m).recursion_depth = 0
      BY <1>9, <2>1, ZenonT(30) DEF LockData
    <2>3. wr[t] = 1
      BY <1>2, <1>9
    <2> QED
      BY <1>3, <1>4, <1>5, <1>6, <1>9, <2>2, <2>3
  <1> QED
    BY <1>7, <1>8, <1>9

\* The ghosts follow the bit that DropWrite clears.
LEMMA OwnBits ==
  ASSUME LockInv, NEW t \in Thread, wr[t] > 0,
         NEW m \in LockData, m.thread = l.thread, m.want_write = l.want_write,
         m.want_upgrade = l.want_upgrade, m.recursion_depth = l.recursion_depth,
         BitsFollow(DropWrite(m))
  PROVE  /\ wbit' = IF wr[t] = 1 /\ wbit = t THEN NoThread ELSE wbit
         /\ ubit' = IF wr[t] = 1 THEN NoThread ELSE ubit
         /\ DropWrite(m).want_write <=> wbit' # NoThread
         /\ DropWrite(m).want_upgrade <=> ubit' # NoThread
  <1>1. (l.want_write <=> wbit # NoThread) /\ (l.want_upgrade <=> ubit # NoThread)
    BY DEF LockInv, Accounting
  <1> QED
    BY <1>1, OwnWrite, NoThreadAssumption DEF BitsFollow

\* lock_write_done().
LEMMA WriteDoneInv ==
  ASSUME LockInv, NEW t \in Thread, lock_write_done(t)
  PROVE  LockInv'
  <1> USE NoThreadAssumption, NestAssumption DEF LockInv
  <1>1. /\ Idle(t) /\ wr[t] > 0 /\ ~HoldsRead(t) /\ ~(IsOwner(t) /\ OneHold(t))
        /\ UNCHANGED <<pc, panicked, readers>> /\ status' = Woken /\ l \in LockData
        /\ wr[t] \in Nat
    BY DEF lock_write_done, lock_done, MayRelease, TypeOK
  <1>2. readers = {} /\ l.read_count = 0
    <2>1. \A u \in Thread : ~HoldsRead(u)
      BY <1>1 DEF Exclusion, HoldsNothing
    <2>2. readers = {}
      <3> SUFFICES ASSUME NEW x \in readers PROVE FALSE
        OBVIOUS
      <3>1. PICK u \in Thread, k \in 1..MaxNest : x = <<u, k>>
        BY DEF TypeOK
      <3> QED
        BY <2>1, <3>1 DEF HoldsRead, Reads
    <2> QED
      BY <2>2, FS_EmptySet DEF Accounting
  <1>3. l' = Wakeup(DropWrite(l)) /\ BitsFollow(DropWrite(l))
    BY <1>2 DEF lock_write_done, lock_done
  <1>4. /\ l' \in LockData /\ l'.read_count = 0 /\ l'.thread = l.thread
        /\ l'.want_write <=> wbit' # NoThread
        /\ l'.want_upgrade <=> ubit' # NoThread
        /\ wr[t] > 1 => l'.recursion_depth = wr[t] - 2
        /\ wr[t] = 1 => l'.recursion_depth = 0
    <2>1. /\ DropWrite(l) \in LockData /\ DropWrite(l).read_count = 0
          /\ DropWrite(l).thread = l.thread
          /\ wr[t] > 1 => DropWrite(l).recursion_depth = wr[t] - 2
          /\ wr[t] = 1 => DropWrite(l).recursion_depth = 0
      BY <1>1, <1>2, OwnWrite
    <2>2. /\ DropWrite(l).want_write <=> wbit' # NoThread
          /\ DropWrite(l).want_upgrade <=> ubit' # NoThread
      BY <1>1, <1>3, OwnBits
    <2> HIDE DEF LockInv
    <2> QED
      BY <1>3, <2>1, <2>2, ZenonT(30) DEF Wakeup, LockData
  <1>5. /\ wbit' = IF wr[t] = 1 /\ wbit = t THEN NoThread ELSE wbit
        /\ ubit' = IF wr[t] = 1 THEN NoThread ELSE ubit
    BY <1>1, <1>3, OwnBits
  <1>6. (wbit = t <=> ubit # t) /\ ubit \in {t, NoThread} /\ \A u \in Thread \ {t} : wr[u] = 0
    BY <1>1, OwnWrite
  <1>7. /\ status' \in [Thread -> {"run", "spun", "asleep"}]
        /\ \A u \in Thread : status'[u] \in {"run", status[u]} /\ status'[u] # "asleep"
    BY <1>1, WokenAll
  <1>8. /\ wr' \in [Thread -> Nat] /\ wr'[t] = wr[t] - 1
        /\ \A u \in Thread \ {t} : wr'[u] = 0
    BY <1>1, <1>6 DEF lock_write_done, TypeOK
  <1>9. TypeOK' /\ NoPanic'
    BY <1>1, <1>4, <1>5, <1>7, <1>8 DEF TypeOK, NoPanic
  <1>10. Accounting'
    <2>1. ASSUME NEW u \in Thread PROVE Bits(u)'
      BY <1>1, <1>4, <1>5, <1>6, <1>8 DEF Accounting, Bits, Idle
    <2>2. IsFiniteSet(readers') /\ l'.read_count = Cardinality(readers')
      BY <1>1, <1>2, <1>4, FS_EmptySet
    <2>3. (\A u \in Thread : wr'[u] = 0) => l'.recursion_depth = 0
      BY <1>1, <1>4, <1>8
    <2> QED
      BY <1>4, <2>1, <2>2, <2>3 DEF Accounting
  <1>11. Exclusion' /\ UpgradeKeepsOut'
    BY <1>1, <1>2, <1>5, <1>6, <1>8 DEF Exclusion, UpgradeKeepsOut, HoldsNothing, HoldsRead, Reads
  <1>12. HoldShape'
    <2> SUFFICES ASSUME NEW u \in Thread PROVE Shape(u)'
      BY DEF HoldShape
    <2>1. Shape(u)
      BY DEF HoldShape
    <2>2. \A k \in 1..MaxNest : ~Reads(u, k) /\ ~Reads(u, k)'
      BY <1>1, <1>2 DEF Reads
    <2>3. IsOwner(u)' <=> IsOwner(u)
      BY <1>4 DEF IsOwner
    <2>4. CASE u # t
      BY <1>1, <1>5, <1>6, <1>7, <1>8, <2>1, <2>2, <2>3, <2>4, ShapeFrame
    <2>5. CASE u = t
      <3>1. pc'[t] = "idle" /\ status'[t] = "run" /\ ~HoldsRead(t)'
        BY <1>1, <1>7, <2>1, <2>2, <2>5 DEF Idle, Shape, HoldsRead
      <3>2. IsOwner(t) => wr[t] > 1 /\ wbit = t
        BY <1>1, <2>1, <2>5 DEF OneHold, Shape
      <3>3. ~IsOwner(t) => wr'[t] = 0
        BY <1>1, <1>8, <2>1, <2>5 DEF Shape
      <3> QED
        BY <1>1, <1>5, <1>8, <2>2, <2>3, <2>5, <3>1, <3>2, <3>3 DEF Shape, HoldsNothing
    <2> QED
      BY <2>4, <2>5
  <1>13. NoSleepOnFreeLock'
    BY <1>7 DEF NoSleepOnFreeLock
  <1> QED
    BY <1>9, <1>10, <1>11, <1>12, <1>13

\* An upgrade that is accepted gives the read hold up and keeps writers out.
LEMMA StartUpgradeInv ==
  ASSUME LockInv, NEW t \in Thread, Idle(t), ~IsOwner(t), ~l.want_upgrade, DropRead(t),
         l' = [l EXCEPT !.read_count = @ - 1, !.want_upgrade = TRUE], ubit' = t,
         NEW loop \in {"upgrade", "try_upgrade"}, pc' = [pc EXCEPT ![t] = loop],
         UNCHANGED <<status, wr, wbit, panicked>>
  PROVE  LockInv'
  <1> USE NoThreadAssumption, NestAssumption DEF LockInv
  <1>1. /\ l' \in LockData /\ l'.recursion_depth = l.recursion_depth
        /\ l'.read_count = l.read_count - 1 /\ l'.want_write = l.want_write
        /\ l'.want_upgrade = TRUE /\ l'.thread = l.thread /\ l'.waiting = l.waiting
    <2>1. l.read_count # 0 /\ l \in LockData
      BY LessRead DEF TypeOK
    <2>2. l.read_count \in Nat /\ l.read_count - 1 \in Nat
      BY <2>1 DEF LockData
    <2> HIDE DEF LockInv
    <2> QED
      BY <2>1, <2>2, ZenonT(30) DEF LockData
  <1>2. /\ pc' \in [Thread -> Loops \cup {"idle"}] /\ pc'[t] = loop
        /\ pc[t] = "idle" /\ \A u \in Thread \ {t} : pc'[u] = pc[u]
    BY DEF Idle, TypeOK, Loops
  <1>3. HoldsRead(t) /\ Shape(t)
    BY DEF DropRead, LastRead, HoldsRead, HoldShape
  <1>4. OneRead(t) /\ wr[t] = 0
    <2>1. PICK k \in 1..MaxNest : Reads(t, k)
      BY <1>3 DEF HoldsRead
    <2>2. wr[t] = 0 /\ \A j \in 2..MaxNest : ~Reads(t, j)
      BY <1>3 DEF Shape
    <2>3. k = 1
      BY <2>1, <2>2
    <2> QED
      BY <2>1, <2>2, <2>3 DEF OneRead
  <1>5. \A u \in Thread : wr[u] = 0
    BY <1>3, <1>4 DEF Exclusion, HoldsNothing, TypeOK
  <1>6. ubit = NoThread
    BY DEF Accounting
  <1>7. TypeOK' /\ NoPanic'
    BY <1>1, <1>2, LessRead DEF TypeOK, NoPanic
  <1>8. Accounting'
    <2>1. ASSUME NEW u \in Thread PROVE Bits(u)'
      BY <1>1, <1>2, <1>5, <1>6 DEF Accounting, Bits
    <2>2. IsFiniteSet(readers') /\ l'.read_count = Cardinality(readers')
      BY <1>1, LessRead
    <2>3. l'.want_write <=> wbit' # NoThread
      BY <1>1 DEF Accounting
    <2>4. (\A u \in Thread : wr'[u] = 0) => l'.recursion_depth = 0
      BY <1>1, <1>5 DEF Accounting
    <2> QED
      BY <1>1, <2>1, <2>2, <2>3, <2>4 DEF Accounting
  <1>9. Exclusion' /\ UpgradeKeepsOut'
    BY <1>5 DEF Exclusion, UpgradeKeepsOut
  <1>10. HoldShape'
    <2> SUFFICES ASSUME NEW u \in Thread PROVE Shape(u)'
      BY DEF HoldShape
    <2>1. Shape(u)
      BY DEF HoldShape
    <2>2. IsOwner(u)' <=> IsOwner(u)
      BY <1>1 DEF IsOwner
    <2>3. CASE u # t
      BY <1>2, <2>1, <2>2, <2>3, LessRead, ShapeFrame
    <2>4. CASE u = t
      <3>1. ~HoldsRead(t)'
        BY <1>4, LessRead
      <3>2. \A k \in 1..MaxNest : ~Reads(t, k)'
        BY <3>1 DEF HoldsRead
      <3> QED
        BY <1>2, <1>4, <2>2, <2>4, <3>1, <3>2 DEF Shape, HoldsNothing
    <2> QED
      BY <2>3, <2>4
  <1>11. NoSleepOnFreeLock'
    <2> SUFFICES ASSUME NEW u \in Thread, status[u] = "asleep"
                 PROVE  l'.waiting /\ Blocked(u)'
      BY DEF NoSleepOnFreeLock
    <2>1. l.waiting /\ Blocked(u) /\ u # t /\ pc[u] # "idle"
      BY <1>2, <1>3 DEF NoSleepOnFreeLock, Shape, HoldShape
    <2>2. pc[u] \notin {"upgrade", "try_upgrade"}
      BY <1>6 DEF Accounting, Bits
    <2> QED
      BY <1>1, <1>2, <2>1, <2>2 DEF Blocked
  <1> QED
    BY <1>7, <1>8, <1>9, <1>10, <1>11

\* The recursive owner turns a nested read hold into a nested write hold.
LEMMA NestUpgradeInv ==
  ASSUME LockInv, NEW t \in Thread, Idle(t), IsOwner(t), wr[t] > 0, DropRead(t),
         l' = [l EXCEPT !.read_count = @ - 1, !.recursion_depth = @ + 1], AddWrite(t),
         UNCHANGED <<pc, status, wbit, ubit, panicked>>
  PROVE  LockInv'
  <1> USE NoThreadAssumption, NestAssumption DEF LockInv
  <1>1. /\ l' \in LockData /\ l'.recursion_depth = l.recursion_depth + 1
        /\ l'.read_count = l.read_count - 1 /\ l'.want_write = l.want_write
        /\ l'.want_upgrade = l.want_upgrade /\ l'.thread = l.thread /\ l'.waiting = l.waiting
    <2>1. l.read_count # 0 /\ l \in LockData
      BY LessRead DEF TypeOK
    <2>2. l.read_count - 1 \in Nat /\ l.recursion_depth \in Nat /\ l.recursion_depth + 1 \in Nat
      BY <2>1 DEF LockData
    <2> HIDE DEF LockInv
    <2> QED
      BY <2>1, <2>2, ZenonT(30) DEF LockData
  <1>2. wr' \in [Thread -> Nat] /\ wr'[t] = wr[t] + 1 /\ \A u \in Thread \ {t} : wr'[u] = wr[u]
    BY DEF AddWrite, TypeOK
  <1>3. Shape(t) /\ wbit = t /\ pc[t] = "idle" /\ wr[t] \in Nat
    BY DEF HoldShape, Shape, TypeOK, Idle
  <1>4. \A u \in Thread \ {t} : HoldsNothing(u)
    BY DEF Exclusion
  <1>5. TypeOK' /\ NoPanic'
    BY <1>1, <1>2, LessRead DEF TypeOK, NoPanic
  <1>6. Accounting'
    <2>1. ASSUME NEW u \in Thread PROVE Bits(u)'
      BY <1>1, <1>2, <1>3, <1>4 DEF Accounting, Bits, HoldsNothing
    <2>2. IsFiniteSet(readers') /\ l'.read_count = Cardinality(readers')
      BY <1>1, LessRead
    <2>3. (l'.want_write <=> wbit' # NoThread) /\ (l'.want_upgrade <=> ubit' # NoThread)
      BY <1>1 DEF Accounting
    <2>4. ~ \A u \in Thread : wr'[u] = 0
      BY <1>2, <1>3
    <2> QED
      BY <2>1, <2>2, <2>3, <2>4 DEF Accounting
  <1>7. Exclusion'
    <2> SUFFICES ASSUME NEW a \in Thread, NEW b \in Thread, wr'[a] > 0, a # b
                 PROVE  HoldsNothing(b)'
      BY DEF Exclusion
    <2>1. a = t /\ b # t
      BY <1>2, <1>4 DEF HoldsNothing
    <2> QED
      BY <1>2, <1>4, <2>1, LessRead, ZenonT(30) DEF HoldsNothing, HoldsRead, Reads
  <1>8. UpgradeKeepsOut'
    BY <1>3 DEF UpgradeKeepsOut, TypeOK
  <1>9. HoldShape'
    <2> SUFFICES ASSUME NEW u \in Thread PROVE Shape(u)'
      BY DEF HoldShape
    <2>1. Shape(u)
      BY DEF HoldShape
    <2>2. IsOwner(u)' <=> IsOwner(u)
      BY <1>1 DEF IsOwner
    <2>3. CASE u # t
      BY <1>2, <2>1, <2>2, <2>3, LessRead, ShapeFrame
    <2>4. CASE u = t
      <3>1. \A i \in 1..MaxNest : Reads(t, i)' => \A j \in 1..(i - 1) : Reads(t, j)'
        BY LessRead
      <3> QED
        BY <1>2, <1>3, <2>2, <2>4, <3>1 DEF Shape, HoldsNothing
    <2> QED
      BY <2>3, <2>4
  <1>10. NoSleepOnFreeLock'
    <2> SUFFICES ASSUME NEW u \in Thread, status[u] = "asleep"
                 PROVE  l'.waiting /\ Blocked(u)'
      BY DEF NoSleepOnFreeLock
    <2>1. l.waiting /\ Blocked(u) /\ u # t
      BY <1>3 DEF NoSleepOnFreeLock, Shape
    <2>2. pc[u] \notin {"drain", "upgrade", "try_upgrade"}
      BY <1>3, <2>1 DEF Accounting, Bits, UpgradeKeepsOut
    <2> QED
      BY <1>1, <2>1, <2>2 DEF Blocked
  <1> QED
    BY <1>5, <1>6, <1>7, <1>8, <1>9, <1>10

\* lock_write_to_read().
LEMMA DowngradeInv ==
  ASSUME LockInv, NEW t \in Thread, lock_write_to_read(t)
  PROVE  LockInv'
  <1> USE NoThreadAssumption, NestAssumption DEF LockInv
  <1> DEFINE m == [l EXCEPT !.read_count = @ + 1]
  <1>1. /\ Idle(t) /\ wr[t] > 0 /\ wr[t] \in Nat /\ UNCHANGED <<pc, panicked>>
        /\ status' = Woken /\ l' = Wakeup(DropWrite(m)) /\ BitsFollow(DropWrite(m))
    BY DEF lock_write_to_read, TypeOK
  <1>2. /\ m \in LockData /\ m.thread = l.thread /\ m.want_write = l.want_write
        /\ m.want_upgrade = l.want_upgrade /\ m.recursion_depth = l.recursion_depth
        /\ m.read_count = l.read_count + 1
    BY DEF TypeOK, LockData
  <1> HIDE DEF m
  <1>3. /\ l' \in LockData /\ l'.read_count = l.read_count + 1 /\ l'.thread = l.thread
        /\ l'.want_write <=> wbit' # NoThread
        /\ l'.want_upgrade <=> ubit' # NoThread
        /\ wr[t] > 1 => l'.recursion_depth = wr[t] - 2
        /\ wr[t] = 1 => l'.recursion_depth = 0
    <2>1. /\ DropWrite(m) \in LockData /\ DropWrite(m).read_count = l.read_count + 1
          /\ DropWrite(m).thread = l.thread
          /\ wr[t] > 1 => DropWrite(m).recursion_depth = wr[t] - 2
          /\ wr[t] = 1 => DropWrite(m).recursion_depth = 0
      BY <1>1, <1>2, OwnWrite
    <2>2. /\ DropWrite(m).want_write <=> wbit' # NoThread
          /\ DropWrite(m).want_upgrade <=> ubit' # NoThread
      BY <1>1, <1>2, OwnBits
    <2> HIDE DEF LockInv
    <2> QED
      BY <1>1, <2>1, <2>2, ZenonT(30) DEF Wakeup, LockData
  <1>4. /\ wbit' = IF wr[t] = 1 /\ wbit = t THEN NoThread ELSE wbit
        /\ ubit' = IF wr[t] = 1 THEN NoThread ELSE ubit
    BY <1>1, <1>2, OwnBits
  <1>5. (wbit = t <=> ubit # t) /\ ubit \in {t, NoThread} /\ \A u \in Thread \ {t} : wr[u] = 0
    BY <1>1, <1>2, OwnWrite
  <1>6. /\ status' \in [Thread -> {"run", "spun", "asleep"}]
        /\ \A u \in Thread : status'[u] \in {"run", status[u]} /\ status'[u] # "asleep"
    BY <1>1, WokenAll
  <1>7. /\ wr' \in [Thread -> Nat] /\ wr'[t] = wr[t] - 1
        /\ \A u \in Thread \ {t} : wr'[u] = 0
    BY <1>1, <1>5 DEF lock_write_to_read, TypeOK
  <1>8. PICK k \in 1..MaxNest : NewRead(t, k) /\ readers' = readers \cup {<<t, k>>}
    BY DEF lock_write_to_read, AddRead
  <1>9. IsFiniteSet(readers') /\ l'.read_count = Cardinality(readers')
    BY <1>3, <1>8, CountUp DEF Accounting, NewRead, Reads
  <1>10. \A u \in Thread \ {t} : \A j \in 1..MaxNest : Reads(u, j)' <=> Reads(u, j)
    BY <1>8 DEF Reads
  <1>11. TypeOK' /\ NoPanic'
    BY <1>1, <1>3, <1>4, <1>6, <1>7, <1>8 DEF TypeOK, NoPanic
  <1>12. Accounting'
    <2>1. ASSUME NEW u \in Thread PROVE Bits(u)'
      BY <1>1, <1>3, <1>4, <1>5, <1>7 DEF Accounting, Bits, Idle
    <2>2. (\A u \in Thread : wr'[u] = 0) => l'.recursion_depth = 0
      BY <1>1, <1>3, <1>7
    <2> QED
      BY <1>3, <1>9, <2>1, <2>2 DEF Accounting
  <1>13. Exclusion' /\ UpgradeKeepsOut'
    <2>1. \A u \in Thread \ {t} : HoldsNothing(u)'
      BY <1>1, <1>7, <1>10 DEF Exclusion, HoldsNothing, HoldsRead
    <2>2. \A u \in Thread : pc[u] \notin {"upgrade", "try_upgrade"}
      BY <1>1, <1>5 DEF UpgradeKeepsOut
    <2> QED
      BY <1>1, <1>7, <2>1, <2>2 DEF Exclusion, UpgradeKeepsOut
  <1>14. HoldShape'
    <2> SUFFICES ASSUME NEW u \in Thread PROVE Shape(u)'
      BY DEF HoldShape
    <2>1. Shape(u)
      BY DEF HoldShape
    <2>2. IsOwner(u)' <=> IsOwner(u)
      BY <1>3 DEF IsOwner
    <2>3. CASE u # t
      BY <1>1, <1>4, <1>5, <1>6, <1>7, <1>10, <2>1, <2>2, <2>3, ShapeFrame
    <2>4. CASE u = t
      <3>1. pc'[t] = "idle" /\ status'[t] = "run"
        BY <1>1, <1>6, <2>1, <2>4 DEF Idle, Shape
      <3>2. HoldsRead(t)'
        BY <1>8 DEF HoldsRead, Reads
      <3>3. \A i \in 1..MaxNest : Reads(t, i)' => \A j \in 1..(i - 1) : Reads(t, j)'
        BY <1>8, <2>1, <2>4 DEF NewRead, Shape, Reads
      <3>4. ~IsOwner(t) => wr'[t] = 0 /\ \A i \in 2..MaxNest : ~Reads(t, i)'
        BY <1>1, <1>7, <1>8, <2>1, <2>4 DEF NewRead, Shape, HoldsRead, Reads
      <3>5. IsOwner(t) => (wr'[t] > 0 => wbit' = t)
        BY <1>1, <1>4, <1>7, <2>1, <2>4 DEF Shape
      <3> QED
        BY <1>1, <2>2, <2>4, <3>1, <3>2, <3>3, <3>4, <3>5 DEF Shape, HoldsNothing
    <2> QED
      BY <2>3, <2>4
  <1>15. NoSleepOnFreeLock'
    BY <1>6 DEF NoSleepOnFreeLock
  <1> QED
    BY <1>11, <1>12, <1>13, <1>14, <1>15

\* lock_set_recursive() and lock_clear_recursive(), for a thread that has the
\* write lock by want_write, or one hold only.
LEMMA OwnerInv ==
  ASSUME LockInv, Liberties = {}, NEW t \in Thread,
         lock_set_recursive(t) \/ lock_clear_recursive(t)
  PROVE  LockInv'
  <1> USE NoThreadAssumption, NestAssumption DEF LockInv
  <1>1. lock_set_recursive(t) => wbit = t /\ wr[t] > 0 /\ l.want_write
    BY DEF lock_set_recursive, Accounting
  <1>2. /\ UNCHANGED <<pc, status, ghosts, panicked>>
        /\ l' = [l EXCEPT !.thread = t] \/ l' = [l EXCEPT !.thread = NoThread] \/ l' = l
    BY <1>1 DEF lock_set_recursive, lock_clear_recursive, TypeOK, LockData
  <1>3. /\ l' \in LockData /\ l'.recursion_depth = l.recursion_depth
        /\ l'.read_count = l.read_count /\ l'.want_write = l.want_write
        /\ l'.want_upgrade = l.want_upgrade /\ l'.waiting = l.waiting
    BY <1>2 DEF TypeOK, LockData
  <1>4. \/ l'.thread = t /\ wbit = t /\ wr[t] > 0 /\ pc[t] = "idle"
        \/ l'.thread = NoThread /\ l.thread = t /\ OneHold(t)
        \/ l'.thread = l.thread
    BY <1>1 DEF lock_set_recursive, lock_clear_recursive, TypeOK, LockData, Idle, IsOwner
  <1>5. TypeOK' /\ NoPanic'
    BY <1>2, <1>3 DEF TypeOK, NoPanic, ghosts
  <1>6. Accounting'
    BY <1>2, <1>3 DEF Accounting, Bits, ghosts
  <1>7. Exclusion' /\ UpgradeKeepsOut'
    BY <1>2 DEF Exclusion, UpgradeKeepsOut, HoldsNothing, HoldsRead, Reads, ghosts
  <1>8. HoldShape'
    <2> SUFFICES ASSUME NEW u \in Thread PROVE Shape(u)'
      BY DEF HoldShape
    <2>1. Shape(u)
      BY DEF HoldShape
    <2>2. CASE u # t
      <3>1. IsOwner(u)' <=> IsOwner(u)
        BY <1>4, <2>1, <2>2 DEF IsOwner, Shape, Exclusion
      <3> QED
        BY <1>2, <2>1, <2>2, <3>1, ShapeFrame DEF ghosts, Reads
    <2>3. CASE u = t
      BY <1>2, <1>4, <2>1, <2>3 DEF Shape, OneHold, OneRead, HoldsNothing, HoldsRead, Reads, IsOwner, ghosts
    <2> QED
      BY <2>2, <2>3
  <1>9. NoSleepOnFreeLock'
    BY <1>2, <1>3 DEF NoSleepOnFreeLock, Blocked
  <1> QED
    BY <1>5, <1>6, <1>7, <1>8, <1>9

\* lock_sleepable() and steps that change nothing.
LEMMA SleepableInv ==
  ASSUME LockInv, (\E b \in BOOLEAN : lock_sleepable(b)) \/ UNCHANGED vars
  PROVE  LockInv'
  <1>1. /\ UNCHANGED <<pc, status, readers, wr, wbit, ubit, panicked>>
        /\ l' \in LockData /\ l'.recursion_depth = l.recursion_depth
        /\ l'.read_count = l.read_count /\ l'.want_write = l.want_write
        /\ l'.want_upgrade = l.want_upgrade /\ l'.waiting = l.waiting /\ l'.thread = l.thread
    BY DEF lock_sleepable, ghosts, vars, LockInv, TypeOK, LockData
  <1>2. TypeOK' /\ NoPanic'
    BY <1>1 DEF LockInv, TypeOK, NoPanic
  <1>3. Accounting'
    BY <1>1 DEF LockInv, Accounting, Bits
  <1>4. Exclusion' /\ UpgradeKeepsOut'
    BY <1>1 DEF LockInv, Exclusion, UpgradeKeepsOut, HoldsNothing, HoldsRead, Reads
  <1>5. HoldShape'
    BY <1>1, ShapeFrame DEF LockInv, HoldShape, IsOwner, Reads
  <1>6. NoSleepOnFreeLock'
    BY <1>1 DEF LockInv, NoSleepOnFreeLock, Blocked
  <1> QED
    BY <1>2, <1>3, <1>4, <1>5, <1>6 DEF LockInv

-----------------------------------------------------------------------------
\* A thread outside lock.c is not asleep, so leaving lock.c changes nothing for it.
LEMMA IdleLeave ==
  ASSUME LockInv, NEW t \in Thread, Idle(t), UNCHANGED <<pc, status>>
  PROVE  Leave(t)
  <1>1. pc[t] = "idle" /\ status[t] = "run"
    BY DEF LockInv, HoldShape, Shape, Idle
  <1> QED
    BY <1>1 DEF Leave, LockInv, TypeOK

\* The calls and the wait loops of lock_write() and lock_try_write().
LEMMA WriteStepInv ==
  ASSUME LockInv, NEW t \in Thread,
         lock_write(t) \/ lock_write_want(t) \/ lock_write_drained(t) \/ lock_try_write(t)
  PROVE  LockInv'
  <1>1. Shape(t) /\ wr[t] \in Nat /\ l \in LockData
    BY DEF LockInv, HoldShape, TypeOK
  <1>2. CASE lock_write(t)
    <2>1. CASE IsOwner(t)
      <3>1. wr[t] > 0
        BY <1>1, <1>2, <2>1 DEF lock_write, MayWrite, Shape
      <3> QED
        BY <1>2, <2>1, <3>1, NestWriteInv DEF lock_write
    <2>2. CASE ~IsOwner(t)
      BY <1>2, <2>2, EnterInv DEF lock_write, MayWrite
    <2> QED
      BY <2>1, <2>2
  <1>3. CASE lock_write_want(t)
    <2>1. pc[t] = "want_write" /\ HoldsNothing(t) /\ ~IsOwner(t)
      BY <1>1, <1>3 DEF lock_write_want, Ready, Shape
    <2>2. ~l.want_write /\ wbit = NoThread
      BY <1>3, <2>1 DEF lock_write_want, Ready, Blocked, LockInv, Accounting
    <2>3. CASE l.read_count # 0 \/ l.want_upgrade
      BY <1>3, <2>3, StartDrainInv DEF lock_write_want
    <2>4. CASE l.read_count = 0 /\ ~l.want_upgrade
      <3>1. l.want_upgrade = FALSE
        BY <1>1, <2>4 DEF LockData
      <3> QED
        BY <1>3, <2>1, <2>2, <2>4, <3>1, NoThreadAssumption, GrantWriteInv, ZenonT(30) DEF lock_write_want
    <2> QED
      BY <2>3, <2>4
  <1>4. CASE lock_write_drained(t)
    <2>1. pc[t] = "drain" /\ HoldsNothing(t) /\ ~IsOwner(t)
      BY <1>1, <1>4 DEF lock_write_drained, Ready, Shape
    <2>2. l.read_count = 0 /\ l.want_upgrade = FALSE
      BY <1>1, <1>4, <2>1 DEF lock_write_drained, Ready, Blocked, LockData
    <2>3. wbit = t /\ l.want_write = TRUE
      BY <1>1, <2>1, NoThreadAssumption DEF LockInv, Accounting, Bits, LockData
    <2>4. l' = [l EXCEPT !.want_write = TRUE] /\ wbit' = t
      BY <1>1, <1>4, <2>3 DEF lock_write_drained, LockData
    <2> QED
      BY <1>4, <2>1, <2>2, <2>3, <2>4, GrantWriteInv, ZenonT(30) DEF lock_write_drained
  <1>5. CASE lock_try_write(t)
    <2>1. CASE IsOwner(t)
      <3>1. wr[t] > 0
        BY <1>1, <1>5, <2>1 DEF lock_try_write, MayWrite, Shape
      <3> QED
        BY <1>5, <2>1, <3>1, NestWriteInv DEF lock_try_write
    <2>2. CASE ~IsOwner(t)
      <3>1. l.want_upgrade = FALSE /\ ~l.want_write /\ wbit = NoThread
        BY <1>1, <1>5, <2>2 DEF lock_try_write, LockData, LockInv, Accounting
      <3>2. Leave(t)
        BY <1>5, IdleLeave DEF lock_try_write, MayWrite
      <3> QED
        BY <1>5, <2>2, <3>1, <3>2, NoThreadAssumption, GrantWriteInv, ZenonT(30) DEF lock_try_write, MayWrite, Idle
    <2> QED
      BY <2>1, <2>2
  <1> QED
    BY <1>2, <1>3, <1>4, <1>5

\* The calls and the wait loop of lock_read() and lock_try_read().
LEMMA ReadStepInv ==
  ASSUME LockInv, NEW t \in Thread, lock_read(t) \/ lock_read_granted(t) \/ lock_try_read(t)
  PROVE  LockInv'
  <1>1. Shape(t)
    BY DEF LockInv, HoldShape
  <1>2. CASE lock_read(t)
    <2>1. CASE IsOwner(t)
      <3>1. Leave(t)
        BY <1>2, <2>1, IdleLeave DEF lock_read, MayRead
      <3> QED
        BY <1>2, <2>1, <3>1, GrantReadInv DEF lock_read, MayRead, Idle
    <2>2. CASE ~IsOwner(t)
      BY <1>2, <2>2, EnterInv DEF lock_read, MayRead
    <2> QED
      BY <2>1, <2>2
  <1>3. CASE lock_read_granted(t)
    <2>1. pc[t] = "read" /\ HoldsNothing(t) /\ ~IsOwner(t) /\ ~l.want_write /\ ~l.want_upgrade
      BY <1>1, <1>3 DEF lock_read_granted, Ready, Blocked, Shape
    <2> QED
      BY <1>3, <2>1, GrantReadInv DEF lock_read_granted
  <1>4. CASE lock_try_read(t)
    <2>1. Leave(t)
      BY <1>4, IdleLeave DEF lock_try_read, MayRead
    <2> QED
      BY <1>4, <2>1, GrantReadInv DEF lock_try_read, MayRead, Idle
  <1> QED
    BY <1>2, <1>3, <1>4

\* lock_read_done(), lock_read_to_write() and lock_try_read_to_write(): the
\* calls that start from a read hold.
LEMMA ReaderStepInv ==
  ASSUME LockInv, Liberties = {}, NEW t \in Thread,
         lock_read_done(t) \/ lock_read_to_write(t) \/ lock_try_read_to_write(t)
  PROVE  LockInv'
  <1>1. l \in LockData /\ wr[t] \in Nat /\ (l.want_write <=> wbit # NoThread)
        /\ (l.want_upgrade <=> ubit # NoThread)
    BY DEF LockInv, TypeOK, Accounting
  <1>2. CASE lock_read_done(t)
    <2>1. DropRead(t) /\ l.read_count # 0
      BY <1>2, LessRead DEF lock_read_done
    <2>2. l' = Wakeup([l EXCEPT !.read_count = @ - 1]) /\ BitsFollow([l EXCEPT !.read_count = @ - 1])
      BY <1>2, <2>1 DEF lock_read_done, lock_done
    <2>3. l' = [l EXCEPT !.read_count = @ - 1, !.waiting = FALSE] /\ UNCHANGED <<wbit, ubit>>
      BY <1>1, <2>2 DEF Wakeup, BitsFollow, LockData
    <2> QED
      BY <1>2, <2>1, <2>3, LessReadInv, ZenonT(30) DEF lock_read_done, lock_done, MayRelease
  <1>3. CASE lock_read_to_write(t)
    <2>1. HoldsRead(t) /\ l.read_count # 0
      <3>1. PICK k \in 1..MaxNest : <<t, k>> \in readers
        BY <1>3 DEF lock_read_to_write, MayUpgrade, HoldsRead, Reads
      <3> QED
        BY <1>3, <3>1, CountDown, ZenonT(30) DEF lock_read_to_write, MayUpgrade, LockInv, Accounting
    <2>2. Idle(t) /\ DropRead(t) /\ (IsOwner(t) => wr[t] > 0) /\ UNCHANGED <<wbit, panicked>>
      BY <1>3, <2>1 DEF lock_read_to_write, MayUpgrade
    <2>3. CASE IsOwner(t)
      <3>1. l' = [l EXCEPT !.read_count = @ - 1, !.recursion_depth = @ + 1]
        BY <1>1, <1>3, <2>1, <2>3 DEF lock_read_to_write, LockData
      <3> QED
        BY <1>3, <2>1, <2>2, <2>3, <3>1, NestUpgradeInv DEF lock_read_to_write
    <2>4. CASE ~IsOwner(t) /\ l.want_upgrade
      <3>1. l' = [l EXCEPT !.read_count = @ - 1, !.waiting = FALSE]
        BY <1>1, <1>3, <2>1, <2>4 DEF lock_read_to_write, Wakeup, LockData
      <3> QED
        BY <1>3, <2>1, <2>2, <2>4, <3>1, LessReadInv DEF lock_read_to_write
    <2>5. CASE ~IsOwner(t) /\ ~l.want_upgrade
      <3>1. l' = [l EXCEPT !.read_count = @ - 1, !.want_upgrade = TRUE]
        BY <1>1, <1>3, <2>1, <2>5 DEF lock_read_to_write, LockData
      <3> QED
        BY <1>3, <2>1, <2>2, <2>5, <3>1, StartUpgradeInv DEF lock_read_to_write
    <2> QED
      BY <2>3, <2>4, <2>5
  <1>4. CASE lock_try_read_to_write(t)
    <2>1. HoldsRead(t) /\ l.read_count # 0
      <3>1. PICK k \in 1..MaxNest : <<t, k>> \in readers
        BY <1>4 DEF lock_try_read_to_write, MayUpgrade, HoldsRead, Reads
      <3> QED
        BY <1>4, <3>1, CountDown, ZenonT(30) DEF lock_try_read_to_write, MayUpgrade, LockInv, Accounting
    <2>2. /\ Idle(t) /\ DropRead(t) /\ (IsOwner(t) => wr[t] > 0)
          /\ UNCHANGED <<status, wbit, panicked>>
      BY <1>4, <2>1 DEF lock_try_read_to_write, MayUpgrade
    <2>3. CASE IsOwner(t)
      <3>1. l' = [l EXCEPT !.read_count = @ - 1, !.recursion_depth = @ + 1]
        BY <1>1, <1>4, <2>1, <2>3 DEF lock_try_read_to_write, LockData
      <3> QED
        BY <1>4, <2>1, <2>2, <2>3, <3>1, NestUpgradeInv DEF lock_try_read_to_write
    <2>4. CASE ~IsOwner(t)
      <3>1. l' = [l EXCEPT !.read_count = @ - 1, !.want_upgrade = TRUE] /\ ~l.want_upgrade
        BY <1>1, <1>4, <2>1, <2>4 DEF lock_try_read_to_write, LockData
      <3> QED
        BY <1>4, <2>1, <2>2, <2>4, <3>1, StartUpgradeInv DEF lock_try_read_to_write
    <2> QED
      BY <2>3, <2>4
  <1> QED
    BY <1>2, <1>3, <1>4

\* Every step keeps the invariant.
LEMMA NextInv ==
  ASSUME Liberties = {}, LockInv, [Next]_vars
  PROVE  LockInv'
  <1>1. ASSUME NEW t \in Thread, LockStep(t) PROVE LockInv'
    BY <1>1, WaitInv, WriteStepInv, ReadStepInv, UpgradedInv DEF LockStep
  <1>2. ASSUME NEW t \in Thread, ClientCall(t) PROVE LockInv'
    BY <1>2, WriteStepInv, ReadStepInv, ReaderStepInv, WriteDoneInv, DowngradeInv, OwnerInv
       DEF ClientCall
  <1> QED
    BY <1>1, <1>2, SleepableInv DEF Next

\* For any threads and any nesting, a client with the discipline of this tree
\* finds the lock's bookkeeping, sleepers and holds as LockInv says.
THEOREM LockSafe ==
  ASSUME Liberties = {}
  PROVE  Spec => []LockInv
  <1>1. Init => LockInv
    BY InitInv
  <1>2. LockInv /\ [Next]_vars => LockInv'
    BY NextInv
  <1> QED
    BY <1>1, <1>2, PTL DEF Spec

\* A write hold excludes every other hold, however it was granted.
THEOREM LockExclusion ==
  ASSUME Liberties = {}
  PROVE  Spec => []Exclusion
  <1>1. LockInv => Exclusion
    BY DEF LockInv
  <1> QED
    BY <1>1, LockSafe, PTL

\* Nobody sleeps on a lock that it could have: no wakeup is lost.
THEOREM LockNoLostWakeup ==
  ASSUME Liberties = {}
  PROVE  Spec => []NoSleepOnFreeLock
  <1>1. LockInv => NoSleepOnFreeLock
    BY DEF LockInv
  <1> QED
    BY <1>1, LockSafe, PTL

\* No write comes between an accepted upgrade and its write lock.
THEOREM LockUpgradeAtomic ==
  ASSUME Liberties = {}
  PROVE  Spec => []UpgradeKeepsOut
  <1>1. LockInv => UpgradeKeepsOut
    BY DEF LockInv
  <1> QED
    BY <1>1, LockSafe, PTL

-----------------------------------------------------------------------------
(* KernLock implements RWLock *)

\* The modes of the lock, one disjunct of Mode at a time.
LEMMA ModeCases ==
  ASSUME LockInv, NEW t \in Thread
  PROVE  /\ Mode(t) = "write" <=> wr[t] > 0
         /\ Mode(t) = "read" <=> wr[t] = 0 /\ HoldsRead(t)
         /\ Mode(t) = "upgrading" <=> pc[t] \in {"upgrade", "try_upgrade"}
         /\ Mode(t) \in {"none", "read", "upgrading", "write"}
  <1>1. wr[t] \in Nat /\ Shape(t)
    BY DEF LockInv, TypeOK, HoldShape
  <1> QED
    BY <1>1 DEF Mode, Shape, HoldsNothing

\* Whoever has the lock for write is alone, an accepted upgrade included.
LEMMA WriterAlone ==
  ASSUME LockInv, NEW t \in Thread, Mode(t) = "write", NEW u \in Thread \ {t}
  PROVE  Mode(u) = "none"
  <1>1. wr[t] > 0
    BY ModeCases
  <1>2. HoldsNothing(u)
    BY <1>1 DEF LockInv, Exclusion
  <1>3. pc[u] \notin {"upgrade", "try_upgrade"}
    BY <1>1 DEF LockInv, UpgradeKeepsOut, TypeOK
  <1>4. wr[u] = 0 /\ ~HoldsRead(u)
    BY <1>2 DEF HoldsNothing
  <1> QED
    BY <1>3, <1>4, ModeCases

\* want_upgrade belongs to one thread, so only one upgrade is pending.
LEMMA OneUpgrade ==
  ASSUME LockInv, NEW t \in Thread, Mode(t) = "upgrading"
  PROVE  /\ l.want_upgrade
         /\ \A u \in Thread \ {t} : Mode(u) \in {"none", "read"}
  <1>1. pc[t] \in {"upgrade", "try_upgrade"}
    BY ModeCases
  <1>2. ubit = t
    BY <1>1 DEF LockInv, Accounting, Bits
  <1>3. l.want_upgrade
    BY <1>2, NoThreadAssumption DEF LockInv, Accounting
  <1>4. ASSUME NEW u \in Thread \ {t} PROVE Mode(u) \in {"none", "read"}
    <2>1. pc[u] \notin {"upgrade", "try_upgrade"}
      BY <1>2 DEF LockInv, Accounting, Bits
    <2>2. wr[u] = 0
      BY <1>1 DEF LockInv, UpgradeKeepsOut
    <2> QED
      BY <2>1, <2>2, ModeCases
  <1> QED
    BY <1>3, <1>4

\* What the mode of one thread says of the others.
Compatible ==
    /\ \A t \in Thread : Mode(t) \in {"none", "read", "upgrading", "write"}
    /\ \A t \in Thread : Mode(t) = "write" => \A u \in Thread \ {t} : Mode(u) = "none"
    /\ \A t \in Thread : Mode(t) = "upgrading" =>
          /\ l.want_upgrade
          /\ \A u \in Thread \ {t} : Mode(u) \in {"none", "read"}

\* The invariant makes the holds of the threads compatible, before a step
LEMMA InvCompatible == LockInv => Compatible
  BY ModeCases, WriterAlone, OneUpgrade DEF Compatible

\* and after it.
LEMMA InvCompatibleNext == LockInv' => Compatible'
  BY InvCompatible, PTL

\* A thread that a step does not concern keeps its mode.
LEMMA ModeFrame ==
  ASSUME NEW u \in Thread, pc'[u] = pc[u], wr'[u] = wr[u],
         \A k \in 1..MaxNest : Reads(u, k)' <=> Reads(u, k)
  PROVE  Mode(u)' = Mode(u)
  <1>1. HoldsRead(u)' <=> HoldsRead(u)
    BY DEF HoldsRead
  <1> QED
    BY <1>1 DEF Mode

\* The changes of one thread's mode that RWLock allows.
Moves == {<<"none", "read">>, <<"none", "write">>, <<"read", "upgrading">>,
          <<"upgrading", "write">>, <<"write", "read">>,
          <<"read", "none">>, <<"write", "none">>}

\* What a step does to the modes: it moves t at most, and lets it in as a
\* reader only when no upgrade is pending.
Moved(t) ==
    /\ \A u \in Thread \ {t} : Mode(u)' = Mode(u)
    /\ Mode(t)' = Mode(t) \/ <<Mode(t), Mode(t)'>> \in Moves
    /\ Mode(t) = "none" /\ Mode(t)' = "read" => ~l.want_upgrade

\* A step that moves one thread is a step of RWLock: the invariant on both
\* sides of it says what the others have.
LEMMA MoveStep ==
  ASSUME Compatible, Compatible', NEW t \in Thread, Moved(t)
  PROVE  [RW!Next]_modes
  <1>1. /\ \A u \in Thread : modes[u] = Mode(u) /\ modes'[u] = Mode(u)'
        /\ modes' = [modes EXCEPT ![t] = Mode(t)']
    BY ZenonT(30) DEF Moved, modes
  <1>2. \A to : Mode(t)' = to =>
          /\ RW!Change(t, Mode(t), to)
          /\ \A S : (\A u \in Thread \ {t} : Mode(u) \in S) => RW!OthersIn(t, S)
    BY <1>1 DEF RW!Change, RW!OthersIn
  <1>3. CASE Mode(t)' = Mode(t)
    BY <1>3 DEF Moved, modes
  <1>4. CASE Mode(t)' = "write" /\ Mode(t) \in {"none", "upgrading"}
    <2>1. \A u \in Thread \ {t} : Mode(u) \in {"none"}
      BY <1>4 DEF Compatible, Moved
    <2> QED
      BY <1>2, <1>4, <2>1 DEF RW!Next, RW!AcquireWrite, RW!FinishUpgrade
  <1>5. CASE Mode(t)' = "read" /\ Mode(t) = "none"
    <2>1. \A u \in Thread \ {t} : Mode(u) \in {"none", "read"}
      BY <1>5 DEF Compatible, Moved
    <2> QED
      BY <1>2, <1>5, <2>1 DEF RW!Next, RW!AcquireRead
  <1>6. CASE Mode(t)' = "upgrading" /\ Mode(t) = "read"
    <2>1. \A u \in Thread \ {t} : Mode(u) \in {"none", "read"}
      BY <1>6 DEF Compatible, Moved
    <2> QED
      BY <1>2, <1>6, <2>1 DEF RW!Next, RW!BeginUpgrade
  <1>7. CASE Mode(t)' = "read" /\ Mode(t) = "write"
    <2>1. \A u \in Thread \ {t} : Mode(u) \in {"none"}
      BY <1>7 DEF Compatible
    <2> QED
      BY <1>2, <1>7, <2>1 DEF RW!Next, RW!Downgrade
  <1>8. CASE Mode(t)' = "none" /\ Mode(t) \in {"read", "write"}
    BY <1>2, <1>8 DEF RW!Next, RW!Release
  <1> QED
    BY <1>3, <1>4, <1>5, <1>6, <1>7, <1>8 DEF Moved, Moves
-----------------------------------------------------------------------------
(* What the steps do to the modes.                                         *)

\* Holds are added to and taken from the thread that makes the call.
LEMMA OthersKeep ==
  ASSUME NEW t \in Thread,
         \A u \in Thread \ {t} : pc'[u] = pc[u] /\ wr'[u] = wr[u],
         readers' = readers \/ AddRead(t) \/ DropRead(t),
         NEW u \in Thread \ {t}
  PROVE  Mode(u)' = Mode(u)
  <1>1. \A k \in 1..MaxNest : Reads(u, k)' <=> Reads(u, k)
    BY DEF Reads, AddRead, DropRead
  <1> QED
    BY <1>1, ModeFrame

\* A call that gains or loses no hold and starts or ends no upgrade.
LEMMA StillMoved ==
  ASSUME NEW t \in Thread, UNCHANGED <<readers, wr>>,
         \A u \in Thread \ {t} : pc'[u] = pc[u],
         \/ pc'[t] = pc[t]
         \/ {pc[t], pc'[t]} \cap {"upgrade", "try_upgrade"} = {}
  PROVE  Moved(t)
  <1>1. Mode(t)' = Mode(t)
    BY DEF Mode, HoldsRead, Reads
  <1> QED
    BY <1>1, OthersKeep DEF Moved

\* A thread that holds the lock for write already is granted or loses a nested
\* hold of either kind.
LEMMA NestedMoved ==
  ASSUME LockInv, LockInv', NEW t \in Thread, wr[t] > 0, wr'[t] > 0,
         \A u \in Thread \ {t} : pc'[u] = pc[u] /\ wr'[u] = wr[u],
         readers' = readers \/ AddRead(t) \/ DropRead(t)
  PROVE  Moved(t)
  <1>1. Mode(t) = "write" /\ Mode(t)' = "write"
    BY DEF Mode
  <1> QED
    BY <1>1, OthersKeep DEF Moved

\* The write lock is granted to a thread without it.
LEMMA GrantWriteMoved ==
  ASSUME LockInv, NEW t \in Thread, AddWrite(t), Leave(t), UNCHANGED readers,
         wr[t] = 0 /\ ~HoldsRead(t)
  PROVE  Moved(t)
  <1>1. wr \in [Thread -> Nat] /\ pc \in [Thread -> Loops \cup {"idle"}]
    BY DEF LockInv, TypeOK
  <1>2. Mode(t) \in {"none", "upgrading"} /\ Mode(t)' = "write"
    BY <1>1 DEF Mode, AddWrite
  <1>3. \A u \in Thread \ {t} : pc'[u] = pc[u] /\ wr'[u] = wr[u]
    BY <1>1 DEF AddWrite, Leave
  <1> QED
    BY <1>2, <1>3, OthersKeep DEF Moved, Moves

\* A read hold is granted to a thread without one, no upgrade being pending, or
\* to the recursive owner.
LEMMA GrantReadMoved ==
  ASSUME LockInv, NEW t \in Thread, AddRead(t), UNCHANGED wr,
         \A u \in Thread \ {t} : pc'[u] = pc[u],
         IsOwner(t) \/ (HoldsNothing(t) /\ ~l.want_upgrade /\ pc[t] \notin {"upgrade", "try_upgrade"})
  PROVE  Moved(t)
  <1>1. HoldsRead(t)'
    BY DEF AddRead, HoldsRead, Reads
  <1>2. wr[t] \in Nat /\ Shape(t)
    BY DEF LockInv, TypeOK, HoldShape
  <1>3. CASE wr[t] > 0
    <2>1. Mode(t) = "write" /\ Mode(t)' = "write"
      BY <1>3 DEF Mode
    <2> QED
      BY <2>1, OthersKeep DEF Moved
  <1>4. CASE wr[t] = 0 /\ HoldsRead(t)
    <2>1. Mode(t) = "read" /\ Mode(t)' = "read"
      BY <1>1, <1>4 DEF Mode
    <2> QED
      BY <2>1, OthersKeep DEF Moved
  <1>5. CASE wr[t] = 0 /\ ~HoldsRead(t)
    <2>1. ~IsOwner(t)
      BY <1>2, <1>5 DEF Shape, HoldsNothing
    <2>2. Mode(t) = "none" /\ Mode(t)' = "read"
      BY <1>1, <1>5, <2>1 DEF Mode
    <2> QED
      BY <2>1, <2>2, OthersKeep DEF Moved, Moves
  <1> QED
    BY <1>2, <1>3, <1>4, <1>5

\* A read hold is given back; what is left of it in its mode depends on the
\* others the thread has.
LEMMA DropReadMoved ==
  ASSUME LockInv, NEW t \in Thread, DropRead(t), UNCHANGED wr, pc[t] = "idle",
         \A u \in Thread \ {t} : pc'[u] = pc[u],
         \/ pc'[t] = "idle"
         \/ wr[t] = 0 /\ ~IsOwner(t) /\ pc'[t] \in {"upgrade", "try_upgrade"}
  PROVE  Moved(t)
  <1>1. wr[t] \in Nat /\ Shape(t) /\ HoldsRead(t)
    BY DEF LockInv, TypeOK, HoldShape, DropRead, LastRead, HoldsRead
  <1>2. CASE wr[t] > 0
    <2>1. Mode(t) = "write" /\ Mode(t)' = "write"
      BY <1>2 DEF Mode
    <2> QED
      BY <2>1, OthersKeep DEF Moved
  <1>3. CASE wr[t] = 0 /\ pc'[t] = "idle"
    <2>1. Mode(t) = "read" /\ Mode(t)' \in {"read", "none"}
      BY <1>1, <1>3 DEF Mode
    <2> QED
      BY <2>1, OthersKeep DEF Moved, Moves
  <1>4. CASE wr[t] = 0 /\ ~IsOwner(t) /\ pc'[t] \in {"upgrade", "try_upgrade"}
    <2>1. \A k \in 2..MaxNest : ~Reads(t, k)
      BY <1>1, <1>4 DEF Shape
    <2>2. PICK k \in 1..MaxNest : LastRead(t, k) /\ readers' = readers \ {<<t, k>>}
      BY DEF DropRead
    <2>3. k = 1
      BY <2>1, <2>2, NestAssumption DEF LastRead
    <2>4. ~HoldsRead(t)'
      <3>1. \A j \in 1..MaxNest : j = 1 \/ j \in 2..MaxNest
        BY NestAssumption
      <3>2. \A j \in 1..MaxNest : <<t, j>> \notin readers'
        BY <2>1, <2>2, <2>3, <3>1 DEF Reads
      <3> QED
        BY <3>2, ZenonT(30) DEF HoldsRead, Reads
    <2>5. Mode(t) = "read" /\ Mode(t)' = "upgrading"
      BY <1>1, <1>4, <2>4 DEF Mode
    <2> QED
      BY <2>5, OthersKeep DEF Moved, Moves
  <1> QED
    BY <1>1, <1>2, <1>3, <1>4

\* A write hold is given back or turned into a read hold.
LEMMA DropWriteMoved ==
  ASSUME LockInv, NEW t \in Thread, wr[t] > 0, wr' = [wr EXCEPT ![t] = @ - 1],
         UNCHANGED pc,
         \/ UNCHANGED readers /\ ~HoldsRead(t)
         \/ AddRead(t)
  PROVE  Moved(t)
  <1>1. wr \in [Thread -> Nat] /\ Shape(t)
    BY DEF LockInv, TypeOK, HoldShape
  <1>2. \A u \in Thread \ {t} : pc'[u] = pc[u] /\ wr'[u] = wr[u]
    BY <1>1
  <1>3. Mode(t) = "write"
    BY DEF Mode
  <1>4. pc[t] = "idle"
    BY <1>1 DEF Shape, HoldsNothing
  <1>5. Mode(t)' \in {"write", "read", "none"}
    BY <1>1, <1>4 DEF Mode
  <1> QED
    BY <1>2, <1>3, <1>5, OthersKeep DEF Moved, Moves

-----------------------------------------------------------------------------
(* The steps, as they were sorted for LockInv.                             *)

\* The calls and the wait loops of lock_write() and lock_try_write().
LEMMA WriteStepMoved ==
  ASSUME LockInv, LockInv', NEW t \in Thread,
         lock_write(t) \/ lock_write_want(t) \/ lock_write_drained(t) \/ lock_try_write(t)
  PROVE  Moved(t)
  <1>1. /\ wr \in [Thread -> Nat] /\ pc \in [Thread -> Loops \cup {"idle"}]
        /\ status \in [Thread -> {"run", "spun", "asleep"}] /\ Shape(t)
    BY DEF LockInv, TypeOK, HoldShape
  <1>2. ASSUME IsOwner(t), MayWrite(t), AddWrite(t), UNCHANGED <<pc, readers>> PROVE Moved(t)
    <2>1. wr[t] > 0 /\ wr'[t] > 0 /\ \A u \in Thread \ {t} : pc'[u] = pc[u] /\ wr'[u] = wr[u]
      BY <1>1, <1>2 DEF MayWrite, AddWrite, Shape
    <2> QED
      BY <1>2, <2>1, NestedMoved
  <1>3. CASE lock_write(t)
    <2>1. CASE IsOwner(t)
      BY <1>2, <1>3, <2>1 DEF lock_write
    <2>2. CASE ~IsOwner(t)
      <3>1. UNCHANGED <<readers, wr>> /\ pc' = [pc EXCEPT ![t] = "want_write"] /\ pc[t] = "idle"
        BY <1>3, <2>2 DEF lock_write, Enter, MayWrite, Idle
      <3> QED
        BY <1>1, <3>1, StillMoved
    <2> QED
      BY <2>1, <2>2
  <1>4. CASE lock_write_want(t)
    <2>1. pc[t] = "want_write" /\ wr[t] = 0 /\ ~HoldsRead(t) /\ UNCHANGED readers
      BY <1>1, <1>4 DEF lock_write_want, Ready, Shape, HoldsNothing
    <2>2. CASE pc' = [pc EXCEPT ![t] = "drain"] /\ UNCHANGED wr
      BY <1>1, <2>1, <2>2, StillMoved
    <2>3. CASE Leave(t) /\ AddWrite(t)
      BY <2>1, <2>3, GrantWriteMoved
    <2> QED
      BY <1>4, <2>2, <2>3 DEF lock_write_want
  <1>5. CASE lock_write_drained(t)
    <2>1. wr[t] = 0 /\ ~HoldsRead(t)
      BY <1>1, <1>5 DEF lock_write_drained, Ready, Shape, HoldsNothing
    <2> QED
      BY <1>5, <2>1, GrantWriteMoved DEF lock_write_drained
  <1>6. CASE lock_try_write(t)
    <2>1. CASE IsOwner(t)
      BY <1>2, <1>6, <2>1 DEF lock_try_write
    <2>2. CASE ~IsOwner(t)
      <3>1. wr[t] = 0 /\ ~HoldsRead(t) /\ Leave(t)
        BY <1>6, <2>2, IdleLeave DEF lock_try_write, MayWrite, HoldsNothing
      <3> QED
        BY <1>6, <3>1, GrantWriteMoved DEF lock_try_write
    <2> QED
      BY <2>1, <2>2
  <1> QED
    BY <1>3, <1>4, <1>5, <1>6

\* The calls and the wait loop of lock_read() and lock_try_read().
LEMMA ReadStepMoved ==
  ASSUME LockInv, NEW t \in Thread, lock_read(t) \/ lock_read_granted(t) \/ lock_try_read(t)
  PROVE  Moved(t)
  <1>1. pc \in [Thread -> Loops \cup {"idle"}] /\ Shape(t)
    BY DEF LockInv, TypeOK, HoldShape
  <1>2. CASE lock_read(t)
    <2>1. CASE IsOwner(t)
      BY <1>2, <2>1, GrantReadMoved DEF lock_read
    <2>2. CASE ~IsOwner(t)
      <3>1. UNCHANGED <<readers, wr>> /\ pc' = [pc EXCEPT ![t] = "read"] /\ pc[t] = "idle"
        BY <1>2, <2>2 DEF lock_read, Enter, MayRead, Idle
      <3> QED
        BY <1>1, <3>1, StillMoved
    <2> QED
      BY <2>1, <2>2
  <1>3. CASE lock_read_granted(t)
    <2>1. pc[t] = "read" /\ HoldsNothing(t) /\ ~l.want_upgrade
      BY <1>1, <1>3 DEF lock_read_granted, Ready, Blocked, Shape
    <2>2. AddRead(t) /\ UNCHANGED wr /\ \A u \in Thread \ {t} : pc'[u] = pc[u]
      BY <1>1, <1>3 DEF lock_read_granted, Leave
    <2> QED
      BY <2>1, <2>2, GrantReadMoved
  <1>4. CASE lock_try_read(t)
    BY <1>4, GrantReadMoved DEF lock_try_read, MayRead, Idle
  <1> QED
    BY <1>2, <1>3, <1>4

\* lock_done() of a reader, and the upgrades.
LEMMA ReaderStepMoved ==
  ASSUME LockInv, LockInv', Liberties = {}, NEW t \in Thread,
         lock_read_done(t) \/ lock_read_to_write(t) \/ lock_try_read_to_write(t)
  PROVE  Moved(t)
  <1>1. /\ wr \in [Thread -> Nat] /\ pc \in [Thread -> Loops \cup {"idle"}]
        /\ Shape(t)
    BY DEF LockInv, TypeOK, HoldShape
  <1>2. CASE lock_read_done(t)
    <2>1. DropRead(t) /\ UNCHANGED <<wr, pc>> /\ pc[t] = "idle"
      BY <1>2 DEF lock_read_done, lock_done, MayRelease, Idle
    <2> QED
      BY <2>1, DropReadMoved
  <1>3. ASSUME MayUpgrade(t), IsOwner(t), DropRead(t), AddWrite(t), UNCHANGED pc PROVE Moved(t)
    <2>1. wr[t] > 0 /\ wr'[t] > 0 /\ \A u \in Thread \ {t} : pc'[u] = pc[u] /\ wr'[u] = wr[u]
      BY <1>1, <1>3 DEF MayUpgrade, AddWrite
    <2> QED
      BY <1>3, <2>1, NestedMoved
  <1>4. ASSUME MayUpgrade(t), ~IsOwner(t), DropRead(t), UNCHANGED wr,
               NEW loop \in {"idle", "upgrade", "try_upgrade"}, pc' = [pc EXCEPT ![t] = loop]
        PROVE  Moved(t)
    <2>1. wr[t] = 0 /\ pc[t] = "idle" /\ pc'[t] = loop /\ \A u \in Thread \ {t} : pc'[u] = pc[u]
      BY <1>1, <1>4 DEF MayUpgrade, Idle, Shape
    <2> QED
      BY <1>4, <2>1, DropReadMoved
  <1>5. MayUpgrade(t) => pc = [pc EXCEPT ![t] = "idle"]
    BY <1>1 DEF MayUpgrade, Idle
  <1>6. ASSUME UNCHANGED <<readers, wr, pc>> PROVE Moved(t)
    BY <1>6, StillMoved
  <1>7. CASE lock_read_to_write(t)
    <2>1. MayUpgrade(t)
      BY <1>7 DEF lock_read_to_write
    <2>2. \/ UNCHANGED <<readers, wr, pc>>
          \/ DropRead(t) /\ IsOwner(t) /\ AddWrite(t) /\ UNCHANGED pc
          \/ DropRead(t) /\ ~IsOwner(t) /\ UNCHANGED <<wr, pc>>
          \/ DropRead(t) /\ ~IsOwner(t) /\ UNCHANGED wr /\ pc' = [pc EXCEPT ![t] = "upgrade"]
      BY <1>7 DEF lock_read_to_write, Panic
    <2> QED
      BY <1>3, <1>4, <1>5, <1>6, <2>1, <2>2
  <1>8. CASE lock_try_read_to_write(t)
    <2>1. MayUpgrade(t)
      BY <1>8 DEF lock_try_read_to_write
    <2>2. \/ UNCHANGED <<readers, wr, pc>>
          \/ DropRead(t) /\ IsOwner(t) /\ AddWrite(t) /\ UNCHANGED pc
          \/ DropRead(t) /\ ~IsOwner(t) /\ UNCHANGED wr /\ pc' = [pc EXCEPT ![t] = "try_upgrade"]
      BY <1>8 DEF lock_try_read_to_write, Panic
    <2> QED
      BY <1>3, <1>4, <1>6, <2>1, <2>2
  <1> QED
    BY <1>2, <1>7, <1>8

\* The rest: waiting, the upgrade that got its write lock, lock_write_done(),
\* the downgrade and the recursive owner.
LEMMA OtherStepMoved ==
  ASSUME LockInv, NEW t \in Thread,
         \/ Spin(t) \/ Sleep(t) \/ lock_upgrade_drained(t) \/ lock_write_done(t)
         \/ lock_write_to_read(t) \/ lock_set_recursive(t) \/ lock_clear_recursive(t)
  PROVE  Moved(t)
  <1>1. Shape(t)
    BY DEF LockInv, HoldShape
  <1>2. CASE Spin(t) \/ Sleep(t) \/ lock_set_recursive(t) \/ lock_clear_recursive(t)
    <2>1. UNCHANGED <<readers, wr, pc>>
      BY <1>2 DEF Spin, Sleep, lock_set_recursive, lock_clear_recursive, ghosts, Panic
    <2> QED
      BY <2>1, StillMoved
  <1>3. CASE lock_upgrade_drained(t)
    <2>1. wr[t] = 0 /\ ~HoldsRead(t)
      BY <1>1, <1>3 DEF lock_upgrade_drained, Ready, Shape, HoldsNothing
    <2> QED
      BY <1>3, <2>1, GrantWriteMoved DEF lock_upgrade_drained
  <1>4. CASE lock_write_done(t)
    BY <1>4, DropWriteMoved, ZenonT(30) DEF lock_write_done, lock_done
  <1>5. CASE lock_write_to_read(t)
    BY <1>5, DropWriteMoved, ZenonT(30) DEF lock_write_to_read
  <1> QED
    BY <1>2, <1>3, <1>4, <1>5

\* Every step is a step of the abstract lock or leaves it as it is.
LEMMA NextImplements ==
  ASSUME Liberties = {}, LockInv, LockInv', [Next]_vars
  PROVE  [RW!Next]_modes
  <1>1. Compatible /\ Compatible'
    BY InvCompatible, InvCompatibleNext
  <1>2. ASSUME NEW t \in Thread, LockStep(t) \/ ClientCall(t) PROVE Moved(t)
    BY <1>2, WriteStepMoved, ReadStepMoved, ReaderStepMoved, OtherStepMoved
       DEF LockStep, ClientCall
  <1>3. ASSUME UNCHANGED <<readers, wr, pc>> PROVE UNCHANGED modes
    BY <1>3 DEF modes, Mode, HoldsRead, Reads
  <1>4. ASSUME NEW b \in BOOLEAN, lock_sleepable(b) PROVE UNCHANGED <<readers, wr, pc>>
    BY <1>4 DEF lock_sleepable, ghosts
  <1> QED
    BY <1>1, <1>2, <1>3, <1>4, MoveStep DEF Next, vars

\* kern/lock.c implements the readers-writer lock of RWLock, for any threads and
\* any nesting of its recursive owner.
THEOREM LockImplementsRWLock ==
  ASSUME Liberties = {}
  PROVE  Spec => ImplementsRWLock
  <1>1. Init => RW!Init
    BY DEF Init, RW!Init, modes, Mode, HoldsRead, Reads
  <1>2. LockInv /\ LockInv' /\ [Next]_vars => [RW!Next]_modes
    BY NextImplements
  <1>3. Spec => []LockInv
    BY LockSafe
  <1> QED
    BY <1>1, <1>2, <1>3, PTL DEF Spec, ImplementsRWLock, RW!Spec
=============================================================================

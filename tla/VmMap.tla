------------------------------- MODULE VmMap -------------------------------
(***************************************************************************)
(* The address maps of tasks and the memory objects behind them: the       *)
(* machine-independent virtual memory of vm/vm_map.c and vm/vm_object.c,   *)
(* with the page fault of vm/vm_fault.c and the physical map of            *)
(* next/pmap.c it fills in.                                                *)
(*                                                                         *)
(* A map is a doubly linked list of entries around a header; here the list *)
(* is a sequence, an entry is named by its position, and the header is     *)
(* position 0.  The lookup hint and the free-space hint are pointers into  *)
(* the list: they move with the entry they point to and become Dangling    *)
(* when it is freed.  Every operation below holds the map lock throughout, *)
(* so each is one step; a fault is one step as well.  Memory is anonymous  *)
(* and resident (no pager), maps are task maps (no sharing maps and no     *)
(* submaps), and no page is wired.                                         *)
(***************************************************************************)
EXTENDS Integers, Sequences, FiniteSets, SequencesExt, FiniteSetsExt

CONSTANTS Task,        \* the tasks
          Root,        \* the task that exists at the start
          Value,       \* what a program may store in a page
          MaxObject,   \* bound: objects that exist at a time
          Programs,    \* bound: the size of the maps, the calls made, and how many
          SpanProtect  \* TRUE: vm_protect may name more than one page

VARIABLES map,         \* task -> its vm_map
          object,      \* the vm_objects, with their resident pages
          pmap,        \* task -> page -> the hardware mapping
          program,     \* which of Programs this run is
          calls        \* the number of calls so far

memory == <<map, object, pmap>>
vars == <<map, object, pmap, program, calls>>

max_offset == program.pages     \* where the maps end; min_offset is 0
Addr == 0 .. max_offset - 1
Object == 1 .. MaxObject
Null == 0              \* VM_OBJECT_NULL
Header == 0            \* &map->header
Dangling == -1         \* a pointer to an entry or a page that was freed
Protections == {{}, {"r"}, {"r", "w"}}
VM_PROT_DEFAULT == {"r", "w"}
Inheritances == {"copy", "none"}

NoObject == [ref |-> 0, size |-> 0, shadow |-> Null, shadow_offset |-> 0,
             pages |-> << >>]

NoMap == [ref |-> 0, entries |-> << >>, hint |-> Header, first_free |-> Header,
          size |-> 0]

vm_map_create == [NoMap EXCEPT !.ref = 1]

(* The whole memory, so that a routine is a function from one to the next. *)
Memory == [map |-> map, object |-> object, pmap |-> pmap]

Becomes(s) == map' = s.map /\ object' = s.object /\ pmap' = s.pmap

Init == /\ map = [t \in Task |-> IF t = Root THEN vm_map_create ELSE NoMap]
        /\ object = [o \in Object |-> NoObject]
        /\ pmap = [t \in Task |-> << >>]
        /\ program \in Programs
        /\ calls = 0

-----------------------------------------------------------------------------
(* Physical pages and the physical map.  A page is named by the object it  *)
(* is in and its offset there; a mapping follows the page it maps.         *)

(* The hardware mappings of pages of b, which are now pages of o. *)
Remap(s, b, offsets, o, shift) ==
    LET Moved(m) == IF m.object = b /\ m.offset \in offsets
                    THEN [m EXCEPT !.object = o, !.offset = @ - shift] ELSE m
    IN  [s EXCEPT !.pmap = [t \in Task |-> [a \in DOMAIN @[t] |-> Moved(@[t][a])]]]

vm_page_alloc(s, o, offset, contents) ==
    [s EXCEPT !.object[o].pages = (offset :> contents) @@ @]

(* The pages leave their object; mappings of them are left behind. *)
vm_page_free(s, o, offsets) ==
    Remap([s EXCEPT !.object[o].pages = [x \in DOMAIN @ \ offsets |-> @[x]]],
          o, offsets, Dangling, 0)

(* The pages of b move to o, where their offsets are less by shift. *)
vm_page_rename(s, b, offsets, o, shift) ==
    LET moved == [y \in {x - shift : x \in offsets} |->
                     s.object[b].pages[y + shift]]
    IN  Remap([s EXCEPT !.object[o].pages = moved @@ @], b, offsets, o, shift)

(* Fault: the last page of the range stays mapped. *)
pmap_remove_LessOne(s, t, lo, hi) ==
    [s EXCEPT !.pmap[t] = [a \in DOMAIN @ \ (lo .. hi - 2) |-> @[a]]]

pmap_remove(s, t, lo, hi) ==
    [s EXCEPT !.pmap[t] = [a \in DOMAIN @ \ (lo .. hi - 1) |-> @[a]]]

(* The pages leave every physical map. *)
pmap_remove_all(s, o, offsets) ==
    LET Kept(m) == m.object # o \/ m.offset \notin offsets
    IN  [s EXCEPT !.pmap = [t \in Task |->
            [a \in {b \in DOMAIN @[t] : Kept(@[t][b])} |-> @[t][a]]]]

(* Fault: write protection is left to a later fault. *)
pmap_protect_Lazy(s, t, lo, hi, prot) ==
    IF prot = {} THEN pmap_remove(s, t, lo, hi) ELSE s

(* Sets the write protection of what is mapped, to more or to less. *)
pmap_protect(s, t, lo, hi, prot) ==
    IF prot = {}
    THEN pmap_remove(s, t, lo, hi)
    ELSE [s EXCEPT !.pmap[t] = [a \in DOMAIN @ |->
             IF a \in lo .. hi - 1 THEN [@[a] EXCEPT !.write = "w" \in prot]
                                   ELSE @[a]]]

pmap_enter(s, t, a, at, prot) ==
    [s EXCEPT !.pmap[t] = (a :> [object |-> at.object, offset |-> at.offset,
                                 write |-> "w" \in prot]) @@ @]

-----------------------------------------------------------------------------
(* Objects.                                                                *)

FreeObjects(s) == {o \in Object : s.object[o].ref = 0}

vm_object_allocate(s, o, size) ==
    [s EXCEPT !.object[o] = [NoObject EXCEPT !.ref = 1, !.size = size]]

vm_object_reference(s, o) ==
    IF o = Null THEN s ELSE [s EXCEPT !.object[o].ref = @ + 1]

vm_object_terminate(s, o) ==
    [vm_page_free(s, o, DOMAIN s.object[o].pages) EXCEPT !.object[o] = NoObject]

(* The last reference takes the object with it, and the object its         *)
(* reference to the one it shadows.                                        *)
RECURSIVE vm_object_deallocate(_, _)
vm_object_deallocate(s, o) ==
    IF o = Null THEN s
    ELSE IF s.object[o].ref > 1 THEN [s EXCEPT !.object[o].ref = @ - 1]
    ELSE vm_object_deallocate(vm_object_terminate(s, o), s.object[o].shadow)

(* Puts a new object in front of the entry's, which keeps its reference. *)
vm_object_shadow(s, t, p) ==
    LET e == s.map[t].entries[p]
        o == Min(FreeObjects(s))
    IN  [vm_object_allocate(s, o, e.end - e.start) EXCEPT
            !.object[o].shadow = e.object,
            !.object[o].shadow_offset = e.offset,
            !.map[t].entries[p].object = o,
            !.map[t].entries[p].offset = 0]

(* Merges an object with the one it shadows when nobody else refers to     *)
(* that one, or goes round it when it hides all of its pages; repeated     *)
(* with the next object of the chain.                                      *)
RECURSIVE vm_object_collapse(_, _)
vm_object_collapse(s, o) ==
    LET obj == s.object[o]
        b == obj.shadow
        backing == s.object[b]
        Needed(x, limit) == /\ x >= obj.shadow_offset
                            /\ x - obj.shadow_offset <= limit
                            /\ x - obj.shadow_offset \notin DOMAIN obj.pages
        moved == {x \in DOMAIN backing.pages : Needed(x, obj.size - 1)}
        needed == {x \in DOMAIN backing.pages : Needed(x, obj.size)}
        Past(r) == [r EXCEPT !.object[o].shadow = backing.shadow,
                             !.object[o].shadow_offset =
                                  @ + backing.shadow_offset]
    IN  IF b = Null THEN s
        ELSE IF backing.ref = 1
        THEN LET s1 == vm_page_free(s, b, DOMAIN backing.pages \ moved)
                 s2 == vm_page_rename(s1, b, moved, o, obj.shadow_offset)
             IN  vm_object_collapse([Past(s2) EXCEPT !.object[b] = NoObject], o)
        ELSE IF needed # {} THEN s
        ELSE vm_object_collapse(
                 [Past(vm_object_reference(s, backing.shadow)) EXCEPT
                     !.object[b].ref = @ - 1], o)

(* Fault: the old pages stay. *)
vm_object_page_remove_Nothing(s, o, lo, hi) == s

(* What a deallocation left in the object goes, from every map. *)
vm_object_page_remove(s, o, lo, hi) ==
    LET stale == DOMAIN s.object[o].pages \cap (lo .. hi - 1)
    IN  vm_page_free(pmap_remove_all(s, o, stale), o, stale)

(* Whether the entry's object can grow by size pages after the entry, and  *)
(* the memory in which it has: what an earlier deallocation left there is  *)
(* thrown away.                                                            *)
vm_object_coalesce(s, e, size) ==
    LET s1 == vm_object_collapse(s, e.object)
        obj == s1.object[e.object]
        lo == e.offset + (e.end - e.start)
        s2 == vm_object_page_remove(s1, e.object, lo, lo + size)
    IN  IF e.object = Null THEN [done |-> TRUE, memory |-> s]
        ELSE IF obj.ref > 1 \/ obj.shadow # Null
        THEN [done |-> FALSE, memory |-> s1]
        ELSE [done |-> TRUE,
              memory |-> [s2 EXCEPT !.object[e.object].size =
                                        Max({@, lo + size})]]

-----------------------------------------------------------------------------
(* The list of entries.                                                    *)

(* The header, which closes the list, starts where the map does and ends   *)
(* where the map does.                                                     *)
Start(m, p) == IF p \in 1 .. Len(m.entries) THEN m.entries[p].start ELSE 0
End(m, p) == IF p \in 1 .. Len(m.entries) THEN m.entries[p].end ELSE max_offset

vm_map_entry_link(m, p, e) ==
    LET Follow(q) == IF q >= p THEN q + 1 ELSE q
    IN  [m EXCEPT !.entries = InsertAt(@, p, e),
                  !.hint = Follow(@), !.first_free = Follow(@)]

vm_map_entry_unlink(m, p) ==
    LET Follow(q) == IF q = p THEN Dangling ELSE IF q > p THEN q - 1 ELSE q
    IN  [m EXCEPT !.entries = RemoveAt(@, p),
                  !.hint = Follow(@), !.first_free = Follow(@)]

LookedUp(m, found, at, right) ==
    [found |-> found, at |-> at, map |-> IF right THEN m ELSE [m EXCEPT !.hint = at]]

StoppedAt(m, a, stop, last, right) ==
    IF stop < last /\ a >= Start(m, stop) THEN LookedUp(m, TRUE, stop, right)
                                          ELSE LookedUp(m, FALSE, stop - 1, right)

(* Along the list, from the entry first to the one before last. *)
SearchEntries(m, a, first, last, right) ==
    StoppedAt(m, a, Min({p \in first .. last - 1 : End(m, p) > a} \cup {last}),
              last, right)

(* The entry that contains the address, or the one before it; the search   *)
(* begins at the hint, and leaves a new one unless the hint was right.     *)
vm_map_lookup_entry(m, a) ==
    LET n == Len(m.entries)
        cur == IF m.hint = Header THEN 1 ELSE m.hint
        right == cur <= n /\ a < End(m, cur)
    IN  IF a >= Start(m, cur)
        THEN SearchEntries(m, a, cur, n + 1, right)
        ELSE SearchEntries(m, a, 1, cur + 1, FALSE)

(* Splits the entry so that it begins at a; the front becomes a new entry  *)
(* before it.                                                              *)
vm_map_clip_start(s, t, p, a) ==
    LET e == s.map[t].entries[p]
        rear == [e EXCEPT !.start = a, !.offset = @ + (a - e.start)]
    IN  IF a <= e.start THEN s
        ELSE vm_object_reference(
                 [s EXCEPT !.map[t] = vm_map_entry_link(
                     [@ EXCEPT !.entries[p] = rear], p, [e EXCEPT !.end = a])],
                 e.object)

(* Fault: the new entry's reference is not counted. *)
vm_map_clip_end_Uncounted(s, t, p, a) ==
    LET e == s.map[t].entries[p]
        rear == [e EXCEPT !.start = a, !.offset = @ + (a - e.start)]
    IN  IF a >= e.end THEN s
        ELSE [s EXCEPT !.map[t] = vm_map_entry_link(
                 [@ EXCEPT !.entries[p].end = a], p + 1, rear)]

(* Splits the entry so that it ends at a; the rear becomes a new entry     *)
(* after it.                                                               *)
vm_map_clip_end(s, t, p, a) ==
    LET e == s.map[t].entries[p]
        rear == [e EXCEPT !.start = a, !.offset = @ + (a - e.start)]
    IN  IF a >= e.end THEN s
        ELSE vm_object_reference(
                 [s EXCEPT !.map[t] = vm_map_entry_link(
                     [@ EXCEPT !.entries[p].end = a], p + 1, rear)],
                 e.object)

ClipFound(s, t, a, look) ==
    IF look.found /\ a > Start(look.map, look.at)
    THEN [found |-> TRUE, at |-> look.at + 1,
          memory |-> vm_map_clip_start(s, t, look.at, a)]
    ELSE [found |-> look.found, at |-> IF look.found THEN look.at ELSE look.at + 1,
          memory |-> s]

(* The first entry at or after the address, clipped to begin there: what   *)
(* every operation on a range begins with.                                 *)
FirstEntry(s, t, a) ==
    LET look == vm_map_lookup_entry(s.map[t], a)
    IN  ClipFound([s EXCEPT !.map[t] = look.map], t, a, look)

-----------------------------------------------------------------------------
(* vm_allocate                                                             *)

NewEntry(lo, hi) ==
    [start |-> lo, end |-> hi, object |-> Null, offset |-> 0,
     prot |-> VM_PROT_DEFAULT, max |-> VM_PROT_DEFAULT, inherit |-> "copy",
     copy_on_write |-> FALSE, needs_copy |-> FALSE]

(* An entry that the range lo..hi-1 after it may be added to. *)
Extends(e, lo) ==
    /\ e.end = lo
    /\ e.inherit = "copy"
    /\ e.prot = VM_PROT_DEFAULT
    /\ e.max = VM_PROT_DEFAULT

(* The new entry behind entry p, and the free-space hint moved past it. *)
LinkNew(s, t, p, lo, hi) ==
    LET m == s.map[t]
        linked == vm_map_entry_link(m, p + 1, NewEntry(lo, hi))
    IN  [s EXCEPT !.map[t] =
            [linked EXCEPT !.size = @ + (hi - lo),
                           !.first_free = IF m.first_free = p /\ End(m, p) >= lo
                                          THEN p + 1 ELSE @]]

InsertGrown(grown, t, p, lo, hi) ==
    IF grown.done
    THEN [grown.memory EXCEPT !.map[t].entries[p].end = hi,
                              !.map[t].size = @ + (hi - lo)]
    ELSE LinkNew(grown.memory, t, p, lo, hi)

InsertAfter(s, t, look, lo, hi) ==
    LET m == look.map
        p == look.at
    IN  IF look.found \/ (p < Len(m.entries) /\ Start(m, p + 1) < hi) THEN s
        ELSE IF p # Header /\ Extends(m.entries[p], lo)
        THEN InsertGrown(vm_object_coalesce(s, m.entries[p], hi - lo), t, p, lo, hi)
        ELSE LinkNew(s, t, p, lo, hi)

vm_map_insert(s, t, lo, hi) ==
    LET look == vm_map_lookup_entry(s.map[t], lo)
    IN  IF lo < 0 \/ hi > max_offset \/ lo >= hi THEN s
        ELSE InsertAfter([s EXCEPT !.map[t] = look.map], t, look, lo, hi)

(* First fit from the free-space hint: the entry before the first hole of  *)
(* that length, or Dangling if there is none.                              *)
vm_map_find(m, length) ==
    LET n == Len(m.entries)
        From(p) == IF p = Header THEN 0 ELSE End(m, p)
        fits == {p \in m.first_free .. n :
                    /\ From(p) + length <= max_offset
                    /\ p < n => Start(m, p + 1) >= From(p) + length}
    IN  IF fits = {} THEN Dangling ELSE Min(fits)

vm_allocate_anywhere(t, length) ==
    LET p == vm_map_find(map[t], length)
        lo == IF p = Header THEN 0 ELSE End(map[t], p)
    IN  IF p = Dangling
        THEN UNCHANGED memory
        ELSE Becomes(vm_map_insert([Memory EXCEPT !.map[t].hint = p],
                                   t, lo, lo + length))

vm_allocate_at(t, lo, length) == Becomes(vm_map_insert(Memory, t, lo, lo + length))

-----------------------------------------------------------------------------
(* vm_deallocate                                                           *)

DeleteEntry(s, t, p, e) ==
    vm_object_deallocate(
        [pmap_remove(s, t, e.start, e.end) EXCEPT
            !.map[t] = [vm_map_entry_unlink(@, p) EXCEPT
                           !.size = @ - (e.end - e.start)]],
        e.object)

DeleteClipped(s, t, p) == DeleteEntry(s, t, p, s.map[t].entries[p])

RECURSIVE DeleteEntries(_, _, _, _)
DeleteEntries(s, t, p, hi) ==
    IF p > Len(s.map[t].entries) \/ Start(s.map[t], p) >= hi THEN s
    ELSE DeleteEntries(DeleteClipped(vm_map_clip_end(s, t, p, hi), t, p), t, p, hi)

DeleteFrom(s, t, p, found, lo, hi) ==
    LET m == s.map[t]
        fixed == [m EXCEPT !.hint = IF found THEN p - 1 ELSE @,
                           !.first_free = IF Start(m, @) >= lo THEN p - 1 ELSE @]
    IN  DeleteEntries([s EXCEPT !.map[t] = fixed], t, p, hi)

vm_map_delete(s, t, lo, hi) ==
    LET first == FirstEntry(s, t, lo)
    IN  DeleteFrom(first.memory, t, first.at, first.found, lo, hi)

vm_deallocate(t, lo, hi) == Becomes(vm_map_delete(Memory, t, lo, hi))

(* The last reference to the map goes when its task does.                  *)
vm_map_deallocate(t) ==
    Becomes([vm_map_delete(Memory, t, 0, max_offset) EXCEPT
                !.map[t] = NoMap, !.pmap[t] = << >>])

-----------------------------------------------------------------------------
(* vm_protect and vm_inherit                                               *)

(* The positions of the entries from p on that begin below hi. *)
Below(m, p, hi) == {q \in p .. Len(m.entries) : Start(m, q) < hi}

(* What the hardware may allow in an entry that was copied. *)
Mask(e) == IF e.copy_on_write THEN {"r"} ELSE VM_PROT_DEFAULT

ProtectEntry(s, t, p, first, old, prot, set_max) ==
    LET new == IF set_max THEN prot \cap old.prot ELSE prot
        s1 == [s EXCEPT !.map[t].entries[p] =
                  [@ EXCEPT !.prot = new, !.max = IF set_max THEN prot ELSE @]]
    IN  IF new = old.prot THEN s1
        ELSE pmap_protect(s1, t, old.start, old.end,
                          new \cap Mask(s.map[t].entries[first]))

ProtectClipped(s, t, p, first, prot, set_max) ==
    ProtectEntry(s, t, p, first, s.map[t].entries[p], prot, set_max)

(* The second pass: entry after entry, with the first one's mask. *)
RECURSIVE ProtectEntries(_, _, _, _, _, _, _)
ProtectEntries(s, t, p, first, hi, prot, set_max) ==
    IF p > Len(s.map[t].entries) \/ Start(s.map[t], p) >= hi THEN s
    ELSE ProtectEntries(ProtectClipped(vm_map_clip_end(s, t, p, hi), t, p, first,
                                       prot, set_max),
                        t, p + 1, first, hi, prot, set_max)

ProtectFrom(s, t, p, hi, prot, set_max) ==
    IF \A q \in Below(s.map[t], p, hi) : prot \subseteq s.map[t].entries[q].max
    THEN ProtectEntries(s, t, p, p, hi, prot, set_max)
    ELSE s

vm_map_protect(t, lo, hi, prot, set_max) ==
    LET first == FirstEntry(Memory, t, lo)
    IN  Becomes(ProtectFrom(first.memory, t, first.at, hi, prot, set_max))

RECURSIVE InheritEntries(_, _, _, _, _)
InheritEntries(s, t, p, hi, how) ==
    IF p > Len(s.map[t].entries) \/ Start(s.map[t], p) >= hi THEN s
    ELSE InheritEntries([vm_map_clip_end(s, t, p, hi) EXCEPT
                            !.map[t].entries[p].inherit = how],
                        t, p + 1, hi, how)

vm_map_inherit(t, lo, hi, how) ==
    LET first == FirstEntry(Memory, t, lo)
    IN  Becomes(InheritEntries(first.memory, t, first.at, hi, how))

-----------------------------------------------------------------------------
(* vm_copy and vm_map_fork                                                 *)

(* Entry pd of td becomes a copy of entry ps of ts: both refer to the same *)
(* object, and the first of them to write puts a shadow in front of it.    *)
vm_map_copy_entry(s, ts, td, ps, pd) ==
    LET src == s.map[ts].entries[ps]
        dst == s.map[td].entries[pd]
        s1 == pmap_remove(s, td, dst.start, dst.end)
        s2 == IF src.needs_copy THEN s1
              ELSE pmap_protect(s1, ts, src.start, src.end, src.prot \ {"w"})
        s3 == vm_object_reference(s2, src.object)
        s4 == [s3 EXCEPT
                 !.map[td].entries[pd] =
                    [@ EXCEPT !.object = src.object, !.needs_copy = TRUE,
                              !.offset = IF src.object = Null THEN 0 ELSE src.offset,
                              !.copy_on_write = TRUE],
                 !.map[ts].entries[ps] =
                    [@ EXCEPT !.needs_copy = @ \/ src.object # Null,
                              !.copy_on_write = TRUE]]
    IN  vm_object_deallocate(s4, dst.object)

(* Every page of the range is in some entry, and each of those allows it. *)
vm_map_check_protection(m, lo, hi, prot) ==
    \A a \in lo .. hi - 1 : \E p \in 1 .. Len(m.entries) :
        /\ m.entries[p].start <= a
        /\ a < m.entries[p].end
        /\ prot \subseteq m.entries[p].prot

(* A source and a destination entry of one map, as they are after one of   *)
(* the map's entries was clipped.                                          *)
Clipped(c, t, p, s) ==
    LET more == Len(s.map[t].entries) - Len(c.memory.map[t].entries)
        Follow(q) == IF q > p THEN q + more ELSE q
    IN  [memory |-> s, src |-> Follow(c.src), dst |-> Follow(c.dst)]

ClipPair(c, t, p, a) == Clipped(c, t, p, vm_map_clip_end(c.memory, t, p, a))

(* Entry p of the pair becomes no larger than entry q. *)
ClipToSize(c, t, p, q) ==
    LET m == c.memory.map[t]
    IN  ClipPair(c, t, p, Start(m, p) + (End(m, q) - Start(m, q)))

ClipSrc(c, t, a) == ClipPair(c, t, c.src, a)
ClipDst(c, t, a) == ClipPair(c, t, c.dst, a)
SrcToDst(c, t) == ClipToSize(c, t, c.src, c.dst)
DstToSrc(c, t) == ClipToSize(c, t, c.dst, c.src)

(* Pair after pair of entries, each clipped to the size of the other. *)
RECURSIVE CopyEntries(_, _, _, _), CopyPair(_, _, _, _)
CopyPair(c, t, src_end, dst_end) ==
    LET s == vm_map_copy_entry(c.memory, t, t, c.src, c.dst)
    IN  IF End(c.memory.map[t], c.src) >= src_end THEN s
        ELSE CopyEntries([memory |-> s, src |-> c.src + 1, dst |-> c.dst + 1],
                         t, src_end, dst_end)

CopyEntries(c, t, src_end, dst_end) ==
    CopyPair(DstToSrc(SrcToDst(ClipDst(ClipSrc(c, t, src_end), t, dst_end), t), t),
             t, src_end, dst_end)

CopyBetween(s, t, from, to, len, src, dst) ==
    IF from = to THEN s
    ELSE CopyEntries([memory |-> s, src |-> src, dst |-> dst], t, from + len, to + len)

(* The source is looked up again: the destination may have split it. *)
CopyAgain(same, dst, again, t, from, to, len) ==
    CopyBetween(IF same THEN [dst.memory EXCEPT !.map[t] = again.map] ELSE dst.memory,
                t, from, to, len, again.at, dst.at)

CopyTo(src, dst, t, from, to, len) ==
    CopyAgain(vm_map_lookup_entry(src.memory.map[t], to).at = src.at, dst,
              vm_map_lookup_entry(dst.memory.map[t], from), t, from, to, len)

CopyFrom(src, t, from, to, len) ==
    CopyTo(src, FirstEntry(src.memory, t, to), t, from, to, len)

vm_copy(t, from, to, len) ==
    LET seen == vm_map_lookup_entry(map[t], from).map
        both == [Memory EXCEPT !.map[t] = vm_map_lookup_entry(seen, to).map]
    IN  IF ~vm_map_check_protection(map[t], from, from + len, {"r"})
        THEN Becomes([Memory EXCEPT !.map[t] = seen])
        ELSE IF ~vm_map_check_protection(map[t], to, to + len, {"w"})
        THEN Becomes(both)
        ELSE Becomes(CopyFrom(FirstEntry(both, t, from), t, from, to, len))

(* The child's map is built entry by entry at the end of its list. *)
RECURSIVE ForkEntries(_, _, _, _)
ForkEntries(s, t, u, p) ==
    IF p > Len(s.map[t].entries) THEN s
    ELSE LET e == s.map[t].entries[p]
             n == Len(s.map[u].entries)
             s1 == [s EXCEPT !.map[u] =
                       vm_map_entry_link(@, n + 1, [e EXCEPT !.object = Null])]
         IN  ForkEntries(IF e.inherit = "none" THEN s
                         ELSE vm_map_copy_entry(s1, t, u, p, n + 1),
                         t, u, p + 1)

vm_map_fork(t, u) ==
    LET s == ForkEntries([Memory EXCEPT !.map[u] = vm_map_create], t, u, 1)
    IN  Becomes([s EXCEPT !.map[u].size = map[t].size])

-----------------------------------------------------------------------------
(* Access: by the hardware if the mapping allows it, else after a fault.   *)

(* The object of a shadow chain that has the page, and at which offset;    *)
(* Null if none has.                                                       *)
RECURSIVE Holder(_, _, _)
Holder(objects, o, offset) ==
    IF o = Null THEN [object |-> Null, offset |-> 0]
    ELSE IF offset \in DOMAIN objects[o].pages
    THEN [object |-> o, offset |-> offset]
    ELSE Holder(objects, objects[o].shadow, offset + objects[o].shadow_offset)

(* The entry gets the object a fault needs: a shadow to write into, or a   *)
(* first object.                                                           *)
vm_map_lookup(s, t, p, write) ==
    LET e == s.map[t].entries[p]
        o == Min(FreeObjects(s))
        s1 == IF e.needs_copy /\ write
              THEN [vm_object_shadow(s, t, p) EXCEPT
                       !.map[t].entries[p].needs_copy = FALSE]
              ELSE s
    IN  IF s1.map[t].entries[p].object # Null THEN s1
        ELSE [vm_object_allocate(s1, o, e.end - e.start) EXCEPT
                 !.map[t].entries[p].object = o,
                 !.map[t].entries[p].offset = 0]

(* The page is at hand in the entry's own object, is copied up from the    *)
(* object below that holds it, or is a new one of zeroes; a read maps the  *)
(* page below, without the right to write.                                 *)
FaultPage(s, t, a, e, offset, at, write) ==
    LET absent == at.object = Null
        below == at.object \notin {Null, e.object}
        filled == IF absent THEN vm_page_alloc(s, e.object, offset, 0)
                  ELSE IF below /\ write
                  THEN vm_object_collapse(
                           vm_page_alloc(s, e.object, offset,
                                         s.object[at.object].pages[at.offset]),
                           e.object)
                  ELSE s
        prot == IF e.needs_copy \/ (below /\ ~write) THEN e.prot \ {"w"}
                                                    ELSE e.prot
        page == IF below /\ ~write THEN at
                                   ELSE [object |-> e.object, offset |-> offset]
    IN  pmap_enter(filled, t, a, page, prot)

FaultEntry(s, t, a, e, write) ==
    LET offset == (a - e.start) + e.offset
    IN  FaultPage(s, t, a, e, offset, Holder(s.object, e.object, offset), write)

FaultLookedUp(s, t, a, p, write) == FaultEntry(s, t, a, s.map[t].entries[p], write)

FaultFound(s, t, a, look, write) ==
    LET type == IF write THEN {"w"} ELSE {"r"}
    IN  IF ~look.found \/ ~(type \subseteq look.map.entries[look.at].prot)
        THEN s
        ELSE FaultLookedUp(vm_map_lookup(s, t, look.at, write), t, a, look.at, write)

vm_fault(s, t, a, write) ==
    LET look == vm_map_lookup_entry(s.map[t], a)
    IN  FaultFound([s EXCEPT !.map[t] = look.map], t, a, look, write)

Mapped(s, t, a, write) == a \in DOMAIN s.pmap[t] /\ (write => s.pmap[t][a].write)

(* A program touches a page: the hardware does it if the mapping allows,   *)
(* else after a fault.  A store goes to the page that is mapped, whatever  *)
(* page that is.                                                           *)
Store(s, t, a, v) ==
    [s EXCEPT !.object[s.pmap[t][a].object].pages[s.pmap[t][a].offset] = v]

Accessed(s, t, a, write, v) ==
    IF write /\ Mapped(s, t, a, TRUE) THEN Store(s, t, a, v) ELSE s

Access(t, a, write, v) ==
    Becomes(Accessed(IF Mapped(Memory, t, a, write) THEN Memory
                     ELSE vm_fault(Memory, t, a, write), t, a, write, v))

-----------------------------------------------------------------------------
Exists(t) == map[t].ref > 0

AllocateAnywhere(t) == \E length \in 1 .. max_offset : vm_allocate_anywhere(t, length)

AllocateAt(t) == \E lo \in Addr : \E length \in 1 .. max_offset - lo :
                    vm_allocate_at(t, lo, length)

Deallocate(t) == \E lo \in Addr : \E hi \in lo + 1 .. max_offset :
                    vm_deallocate(t, lo, hi)

Protect(t) == \E lo \in Addr, prot \in Protections, set_max \in BOOLEAN :
              \E hi \in lo + 1 .. (IF SpanProtect THEN max_offset ELSE lo + 1) :
                  vm_map_protect(t, lo, hi, prot, set_max)

Inherit(t) == \E lo \in Addr, how \in Inheritances : \E hi \in lo + 1 .. max_offset :
                  vm_map_inherit(t, lo, hi, how)

Copy(t) == \E from, to \in Addr :
           \E len \in 1 .. max_offset - Max({from, to}) : vm_copy(t, from, to, len)

Fork(t) == \E u \in Task : ~Exists(u) /\ vm_map_fork(t, u)

Exit(t) == t # Root /\ vm_map_deallocate(t)

Touch(t) == \E a \in Addr, write \in BOOLEAN, v \in Value :
                /\ "touch" \in program.does
                /\ FreeObjects(Memory) # {}
                /\ Access(t, a, write, v)

(* One of the calls the program makes; one that fails or finds nothing to  *)
(* do changes nothing and is not counted.                                  *)
Call(t) ==
    /\ calls < program.most
    /\ calls' = calls + 1
    /\ \/ "allocate" \in program.does /\ AllocateAnywhere(t)
       \/ "allocate_at" \in program.does /\ AllocateAt(t)
       \/ "deallocate" \in program.does /\ Deallocate(t)
       \/ "protect" \in program.does /\ Protect(t)
       \/ "inherit" \in program.does /\ Inherit(t)
       \/ "copy" \in program.does /\ Copy(t)
       \/ "fork" \in program.does /\ (Fork(t) \/ Exit(t))
    /\ memory' # memory

Next == \E t \in Task :
    /\ Exists(t)
    /\ Call(t) \/ (Touch(t) /\ UNCHANGED calls)
    /\ UNCHANGED program

Spec == Init /\ [][Next]_vars

-----------------------------------------------------------------------------
EntryAt(t, a) == {p \in 1 .. Len(map[t].entries) :
                     map[t].entries[p].start <= a /\ a < map[t].entries[p].end}

HolderAt(objects, e, a) == Holder(objects, e.object, (a - e.start) + e.offset)

(* What a task finds at a page of its address space. *)
ValueAt(objects, e, a) ==
    LET at == HolderAt(objects, e, a)
    IN  IF at.object = Null THEN 0 ELSE objects[at.object].pages[at.offset]

SpaceOf(objects, entries) ==
    LET At(a) == {p \in DOMAIN entries : entries[p].start <= a /\ a < entries[p].end}
        Page(e, a) == [prot |-> e.prot, max |-> e.max, inherit |-> e.inherit,
                       value |-> ValueAt(objects, e, a)]
    IN  [a \in UNION {entries[p].start .. entries[p].end - 1 : p \in DOMAIN entries} |->
            Page(entries[CHOOSE p \in At(a) : TRUE], a)]

(* The address spaces that the maps and the objects stand for. *)
Spaces(maps, objects) ==
    [t \in {u \in Task : maps[u].ref > 0} |-> SpaceOf(objects, maps[t].entries)]

TypeOK ==
    /\ \A t \in Task : /\ map[t].ref \in {0, 1}
                       /\ map[t].size \in Nat
                       /\ \A p \in 1 .. Len(map[t].entries) :
                             LET e == map[t].entries[p]
                             IN  /\ e.object \in Object \cup {Null}
                                 /\ e.prot \subseteq e.max
    /\ \A o \in Object : /\ object[o].ref \in Nat
                         /\ object[o].shadow \in Object \cup {Null}

(* The list is in order, its entries are apart, both hints point to an     *)
(* entry of it or to the header, and the size is not less than what is     *)
(* mapped (a child forked from a map with uninherited regions starts with  *)
(* its parent's size).                                                     *)
ListSound ==
    \A t \in Task :
        LET m == map[t] n == Len(m.entries)
        IN  /\ \A p \in 1 .. n : Start(m, p) < End(m, p)
            /\ \A p \in 1 .. n - 1 : End(m, p) <= Start(m, p + 1)
            /\ n > 0 => Start(m, 1) >= 0 /\ End(m, n) <= max_offset
            /\ {m.hint, m.first_free} \subseteq 0 .. n
            /\ m.size >= SumFunction([p \in 1 .. n |-> End(m, p) - Start(m, p)])

(* An object has exactly as many references as there are entries and       *)
(* shadows that refer to it, so it lives as long as it is needed and no    *)
(* longer: through clips, copies, forks, collapses and coalescing.         *)
RefsAgree ==
    \A o \in Object :
        object[o].ref =
            Cardinality({b \in Object : object[b].ref > 0 /\ object[b].shadow = o})
            + SumFunction([t \in Task |-> Cardinality(
                  {p \in 1 .. Len(map[t].entries) :
                      map[t].entries[p].object = o})])

(* Maps and objects are whole after every call, however the calls of the   *)
(* tasks that share objects follow one another.                            *)
MapInv == TypeOK /\ ListSound /\ RefsAgree

(* What the hardware lets a task do is right without a fault: a mapping    *)
(* lies in an entry, reaches the page the entry's shadow chain leads to,   *)
(* and allows no more than the entry does.                                 *)
MappingsAgree ==
    \A t \in Task : \A a \in DOMAIN pmap[t] :
        \E p \in EntryAt(t, a) :
            LET e == map[t].entries[p]
                at == HolderAt(object, e, a)
            IN  /\ pmap[t][a].object = at.object
                /\ pmap[t][a].offset = at.offset
                /\ "r" \in e.prot
                /\ pmap[t][a].write => "w" \in e.prot

(* "Mark the entries copy-on-write, so that write-enabling the entry won't *)
(* make copy-on-write pages writable" (vm_map_copy_entry): a page that the *)
(* hardware lets a task store into is what no other address of any task    *)
(* leads to.                                                               *)
WritablePagesPrivate ==
    \A t \in Task : \A a \in DOMAIN pmap[t] :
        pmap[t][a].write =>
            \A u \in Task, b \in Addr : \A p \in EntryAt(u, b) :
                LET at == HolderAt(object, map[u].entries[p], b)
                IN  (at.object = pmap[t][a].object /\ at.offset = pmap[t][a].offset)
                        => u = t /\ b = a
=============================================================================

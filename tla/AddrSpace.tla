----------------------------- MODULE AddrSpace -----------------------------
(***************************************************************************)
(* What the virtual memory system promises the tasks that use it: each     *)
(* task has an address space of its own, in which some pages are allocated *)
(* and hold a value under a protection, and every operation changes        *)
(* exactly the pages it names.  There are no map entries, no objects, no   *)
(* physical pages and no sharing here: a copy is a copy.                   *)
(***************************************************************************)
EXTENDS Integers, TLC

CONSTANTS Task,      \* the tasks
          Root,      \* the task that exists at the start
          Pages,     \* number of pages of an address space
          Value      \* what a program may store in a page

VARIABLE space       \* of each existing task, what its allocated pages are

Addr == 0 .. Pages - 1

Protections == {{}, {"r"}, {"r", "w"}}

Inheritances == {"copy", "none"}

Fresh == [prot |-> {"r", "w"}, max |-> {"r", "w"}, inherit |-> "copy",
          value |-> 0]

Span(lo, hi) == lo .. hi - 1

Allocated(t) == DOMAIN space[t]

Init == space = Root :> << >>

(* The pages of R that are allocated change to New. *)
Update(t, R, New(_)) ==
    space' = [space EXCEPT ![t] = [a \in R \cap DOMAIN @ |-> New(a)] @@ @]

Allocate(t, R) ==
    /\ R \cap Allocated(t) = {}
    /\ space' = [space EXCEPT ![t] = [a \in R |-> Fresh] @@ @]

Deallocate(t, R) ==
    space' = [space EXCEPT ![t] = [a \in DOMAIN @ \ R |-> @[a]]]

(* No protection exceeds the maximum, which can only be lowered. *)
Protect(t, R, prot) ==
    /\ \A a \in R \cap Allocated(t) : prot \subseteq space[t][a].max
    /\ Update(t, R, LAMBDA a : [space[t][a] EXCEPT !.prot = prot])

ProtectMax(t, R, prot) ==
    /\ \A a \in R \cap Allocated(t) : prot \subseteq space[t][a].max
    /\ Update(t, R, LAMBDA a : [space[t][a] EXCEPT !.prot = @ \cap prot,
                                                   !.max = prot])

Inherit(t, R, how) ==
    Update(t, R, LAMBDA a : [space[t][a] EXCEPT !.inherit = how])

(* A copy goes up from page to page, so a destination that begins inside   *)
(* the source repeats what lies between the two.                           *)
Copy(t, from, to, len) ==
    /\ Span(from, from + len) \cup Span(to, to + len) \subseteq Allocated(t)
    /\ \A a \in Span(from, from + len) : "r" \in space[t][a].prot
    /\ \A a \in Span(to, to + len) : "w" \in space[t][a].prot
    /\ LET Source(a) == IF from < to THEN from + ((a - to) % (to - from))
                                     ELSE from + (a - to)
       IN  Update(t, Span(to, to + len),
                  LAMBDA a : [space[t][a] EXCEPT
                                !.value = space[t][Source(a)].value])

(* The child gets a copy of what its parent lets it inherit. *)
Fork(t, u) ==
    /\ u \notin DOMAIN space
    /\ LET kept == {a \in Allocated(t) : space[t][a].inherit = "copy"}
       IN  space' = (u :> [a \in kept |-> space[t][a]]) @@ space

Exit(t) == space' = [u \in DOMAIN space \ {t} |-> space[u]]

Write(t, a, v) ==
    /\ a \in Allocated(t)
    /\ "w" \in space[t][a].prot
    /\ space' = [space EXCEPT ![t][a].value = v]

Next ==
    \E t \in DOMAIN space :
        \/ \E a \in Addr, v \in Value : Write(t, a, v)
        \/ \E u \in Task : Fork(t, u)
        \/ Exit(t)
        \/ \E lo \in Addr : \E hi \in lo + 1 .. Pages :
              \/ Allocate(t, Span(lo, hi))
              \/ Deallocate(t, Span(lo, hi))
              \/ \E prot \in Protections : \/ Protect(t, Span(lo, hi), prot)
                                           \/ ProtectMax(t, Span(lo, hi), prot)
              \/ \E how \in Inheritances : Inherit(t, Span(lo, hi), how)
        \/ \E from, to \in Addr, len \in 1 .. Pages : Copy(t, from, to, len)

Spec == Init /\ [][Next]_space
=============================================================================

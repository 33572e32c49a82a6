------------------------------ MODULE MCVmMap ------------------------------
(***************************************************************************)
(* Instances of VmMap for TLC.  The address spaces a state stands for are  *)
(* kept in a variable of their own, always equal to Spaces(map, object),   *)
(* so that TLC computes them once for each state.                          *)
(***************************************************************************)
EXTENDS VmMap

(* What the tasks of one run of the system do: regions come and go and are *)
(* copied on a fork; regions are copied within a task; protections change; *)
(* and, in a larger map, the list of entries alone.                        *)
MCPrograms ==
    {[pages |-> 2, most |-> 4, does |-> {"allocate", "deallocate", "fork", "touch"}],
     [pages |-> 2, most |-> 3, does |-> {"allocate", "copy", "fork", "touch"}],
     [pages |-> 2, most |-> 3, does |-> {"allocate", "protect", "fork", "touch"}],
     [pages |-> 3, most |-> 4, does |-> {"allocate", "allocate_at", "deallocate",
                                         "inherit", "fork"}]}

(* Protections of several entries at once, beside a copied region. *)
MCSpanPrograms ==
    {[pages |-> 2, most |-> 5, does |-> {"allocate_at", "protect", "fork", "touch"}]}

VARIABLE space

MCInit == Init /\ space = Spaces(map, object)

MCNext == Next /\ space' = Spaces(map', object')

MCSpec == MCInit /\ [][MCNext]_<<vars, space>>

AS == INSTANCE AddrSpace WITH Pages <- 3

(* Maps, objects, shadow chains and hardware mappings together behave like *)
(* private address spaces: a store, a copy, a fork, a deallocation or a    *)
(* change of protection changes the pages it names and no other page of    *)
(* any task, a page allocated anew reads as zero, and faults, collapses    *)
(* and clips change nothing a program can see.                             *)
ImplementsAddrSpace == AS!Spec
=============================================================================

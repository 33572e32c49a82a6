---------------------------- MODULE MCZoneAlloc ----------------------------
(* Two non-pageable zones, whose elements are of one and of three units,   *)
(* and a pageable one, over pages of two units.                            *)
EXTENDS ZoneAlloc, TLC

CONSTANTS small, large, paged

MCElemSize == (small :> 1) @@ (large :> 3) @@ (paged :> 1)
MCMaxSize == (small :> 2) @@ (large :> 4) @@ (paged :> 2)
MCAllocSize == (small :> 2) @@ (large :> 4) @@ (paged :> 2)
Symmetry == Permutations(Thread)
============================================================================

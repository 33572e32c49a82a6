--------------------------- MODULE MCThreadSched ---------------------------
(* Instances of ThreadSched for TLC. *)
EXTENDS ThreadSched, TLC, FiniteSetsExt

Symmetry == Permutations(Thread)

(* Any n of the threads make these calls; the others are gone. *)
Loads(n, calls) ==
  {[threads |-> T, calls |-> calls] : T \in kSubset(n, Thread)}

(* Two threads and most of the calls; three threads that halt one another. *)
OneCpuWorkload ==
  Loads(2, AllCalls \ {"wakeup_one"})
  \cup Loads(3, {"wait", "abort", "terminate", "get_state"})

TwoCpuWorkload ==
  Loads(2, {"wait", "wakeup_one", "interrupt", "suspend", "get_state", "terminate",
            "force", "swap"})

LiveWorkload ==
  Loads(2, {"wait", "get_state", "abort", "terminate", "force", "swap"})
============================================================================

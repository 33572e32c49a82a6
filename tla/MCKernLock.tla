----------------------------- MODULE MCKernLock -----------------------------
(* Instances of KernLock for TLC.                                          *)
EXTENDS KernLock

=============================================================================

----------------------------- MODULE MCKernelCache -----------------------------
(***************************************************************************)
(* Instances of KernelCache for TLC: threads of one process that call one  *)
(* function under two policies.  What the threads share is keyed by        *)
(* function, so one function has all the interference.                     *)
(***************************************************************************)
EXTENDS KernelCache, TLC

CONSTANTS p1, c1, c2

Together == [c \in Callers |-> p1]

Symmetry == Permutations(Callers) \cup Permutations(Policies)
================================================================================

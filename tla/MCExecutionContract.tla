-------------------------- MODULE MCExecutionContract --------------------------
(***************************************************************************)
(* Two threads, two import selections, two lists of images, and            *)
(* environments that differ in the policy, the toolchain, an untracked     *)
(* search path and the switch of the fast path.                            *)
(***************************************************************************)
EXTENDS ExecutionContract, TLC

Plain == [policy |-> "p1", tool |-> "t1", external |-> FALSE, off |-> FALSE]
SomeEnvs == {Plain, [Plain EXCEPT !.policy = "p2"], [Plain EXCEPT !.tool = "t2"],
             [Plain EXCEPT !.external = TRUE], [Plain EXCEPT !.off = TRUE]}
Symmetry == Permutations(Callers) \cup Permutations(ImageLists) \cup Permutations(Selections)
================================================================================

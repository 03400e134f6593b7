-------------------------- MODULE MCLoadTestRunner --------------------------
(***************************************************************************)
(* LoadTestRunner for the safety run with several callers.                 *)
(***************************************************************************)
EXTENDS LoadTestRunner, TLC

(* Callers differ in nothing, nor do the names of queues. *)
Symmetry == Permutations(Callers) \cup Permutations(Runs)
==============================================================================

----------------------------- MODULE MCRunLock -----------------------------
(* TLC instances of RunLock. *)
EXTENDS RunLock, TLC

Symmetry == Permutations(Runs) \cup Permutations(Pids)
=============================================================================

----------------------------- MODULE MCBetaLoop -----------------------------
(* TLC instances of BetaLoop. *)
EXTENDS BetaLoop, TLC

\* One leaf for each rule of the tuning, with little left to shift, or a target
\* that is missing.
MCVocabulary ==
  [THINK_DEEPLY |-> [PONDER |-> 7, RESEARCH |-> 93, RIFF |-> 0, PRACTICE |-> 0],
   SHARE_IDEA   |-> [PONDER |-> 0, RESEARCH |-> 4, RIFF |-> 96, PRACTICE |-> 0],
   WRITE        |-> [PONDER |-> 90, RESEARCH |-> 5, RIFF |-> 5]]

MCVersions == {<<0, 9, 201>>, <<1, 0, 0>>}
MCOld == {<<0, 9, 201>>}

Budget(tools, faults, loops) == [tools |-> tools, faults |-> faults, loops |-> loops]
MCBudgets == {Budget(2, 0, 1), Budget(1, 1, 2)}
MCUndisturbed == {Budget(0, 0, 1)}

Symmetry == Permutations(Configs)
=============================================================================

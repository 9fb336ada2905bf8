------------------------------ MODULE MCForums ------------------------------
(* TLC instances of Forums. *)
EXTENDS Forums, TLC

Budget(runs, visits, calls, faults) ==
  [runs |-> runs, visits |-> visits, calls |-> calls, faults |-> faults]

\* Three runs among two agents; two runs with a session of their own and a
\* fault; a host's session of five calls and a fault; and one of two calls
\* while a run tells its visitor's briefing.
MCBudgets == {Budget(3, 0, 0, 0), Budget(2, 1, 0, 1), Budget(0, 0, 5, 1),
              Budget(1, 0, 2, 0)}

Symmetry == Permutations(Agents) \cup Permutations(Members) \cup Permutations(Topics)
=============================================================================

---------------------------- MODULE MCBatchTools ----------------------------
(* TLC instances of BatchTools. *)
EXTENDS BatchTools, TLC

MCLedgers == <<"alpha", "alpha", "beta">>

\* A forum event, a run.completed of each ecosystem, and an event of the second
\* that is flushed behind it and has a line separator in its text.
MCInto == [said |-> <<1, 2>>, done |-> <<2>>, over |-> <<3>>, more |-> <<3>>]
MCCompleted == {"done", "over"}
MCSeparated == {"more"}

\* Two agents of one ecosystem.
MCResearch == [r1 |-> "one", r2 |-> "two"]
MCHome == "alpha"

NoBudget == [etls |-> 0, exports |-> 0, indices |-> 0, events |-> 0, artifacts |-> 0,
             bundles |-> 0, ticks |-> 0, hosts |-> 0, kills |-> 0, faults |-> 0, width |-> 1]

\* One or two warehouse jobs, two exports, up to three index jobs.
MCBudgets ==
  {[NoBudget EXCEPT !.etls = 1, !.events = 5],
   [NoBudget EXCEPT !.etls = 2, !.events = 2, !.ticks = 1, !.width = 2],
   [NoBudget EXCEPT !.etls = 2, !.artifacts = 2, !.events = 1, !.kills = 1, !.ticks = 1],
   [NoBudget EXCEPT !.exports = 2, !.events = 4],
   [NoBudget EXCEPT !.exports = 2, !.events = 1, !.artifacts = 2, !.hosts = 1, !.kills = 1],
   [NoBudget EXCEPT !.indices = 3, !.artifacts = 2, !.bundles = 2, !.ticks = 1, !.hosts = 1, !.kills = 1],
   [NoBudget EXCEPT !.indices = 2, !.artifacts = 2, !.bundles = 2, !.hosts = 1, !.faults = 1, !.width = 2],
   [NoBudget EXCEPT !.indices = 3, !.artifacts = 2, !.kills = 1, !.width = 2],
   [NoBudget EXCEPT !.indices = 1, !.exports = 1, !.artifacts = 2, !.bundles = 1, !.width = 2]}

Symmetry == Permutations(Procs)
=============================================================================

------------------------- MODULE MCSharedKnowledge -------------------------
(* TLC instances of SharedKnowledge. *)
EXTENDS SharedKnowledge, TLC

CONSTANTS c1, c2

\* Two artifacts of one content, of which only the first to be indexed counts,
\* and a third of another.
MCArtifacts == <<[content |-> c1, good |-> FALSE], [content |-> c1, good |-> TRUE],
                 [content |-> c2, good |-> TRUE]>>

Row(id, revoked, agents) ==
  [id |-> id, revoked |-> revoked, enabled |-> TRUE, profile |-> "p",
   ecosystems |-> {Star}, agents |-> agents]

\* Everybody is granted, one agent only, nobody any more; a garbled row.
MCGrantRows ==
  {Row("g1", FALSE, {}), Row("g1", FALSE, {"a2"}), Row("g1", TRUE, {}), Row(None, TRUE, {})}

MCReaders == {[ecosystem |-> "e1", agent |-> a, profile |-> "p"] : a \in {"a1", "a2"}}

Budget(width, starts, rows, ticks, faults, cuts, research, ingests) ==
  [starts |-> starts, rows |-> rows, ticks |-> ticks, faults |-> faults, cuts |-> cuts,
   research |-> research, ingests |-> ingests, width |-> width]

\* One job after the other: on the files, with a write cut and a failure, and
\* with grants that are given, narrowed, revoked and outdated.  Two at a time:
\* with grants, racing for HEAD with a failure, and with a write cut.  And what
\* a job promoted, ingested and retrieved.
MCBudgets == {Budget(1, 3, 0, 0, 1, 1, 3, 0), Budget(1, 2, 2, 2, 0, 0, 0, 0),
              Budget(2, 2, 2, 1, 0, 0, 0, 0), Budget(2, 2, 0, 1, 1, 0, 1, 0),
              Budget(2, 2, 0, 0, 0, 1, 2, 0), Budget(1, 2, 1, 0, 0, 0, 2, 1)}

Symmetry == Permutations(Jobs)
=============================================================================

SPECIFICATION FairSpec
CONSTANTS
  Agents = {a1, a2}
  SubActions = {"READ", "ANNOTATE", "VISIT_COMMONS", "SELF_REFLECT"}
  Tools = {"web.search"}
  Enforcing = {a1}
  MaxDecisions = 1
  Faults = {"kill", "interrupt", "llm"}
  MaxRuns = 2
  MaxFaults = 1
CHECK_DEADLOCK FALSE
INVARIANTS
  TypeOK
  OneOrphanPerRun
  DecisionsAccounted
  VersionsAccounted
  FieldChosenOnce
  OutsideCommons
PROPERTIES
  TornStopsRuns
  RunsEnd

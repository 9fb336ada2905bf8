SPECIFICATION Spec
CONSTANTS
  Configs = {b1, b2}
  Versions <- MCVersions
  Vocabulary <- MCVocabulary
  CheckpointWaves = 1
  MaxWaves = 3
  None = None
  Torn = Torn
  Budgets <- MCBudgets
SYMMETRY Symmetry
CHECK_DEADLOCK FALSE
INVARIANTS
  RunsAsPinned
  TunedLoads
  ConfigsKept

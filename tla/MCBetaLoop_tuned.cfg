SPECIFICATION Spec
CONSTANTS
  Configs = {b1, b2}
  Versions <- MCOld
  Vocabulary <- MCVocabulary
  CheckpointWaves = 1
  MaxWaves = None
  None = None
  Torn = Torn
  Budgets <- MCUndisturbed
CHECK_DEADLOCK FALSE
INVARIANT
  RunsUntilStopped

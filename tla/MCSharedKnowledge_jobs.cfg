SPECIFICATION Spec
CONSTANTS
  c1 = c1
  c2 = c2
  Artifacts <- MCArtifacts
  GrantRows <- MCGrantRows
  Readers <- MCReaders
  Star = Star
  Torn = Torn
  MaxAge = 1
  Jobs = {j1, j2}
  None = None
  Budgets <- MCBudgets
SYMMETRY Symmetry
CHECK_DEADLOCK FALSE
INVARIANTS
  HeadSound
  RevocationTimely
  PublishExact

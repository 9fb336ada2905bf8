SPECIFICATION Spec
CONSTANTS
  Ledgers <- MCLedgers
  Into <- MCInto
  Completed <- MCCompleted
  Separated <- MCSeparated
  Research <- MCResearch
  Home <- MCHome
  ChunkSize = 2
  Procs = {p1, p2}
  None = None
  Budgets <- MCBudgets
SYMMETRY Symmetry
CHECK_DEADLOCK FALSE
INVARIANTS
  BatchComplete
  ExportKept
  

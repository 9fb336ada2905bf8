SPECIFICATION Spec
CONSTANTS
  Agents = {a1, a2}
  Members = {m1, m2}
  Topics = {t1, t2}
  None = None
  Budgets <- MCBudgets
SYMMETRY Symmetry
CHECK_DEADLOCK FALSE
INVARIANTS
  BriefingAttribution
  RepeatsOverlap
  RoundsAccounted

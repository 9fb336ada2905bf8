SPECIFICATION Spec
CONSTANTS
  Runs = {r1, r2, r3}
  Pids = {p1, p2, p3}
  NoPid = NoPid
  Hazards = {"kill", "other"}
  MaxStarts = 4
SYMMETRY Symmetry
CHECK_DEADLOCK FALSE
INVARIANTS
  TypeOK
  OneRun
  LockNamesTheRun
PROPERTIES
  RefusedOnlyIfActive

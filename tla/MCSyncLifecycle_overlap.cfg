SPECIFICATION LifeSpec
CONSTANTS
  Thread = thread
  Main = main
  Sup = sup
  Again = again
  Syncers = {thread, main, sup, again}
  Budgeted = {sup, again}
  NLedgers = 1
  Files = {}
  Faults = {}
  LineEnds = {1, 2, 4, 5}
  MaxLength = 4
  MaxVersion = 0
  MaxFaults = 0
INVARIANTS
  CursorCovered

SPECIFICATION FairLifeSpec
CONSTANTS
  Thread = thread
  Main = main
  Sup = sup
  Again = again
  Syncers = {thread, main, sup, again}
  Budgeted = {sup, again}
  NLedgers = 1
  Files = {}
  Faults = {"put", "spoil", "timeout", "signal"}
  LineEnds = {1, 3}
  MaxLength = 1
  MaxVersion = 0
  MaxFaults = 1
INVARIANTS
  CleanExitArchived
PROPERTIES
  SignalStops

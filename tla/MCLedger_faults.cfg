SPECIFICATION FairSpec
CONSTANTS
  Procs = {w1, w2}
  NoProc = NoProc
  Kinds = {"plain", "separator", "unstable"}
  Faults = {"kill", "interrupt", "oserror", "power"}
  MaxEvents = 3
  MaxFaults = 1
INVARIANTS
  TypeOK
  ChainLinked
  AckedDurable
  DamageOnlyAtEnd
  PassedChecksStand
PROPERTIES
  StuckIsFinal
  ImplementsLog
  AppendReturns

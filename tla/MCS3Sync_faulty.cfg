SPECIFICATION FairSpec
CONSTANTS
  Syncers = {s1}
  Budgeted = {}
  NLedgers = 1
  Files = {f1, f2}
  Faults = {"get", "put", "kill", "same_second", "spoil", "restore"}
  LineEnds = {1, 3, 4}
  MaxLength = 4
  MaxVersion = 1
  MaxFaults = 1
INVARIANTS
  ArchiveVerifiesUnfailed
  CursorsSurvive
  NoGap
  OnlyRecordsArchived
  BundledIsArchived
PROPERTIES
  EverythingArchived

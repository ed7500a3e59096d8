SPECIFICATION Spec
CONSTANTS
  None = None
  Splits <- MCSplits
  Values <- MCValues
  CasePool <- MCCasePool
  Registries = {"builtin", "always passes", "raises"}
  MinCases = 3
  MaxReports = 2
INVARIANTS
  MutationsAreCaught
  FingerprintsIgnoreOrder
  ExitTellsTheSplit
CHECK_DEADLOCK FALSE

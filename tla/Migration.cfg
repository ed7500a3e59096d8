\* Two processes open, migrate and use one database.
SPECIFICATION FoundSpec
CONSTANTS
  p1 = p1
  p2 = p2
  a1 = a1
  a2 = a2
  None = None
  Processes = {p1, p2}
  Attempts = {a1, a2}
  Databases <- SomeDatabases
  Quiet <- WithoutEvents
  MaxRevision = 1
INVARIANTS
  VersionIsTrue
  RefusalIsJustified
  ReceiptsMatch
PROPERTIES
  NothingIsUndone

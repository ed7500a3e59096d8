\* An old database without rows is migrated by one process and used by another.
SPECIFICATION FoundSpec
CONSTANTS
  p1 = p1
  p2 = p2
  a1 = a1
  a2 = a2
  None = None
  Processes = {p1, p2}
  Attempts = {a1}
  Databases <- EmptyV3
  Quiet = {}
  MaxRevision = 1
INVARIANTS
  ReceiptsMatch

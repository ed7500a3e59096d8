\* Two threads of one process and one of another, every failure, and crashes.
SPECIFICATION FairSpec
CONSTANTS
  t1 = t1
  t2 = t2
  t3 = t3
  small = small
  large = large
  huge = huge
  secret = secret
  None = None
  Payloads = {small, large, huge, secret}
  SizeOf <- Sizes
  Rejected = {secret}
  MaxBlob = 2
  MaxTotal = 3
  Threads = {t1, t2, t3}
  ProcessOf <- TwoProcesses
  Faults = {"look", "scan", "read", "create", "write", "replace", "sync", "unlink", "crash"}
  MaxCalls = 1
INVARIANTS
  FilesAreSound
  QuotaHolds
PROPERTIES
  PromiseKept
  PutEnds
CHECK_DEADLOCK FALSE

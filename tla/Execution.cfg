\* Plans executed and verified with every fault except a stat() that fails after
\* the bytes were read.
SPECIFICATION ChosenSpec
CONSTANTS
  p1 = p1
  p2 = p2
  old = old
  new = new
  huge = huge
  bytes = bytes
  private = private
  shared = shared
  None = None
  Paths = {p1, p2}
  Contents = {old, new, huge, bytes}
  Modes = {private, shared}
  Private = private
  Readable = {p1}
  Writable = {p1, p2}
  Large = {huge}
  Binary = {bytes}
  Faults = {"open", "read", "snapshot", "write", "sync", "inspect", "emit"}
  Capabilities = {"read_text", "write_text_atomic", "patch_toml", "run_shell"}
  Allowed = {"read_text", "write_text_atomic", "patch_toml", "run_shell"}
  Registered = {"read_text", "write_text_atomic", "patch_toml"}
  MaxActions = 3
  Patched <- Patch
  StartDisks <- SomeDisks
  PlanChoices <- LongPlans
  TaskChoices <- SomeTasks
INVARIANTS
  SuccessTellsTheDisk
  RolledBackIsRestored
  FailureIsAllOrNothing
  FilesAreWhole
  VerifyTypeOK
  VerdictIsJustified
PROPERTIES
  TransactionEnds
CHECK_DEADLOCK FALSE

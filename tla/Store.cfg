\* The tables of attempts, their callers and a reader: three workloads.
SPECIFICATION WorkloadSpec
CONSTANTS
  a1 = a1
  a2 = a2
  r1 = r1
  i1 = i1
  i2 = i2
  env = env
  None = None
  Store = Store
  Attempts = {a1, a2}
  Runs = {r1}
  Identities = {i1, i2}
  Environments = {env}
  Clock = {1, 2}
  CallerEvents <- SomeEvents
  CallerOutcomes <- SomeOutcomes
  Readers = {1}
INVARIANTS
  StoreTypeOK
  FinalizationIsAtomic
  CompletedIsVerified
  StoredPlansAreRedacted
  ViewsAreFaithful
PROPERTIES
  HistoryIsKept
  PromiseKept

\* Without faults every opened attempt is finalized.
SPECIFICATION FairSpec
CONSTANTS
  a1 = a1
  a2 = a2
  r1 = r1
  r2 = r2
  i1 = i1
  i2 = i2
  env = env
  None = None
  Store = Store
  Attempts = {a1, a2}
  Runs = {r1, r2}
  Identities = {i1, i2}
  Environments = {env}
  AttemptOf <- OwnAttempt
  IdentityOf <- OneIdentity
  EnvironmentOf <- OneEnvironment
  Coordinated = {r1}
  PlanChoices <- JustPlain
  Faults = {}
  MaxRecordCalls = 1
  Clock = {1, 2}
  CallerEvents <- EmittedEvents
  CallerOutcomes <- RecordedOutcomes
CHECK_DEADLOCK FALSE
PROPERTIES
  OpenedIsFinalized

\* Two coordinated runs are given the same attempt identifier.
SPECIFICATION Spec
CONSTANTS
  a1 = a1
  a2 = a2
  r1 = r1
  r2 = r2
  i1 = i1
  i2 = i2
  env = env
  None = None
  Store = Store
  Attempts = {a1}
  Runs = {r1, r2}
  Identities = {i1, i2}
  Environments = {env}
  AttemptOf <- SharedAttempt
  IdentityOf <- OneIdentity
  EnvironmentOf <- OneEnvironment
  Coordinated = {r1, r2}
  PlanChoices <- JustPlain
  Faults = {}
  MaxRecordCalls = 1
  Clock = {1, 2}
  CallerEvents <- EmittedEvents
  CallerOutcomes <- RecordedOutcomes
SYMMETRY RunsAreAlike
CHECK_DEADLOCK FALSE
INVARIANTS
  ExecutedOnce

\* A coordinated and a standalone run of their own attempts, recorded twice, with
\* every fault or with every plan.
SPECIFICATION Spec
CONSTANTS
  a1 = a1
  a2 = a2
  r1 = r1
  r2 = r2
  i1 = i1
  i2 = i2
  env = env
  None = None
  Store = Store
  Attempts = {a1, a2}
  Runs = {r1, r2}
  Identities = {i1, i2}
  Environments = {env}
  AttemptOf <- OwnAttempt
  IdentityOf <- OneIdentity
  EnvironmentOf <- OneEnvironment
  Coordinated = {r1}
  PlanChoices <- AnyPlan
  Faults = {"crash", "io", "quota"}
  MaxRecordCalls = 2
  Clock = {1, 2}
  CallerEvents <- EmittedEvents
  CallerOutcomes <- RecordedOutcomes
CONSTRAINT PlanOrFault
CHECK_DEADLOCK FALSE
INVARIANTS
  RecordsAreSound
  RepeatedRecordingIsAccepted
  ResultIsRecordable
PROPERTIES
  StoreSpec

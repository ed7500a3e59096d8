\* Two authors create episodes that cite each other, move them through their
\* retention states and relate and contradict them.
SPECIFICATION WorkloadSpec
CONSTANTS
  a1 = a1
  a2 = a2
  r1 = r1
  i1 = i1
  i2 = i2
  t1 = t1
  t2 = t2
  env1 = env1
  env2 = env2
  e1 = e1
  e2 = e2
  c1 = c1
  c2 = c2
  c3 = c3
  None = None
  Store = Store
  Runs = {r1}
  Attempts = {a1, a2}
  Identities = {i1, i2}
  Environments = {env1, env2}
  Clock = {1}
  CallerEvents <- FailingOrForeign
  CallerOutcomes <- Failures
  EpisodeIds = {e1, e2}
  RecordIds = {c1, c2, c3}
  Tasks = {t1, t2}
  TaskOf <- TwoTasks
  Times = {1, 2}
  Authors = {1, 2}
  Requests <- AllRequests
  MaxTransitions = 3
INVARIANTS
  ReferencesHold
  ProvenanceHolds
  HistoryTellsState
  AnsweredIsStored
PROPERTIES
  EpisodesAreKept

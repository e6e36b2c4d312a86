SPECIFICATION PoolsSpec
CONSTANTS
  Tasks = {t1, t2, t3, t4, t5}
  Urgent = {t4, t5}
  NoResult = NoResult
  Calls = {c1, c2, c3, c4}
  UrgentCalls = {c3, c4}
  NoTask = NoTask
  MinWorkers = 1
  MaxWorkers = 2
  MaxCrashes = 1
  MaxFailures = 2
INVARIANTS
  PoolsAreSound
PROPERTIES
  MostUrgentFirst
  EveryCallSettles
CHECK_DEADLOCK FALSE

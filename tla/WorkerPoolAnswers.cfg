SPECIFICATION PoolSpec
CONSTANTS
  Tasks = {t1, t2, t3, t4}
  Urgent = {t3, t4}
  NoResult = NoResult
  MinWorkers = 1
  MaxWorkers = 2
  MaxCrashes = 1
INVARIANTS
  AnswersReachTheirTask
CHECK_DEADLOCK FALSE

SPECIFICATION ServicesSpec
CONSTANTS
  Experts <- MCExperts
  Ids = {i1, i2}
  Limits <- MCLimits
  MaxUpdates = 1
  Requests = {r1, r2}
  Askers = {a1, a2}
  Schedules = {s1, s2}
  MaxTicking = 2
  MaxRuns = 2
  ManualPlans <- MCManualPlans
  ChainLengths <- MCChainLengths
  MaxRetries = 1
  Calls = {c1, c2}
INVARIANTS
  BooksAgree
  PendingAreListed
  TasksFollowSchedules
  RequestsAreConsistent
PROPERTIES
  ExecutionsAreReported
  AnswersStand
  WaitersHear
  AggregatesAreFair
  CallersSettle
CHECK_DEADLOCK FALSE

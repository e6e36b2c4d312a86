SPECIFICATION Spec
CONSTANTS
  x1 = x1
  x2 = x2
  start = start
  task = task
  join = join
  Executions <- MCExecutions
  Order <- MCOrder
  Tasks <- MCTasks
  Joins <- MCJoins
  From <- MCFrom
  To <- MCTo
  Cyclic <- MCCyclic
  Declared <- MCDeclared
  JoinConfigs <- MCJoinConfigs
  Orderings <- MCOrderings
  AllowParallel = TRUE
  MaxRetries = 0
  Filters <- MCFilters
  Depths <- MCDepths
  MaxRequests = 1
INVARIANT ContinuedFromCheckpoint
CHECK_DEADLOCK FALSE

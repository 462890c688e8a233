SPECIFICATION FairSpec
CONSTANTS
  NumWorkers = 3
  MaxConnections = 1
  ConnBound = 2
  NotifyBudget = 0
  CrashBudget = 0
PROPERTIES
  HandOverListens
CHECK_DEADLOCK FALSE

SPECIFICATION FairSpec
CONSTANTS
  NumWorkers = 2
  MaxConnections = 1
  ConnBound = 2
  NotifyBudget = 5
  CrashBudget = 2
INVARIANTS
  TypeOK
  AtMostOneListening
  UnlockAssertion
  EnableFindsDisabled
  NoLeakedLock
PROPERTIES
  OnlyHolderFrees
  StartupListens
  NotificationTakesOver
CHECK_DEADLOCK FALSE

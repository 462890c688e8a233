SPECIFICATION FairSpec
CONSTANTS
  MaxThreads = 2
  MaxConns = 3
  MaxFds = 3
INVARIANTS
  TypeOK
  OnlyLiveLoops
  MapSettled
  HeldUntilDestroyed
  IdleFdIsOwn
PROPERTIES
  StartCompletes
  ClosedIsDestroyed
CHECK_DEADLOCK FALSE

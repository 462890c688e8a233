SPECIFICATION FairSpec
CONSTANTS
  Producers = {p1, p2}
  Consumers = {c1, c2}
  Size = 6
  TrySize = 2
  MaxTasks = 5
PROPERTIES
  AcceptedRuns
CHECK_DEADLOCK FALSE

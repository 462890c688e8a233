SPECIFICATION FairSpec
CONSTANTS
  Tunnels = {t1}
  Server = server
  Mark = 2
  OutBound = 3
  QueueBound = 4
INVARIANTS
  TypeOK
  ReaderWakes
PROPERTIES
  StoppedIsStarted
CHECK_DEADLOCK FALSE

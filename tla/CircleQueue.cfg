SPECIFICATION FairSpec
CONSTANTS
  Producers = {p1, p2}
  Consumers = {c1, c2}
  Size = 6
  TrySize = 2
  MaxTasks = 5
INVARIANTS
  TypeOK
  ReadsWhatWasWritten
  NoSlotRace
  EveryTaskAccounted
  OnlyStuckChunkRepeats
  NoLostWakeup
PROPERTIES
  StuckForever
  PublishedRuns
  KeepsPoolPromise
CHECK_DEADLOCK FALSE

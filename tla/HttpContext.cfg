SPECIFICATION Spec
CONSTANTS
  Requests <- MCRequests
  Noise <- MCNoise
  MaxRequests = 2
  Wrap = 16
  MaxLong = 31
  MaxTasks = 1
  MaxLooks = 2
INVARIANTS
  SplitsAtRequests
  LengthWithinBuffer
  ParsesAsReference
PROPERTIES
  VerdictIsStable
CHECK_DEADLOCK FALSE

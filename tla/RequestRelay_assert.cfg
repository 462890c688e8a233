SPECIFICATION Spec
CONSTANTS
  Threads = {h1, h2}
  Tunnels = {t1, t2}
  Parts = 2
  Gets = {2}
  Text <- MCText
  DirtyLimit = 3
  MaxUnits = 4
SYMMETRY Symmetry
INVARIANTS
  AssertSameBytes
CHECK_DEADLOCK FALSE

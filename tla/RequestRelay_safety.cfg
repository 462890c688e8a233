SPECIFICATION Spec
CONSTANTS
  Threads = {h1, h2}
  Tunnels = {t1, t2}
  Parts = 1
  Gets = {1}
  Text <- MCText
  DirtyLimit = 1
  MaxUnits = 2
SYMMETRY Symmetry
INVARIANTS
  TypeOK
  HandedOnceInOrder
  ContextIsOpen
CHECK_DEADLOCK FALSE

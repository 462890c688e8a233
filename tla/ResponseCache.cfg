SPECIFICATION Spec
CONSTANTS
  Urls <- PercentUrls
  Readers = {r1, r2}
  Writers = {w1}
  Objects = {o1, o2, o3}
  Pages <- PercentPages
  Junk <- MCJunk
  Capacity = 1
  MaxClock = 1
  ExpiredTime = 3
  Wrap = 16
CHECK_DEADLOCK FALSE
SYMMETRY MCSymmetry
INVARIANTS TypeOK PutsAlone  AnswersMatchUrl 

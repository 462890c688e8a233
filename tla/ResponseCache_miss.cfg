SPECIFICATION Spec
CONSTANTS
  Urls <- TwoUrls
  Readers = {r1}
  Writers = {w1}
  Objects = {o1, o2, o3}
  Pages <- MixedPages
  Junk <- MCJunk
  Capacity = 1
  MaxClock = 0
  ExpiredTime = 3
  Wrap = 16
CHECK_DEADLOCK FALSE
INVARIANT MissFallsThrough

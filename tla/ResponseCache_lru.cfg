SPECIFICATION Spec
CONSTANTS
  Urls <- ThreeUrls
  Readers = {}
  Writers = {w1}
  Objects = {o1, o2, o3}
  Pages <- MixedPages
  Junk <- MCJunk
  Capacity = 2
  MaxClock = 0
  ExpiredTime = 3
  Wrap = 16
CHECK_DEADLOCK FALSE
PROPERTY PutIsLru

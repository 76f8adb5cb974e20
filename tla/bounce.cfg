SPECIFICATION Spec
CONSTANTS
  s1 = s1  s2 = s2  s3 = s3  s4 = s4  s5 = s5  s6 = s6
  w1 = w1  w2 = w2  c1 = c1  c2 = c2  c3 = c3
  Ids = {s1, s2}
  Tabs = {w1}
  Calls = {c1, c2}
  AccessTTL = 3
  Window = 3
  RefreshEvery = 2
  CallTakes = 1
  MaxTime = 4
  Watched = {w1}
  Faults = {}
INVARIANTS
  BouncesOnce
SYMMETRY Swaps
CHECK_DEADLOCK FALSE

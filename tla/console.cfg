SPECIFICATION Spec
CONSTANTS
  s1 = s1  s2 = s2  s3 = s3  s4 = s4  s5 = s5  s6 = s6
  w1 = w1  w2 = w2  c1 = c1  c2 = c2  c3 = c3
  Ids = {s1, s2, s3}
  Tabs = {w1, w2}
  Calls = {c1, c2}
  AccessTTL = 2
  Window = 1
  RefreshEvery = 1
  CallTakes = 1
  MaxTime = 3
  Watched = {}
  Faults = {"db_lost", "gone"}
INVARIANTS
  BrowserTypeOK
  OneSessionPerLogin
  HardCap
PROPERTIES
  GrantedIdIsLive
SYMMETRY Swaps
CHECK_DEADLOCK FALSE

SPECIFICATION FairPresenceSpec
CONSTANTS
  c1 = c1  c2 = c2
  Cams = {c1, c2}
  StaleAfter = 2
  OfflineAfter = 4
  SweepEvery = 2
  SweepTakes = 1
  Skew = 1
  LastBeat = 4
  MaxTime = 10
  Faults = {"db_down", "crash"}
INVARIANTS
  PresenceTypeOK
  NobodyLeftBehind
PROPERTIES
  NotWrittenOffEarly
  SilenceIsNoticed
CHECK_DEADLOCK FALSE

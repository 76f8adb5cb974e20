SPECIFICATION RingSpec
CONSTANTS
  k1 = k1  k2 = k2  k3 = k3  k4 = k4
  Kids = {k1, k2, k3, k4}
  RetirementWindow = 2
  MaxTime = 6
INVARIANTS
  RingTypeOK
  RingIsWhole
  JwtsHonoured
  RetiredKeysExpire
SYMMETRY Swap
CHECK_DEADLOCK FALSE

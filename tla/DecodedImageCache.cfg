SPECIFICATION Spec
CONSTANTS
  Workers = {w1, w2, w3}
  k1 = k1
  k2 = k2
  k3 = k3
  k4 = k4
  k5 = k5
  Keys <- MCKeys
  Size <- MCSize
  Capacity = 4
  MayFail = TRUE
SYMMETRY WorkerSymmetry
INVARIANTS
  BytesAccounted
  IteratorsValid
PROPERTIES
  EvictsLeastRecentlyUsed
CHECK_DEADLOCK FALSE

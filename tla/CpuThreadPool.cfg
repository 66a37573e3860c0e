SPECIFICATION FairSpec
CONSTANTS
  Workers = {w1, w2, w3}
  Callers = {c1, c2}
  Owner = owner
  Ranges <- MCRanges
  MaxCalls = 2
INVARIANTS
  NoTaskOutlivesCall
  EachIndexOnce
  NoLostWakeup
PROPERTIES
  CallsReturn
  DestructorReturns
CHECK_DEADLOCK FALSE

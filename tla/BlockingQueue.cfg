SPECIFICATION FairSpec
CONSTANTS
  Threads = {t1, t2, t3}
  Values = {v1, v2}
  Capacity = 2
  Nothing = nothing
INVARIANTS
  NoLostWakeup
PROPERTIES
  Implements
  ImplementsProgress

SPECIFICATION FairSpec
CONSTANTS
  Workers = {w1, w2}
  Main = main
  Transfer = transfer
  UsesDevice = TRUE
  TotalBatches = 2
  HostPrefetch = 1
  DevicePrefetch = 1
  MayFail = TRUE
  MaxEpochs = 1
  MaxHeld = 1
PROPERTIES
  NextReturnsUnlessExhausted
  DestructorReturnsUnlessStopMissed
CHECK_DEADLOCK FALSE

SPECIFICATION FairSpec
CONSTANTS
  Workers = {w1}
  Main = main
  Transfer = transfer
  UsesDevice = FALSE
  TotalBatches = 2
  HostPrefetch = 1
  DevicePrefetch = 1
  MayFail = FALSE
  MaxEpochs = 1
  MaxHeld = 1
PROPERTIES
  DestructorReturns
CHECK_DEADLOCK FALSE

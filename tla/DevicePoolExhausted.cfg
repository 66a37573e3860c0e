SPECIFICATION FairSpec
CONSTANTS
  Workers = {w1, w2}
  Main = main
  Transfer = transfer
  UsesDevice = TRUE
  TotalBatches = 3
  HostPrefetch = 1
  DevicePrefetch = 1
  MayFail = FALSE
  MaxEpochs = 1
  MaxHeld = 1
PROPERTIES
  NextReturns
CHECK_DEADLOCK FALSE

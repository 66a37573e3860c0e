SPECIFICATION Spec
CONSTANTS
  Workers = {w1, w2}
  Main = main
  Transfer = transfer
  UsesDevice = FALSE
  TotalBatches = 3
  HostPrefetch = 1
  DevicePrefetch = 1
  MayFail = TRUE
  MaxEpochs = 2
  MaxHeld = 2
SYMMETRY WorkerSymmetry
INVARIANTS
  TypeOK
  PoolAccounting
  NothingLostOrDuplicated
  ClosedQueueIsExplained
  RootCauseReported
  EpochNotMissed
PROPERTIES
  DeliveryInOrder
CHECK_DEADLOCK FALSE

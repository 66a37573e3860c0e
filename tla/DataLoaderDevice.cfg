SPECIFICATION Spec
CONSTANTS
  Workers = {w1, w2}
  Main = main
  Transfer = transfer
  UsesDevice = TRUE
  TotalBatches = 2
  HostPrefetch = 1
  DevicePrefetch = 1
  MayFail = FALSE
  MaxEpochs = 2
  MaxHeld = 1
SYMMETRY WorkerSymmetry
INVARIANTS
  PoolAccounting
  NothingLostOrDuplicated
PROPERTIES
  DeliveryInOrder
CHECK_DEADLOCK FALSE

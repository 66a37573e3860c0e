SPECIFICATION Spec
CONSTANTS
  Calls <- MCCalls
  Backends = {"CPU", "CUDA"}
  SizeMod = 128
  CpuThreads = 2
  BlockLine = 4
  BlockAxis = 2
  BiasTile = 2
  BiasLanes = 2
INVARIANTS WithinBounds NoRace ComputesDefinition
CHECK_DEADLOCK FALSE

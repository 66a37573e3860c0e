SPECIFICATION Spec
CONSTANTS
  Networks <- MCNetworks
  BatchCount = 2
  Storages = 2
  Backends = {"CPU", "CUDA"}
  SizeMod = 128
  CpuThreads = 2
INVARIANTS TypeOK FastPathInBounds GradientsOfThisBatch PoolBounded WellFormedNeverThrows

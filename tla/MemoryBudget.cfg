SPECIFICATION Spec
CONSTANTS
  Loaders = {l1, l2, l3}
  Cpu = cpu
  Devices = {cpu, gpu}
  Budgets = {b1, b2}
  NoBudget = nobudget
  Counts = {1, 2}
  Requests <- MCRequests
  Capacities <- MCCapacities
  MaxHostPrefetch = 3
  MaxDevicePrefetch = 2
  SizeMax = 31
SYMMETRY BudgetSymmetry
INVARIANTS
  TypeOK
  WithinCapacity
  ReservedIsHeld
  StorageFits
  OneBudgetPerDevice
  CountInForce
  ExpectedLoadersServed

CONSTANTS
  T2 = 4
  T4 = 2
  Timeout = 12
  MaxDelay = 1
  Think = 1
  MaxLoss = 4
  MaxDup = 1
  MaxProv = 1
SPECIFICATION Spec
INVARIANTS AtMostOnce LossTolerance
PROPERTY EventuallyUnregistered

CONSTANTS
  T1 = 2
  T2 = 4
  Timeout = 8
  ProvTimeout = 9
  AckTries = 2
  MaxDelay = 1
  Think = 1
  MaxLoss = 3
  MaxDup = 1
  MaxProv = 1
SPECIFICATION Spec
INVARIANTS OutcomeIsTrue RoundsSuffice
PROPERTY EventuallyUnregistered

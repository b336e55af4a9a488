CONSTANTS
  Forks = {"f1", "f2"}
  Capacity = 1
  MaxRings = 2
  MaxSends = 3
  MaxLost = 1
  KeepsEarly = FALSE
  Refreshers = {"uac", "uas", "unspecified"}
  Intervals = {8, 9}
  MinSes = {0, 10}
  MaxTransit = 1
  Patience = 3
  Strict = FALSE
SPECIFICATION Spec
INVARIANTS ForksAgree Refreshed
PROPERTIES EverybodyTold
CHECK_DEADLOCK FALSE

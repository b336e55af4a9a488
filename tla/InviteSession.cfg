CONSTANTS
  ReInvites = {"re1", "re2"}
  PrackKinds = {"match", "other", "bad"}
  EvtBound = 1
  EarlyTag = TRUE
SPECIFICATION Spec
INVARIANTS FinalOnce WithdrawalSettled SessionUsable
PROPERTIES TasksFinish
CHECK_DEADLOCK FALSE

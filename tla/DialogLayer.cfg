CONSTANTS
  C0 = 1
  MaxCSeq = 5
SPECIFICATION Spec
INVARIANTS InSequence
PROPERTIES OrderedRequestsAnswered
CHECK_DEADLOCK FALSE

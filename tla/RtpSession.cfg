CONSTANTS
  MaxEntries = 2
  None = None
  MaxSeq = 7
  MaxTs = 63
  FirstSeq = 6
  FirstTs = 1
  JbLength = 2
  MaxPackets = 4
  SendUntil = 4
  MaxDup = 1
SPECIFICATION Spec
INVARIANTS DeliveredInOrder BufferSound WaitSuffices
PROPERTIES EventuallyOut
CHECK_DEADLOCK FALSE

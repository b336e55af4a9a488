CONSTANTS
  A = "A"
  B = "B"
  None = None
  Places <- Checked
  CompOf <- CompRtp
  Tie <- TieA
  RtcpMux = TRUE
  MaxRetransmits = 1
SPECIFICATION Spec
INVARIANTS NoPanic OnePairUsed
PROPERTIES UsedStays RolesSettle BothConnect
CHECK_DEADLOCK FALSE

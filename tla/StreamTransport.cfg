CONSTANTS
  Idle = 2
  Pongs = TRUE
  MaxRefs = 2
  MaxFrames = 1
  Layouts <- LengthLast
  MaxBody = 2
  MaxBuf = 5
  MaxSent = 3
SPECIFICATION StreamSpec
INVARIANTS NotifierKept EntryWhileRunning FramesIntact NothingHeldBack
PROPERTIES QuietCloses
CHECK_DEADLOCK FALSE

CONSTANTS
  Idle = 2
  Pongs = TRUE
  MaxRefs = 2
  MaxFrames = 1
  Layouts <- LengthFirst
  MaxBody = 2
  MaxBuf = 5
  MaxSent = 3
SPECIFICATION StreamSpec
INVARIANTS FramesIntact
CHECK_DEADLOCK FALSE

CONSTANTS
  Peers = {"a", "b"}
  Kinds = {"audio", "video"}
  LocalDir <- MCLocalDir
  Limit = 1
  Pt <- MCPt
  Options <- MCOptions
  NewDirs <- MCNewDirs
  Hasty = FALSE
  RunsEarly = FALSE
  Overtakes = FALSE
  Losable = {"hello", "flight", "final", "finished"}
  MaxLost = 1
SPECIFICATION Spec
INVARIANTS MediaAgree TransportsAgree NothingLeaks RoutedRight
PROPERTIES Connects
CHECK_DEADLOCK FALSE

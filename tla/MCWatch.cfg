SPECIFICATION FairSpec
CONSTANTS
  PromptLen = 2
  InRoom = 1
  OutRoom = 1
  MaxOut = 2
  HardLimit = TRUE
  IdleLimit = TRUE
  MaxIter = 2
INVARIANTS
  OutputIsComplete
  OkIsOwnExit
  FollowedIsComplete
PROPERTIES
  SessionEnds
  WatchEnds
CHECK_DEADLOCK FALSE

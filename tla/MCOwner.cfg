SPECIFICATION Spec
CONSTANTS
  Commands <- MCCommands
  Paths <- MCPaths
  Bookkeeping <- MCBookkeeping
  Candidates <- MCCandidates
  Cap = 1
  MaxEdits = 1
INVARIANTS
  DraftIsDecided
  CompletedIsFenced
  SessionsStayOffMain
PROPERTIES
  
  SidecarNamesItsBranch
CHECK_DEADLOCK FALSE

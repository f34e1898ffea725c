SPECIFICATION FairSpec
CONSTANTS
  Agents = {a1, a2}
  None = None
  Base <- MCChain
  Autonomy = "normal"
  Cap = 2
  Threshold = 1
  MaxRuns = 2
INVARIANTS
  TypeOK
  NoDoubleWork
  NoRedo
  DepsFinished
  DoneClaimOwned
PROPERTIES
  DoneClaimStays
  FleetEnds
CHECK_DEADLOCK FALSE

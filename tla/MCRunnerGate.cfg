SPECIFICATION Spec
CONSTANTS
  Base <- MCBase
  Phases <- MCPhases
  FirstPhase = "P1"
  Cap = 3
  Threshold = 2
  Commands = 2
  MaxRuns = 1
INVARIANT PhaseIsVerified
CHECK_DEADLOCK FALSE

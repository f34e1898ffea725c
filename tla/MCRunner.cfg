SPECIFICATION FairSpec
CONSTANTS
  Base <- MCBase
  Phases <- MCPhases
  FirstPhase = "P1"
  Cap = 3
  Threshold = 2
  Commands = 2
  MaxRuns = 2
INVARIANTS
  BreakerIsExact
  IdleIsStopped
  StopIsPrompt
  EditsAreCommitted
  RunJsonIsCurrent
  PhasesBehindCovered
  CompletedIsVerified
PROPERTY RunEnds
CHECK_DEADLOCK FALSE

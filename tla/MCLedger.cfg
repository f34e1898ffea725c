SPECIFICATION Spec
CONSTANTS
  Runs = {r1, r2, r3}
  FleetRuns = {r1, r2}
  RunRows <- MCRows
  Skills = {"s"}
  Proposals = {"p"}
  Window = 2
  MinPost = 2
  MaxCommands = 2
  MaxFaults = 1
  None = None
SYMMETRY AgentSymmetry
INVARIANTS
  RowsComeWhole
  LossHasACause
  EfficacyIsCurrent
  SummaryIsFinal
  WindowsAreApart
CHECK_DEADLOCK FALSE

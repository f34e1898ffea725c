SPECIFICATION Spec
CONSTANTS
  Agents = {a1, a2}
  None = None
  Base <- MCBase
  Autonomy = "normal"
  Cap = 2
  Threshold = 2
  MaxRuns = 1
SYMMETRY AgentSymmetry
INVARIANT NoWorkRemains
CHECK_DEADLOCK FALSE

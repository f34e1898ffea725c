SPECIFICATION Spec
CONSTANTS
  Agents = {a1, a2, a3}
  Tasks = {t1, t2}
  None = None
  StaleAfter = 1
  MaxTime = 1
  Faults = TRUE
  Calls = {"done", "heartbeat", "release"}
SYMMETRY AgentSymmetry
INVARIANTS
  TypeOK
  HeldIsOwned
  MutualExclusion
PROPERTY LockSpec
CHECK_DEADLOCK FALSE

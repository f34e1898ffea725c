SPECIFICATION Spec
CONSTANTS
  Agents = {a1, a2, a3}
  Tasks = {t1}
  None = None
  StaleAfter = 1
  MaxTime = 2
  Faults = FALSE
  Calls = {}
INVARIANT SingleStealWinner
CHECK_DEADLOCK FALSE

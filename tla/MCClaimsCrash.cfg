SPECIFICATION Spec
CONSTANTS
  Agents = {a1, a2}
  Tasks = {t1}
  None = None
  StaleAfter = 1
  MaxTime = 2
  Faults = TRUE
  Calls = {"done"}
PROPERTY StaleIsReclaimable
CHECK_DEADLOCK FALSE

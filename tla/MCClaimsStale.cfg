SPECIFICATION FairSpec
CONSTANTS
  Agents = {a1, a2}
  Tasks = {t1}
  None = None
  StaleAfter = 1
  MaxTime = 3
  Faults = FALSE
  Calls = {"done"}
INVARIANT ClaimNamesAHolder
PROPERTY StaleIsReplaced
CHECK_DEADLOCK FALSE

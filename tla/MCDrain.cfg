SPECIFICATION Spec
CONSTANTS
  Bases <- MCClosed
  Autonomy = "high"
INVARIANTS
  HookIsSelectNext
  NeverPassedOver
  WavesAreLevels
  LintFindsWhatSticks
CHECK_DEADLOCK FALSE

SPECIFICATION Spec
CONSTANTS
  None = None
  Lanes = 4
  MaxPending = 2
  Configs <- MoveConfigs
INVARIANTS
  AttributedRight
CHECK_DEADLOCK FALSE

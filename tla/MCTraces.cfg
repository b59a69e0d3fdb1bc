SPECIFICATION Spec
CONSTANTS
  None = None
  Lanes = 4
  MaxPending = 2
  Configs <- AllConfigs
INVARIANTS
  TypeOK
  Shows
  WritesAttributed
  PairedRight
  MappedRight
CHECK_DEADLOCK FALSE

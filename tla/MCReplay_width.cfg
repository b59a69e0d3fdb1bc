SPECIFICATION Spec
CONSTANTS
  Cores    <- MCCores
  UserMem  <- MCUserMem
  Ram      <- MCRam
  Requests <- MCWide
  MaxSteps = 2
INVARIANTS
  AnyAccessInside
CHECK_DEADLOCK FALSE

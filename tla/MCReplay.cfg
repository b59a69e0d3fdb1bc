SPECIFICATION Spec
CONSTANTS
  Cores    <- MCCores
  UserMem  <- MCUserMem
  Ram      <- MCRam
  Requests <- MCSizes
  MaxSteps = 3
INVARIANTS
  TypeOK
  RangesUsable
  Reproduced
  BuiltUnlessStray
CHECK_DEADLOCK FALSE

\* The classification stops when it is done.
SPECIFICATION Spec
CONSTANTS
  c1 = c1  c2 = c2  w0 = w0  w1 = w1
  Group = {1, 2}
  MaxFlaky = 4
  MaxTarget = 9
  Causes <- MCCauses
  Writes <- MCWrites
  Rows <- AllRows
  ReplayRows <- SomeRows
  Configs <- MCConfigs
INVARIANTS TypeOK MinimalReproducer Bisects
PROPERTY Terminates
CHECK_DEADLOCK FALSE

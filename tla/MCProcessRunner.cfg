\* Every simulator; an execution stops when it is done, or waits for ever for
\* a simulator that hangs and has no limit.
SPECIFICATION FairSpec
CONSTANTS
  Configs <- MCConfigs
  Sims = {"rocket", "boom", "spike", "picorv32", "cva6", "cva6_00", "ibex", "vex", "kronos", "srv32", "srv32_cov", "xiangshan"}
  Reused = TRUE
  PipeSize = 1
  DefaultLimit = 2
  MaxTime = 3
INVARIANTS TypeOK WholeOwnAnswer KilledAndReaped
PROPERTIES ImplementsExecution Returns
CHECK_DEADLOCK FALSE

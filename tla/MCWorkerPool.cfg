\* Campaigns of up to three workers and three runs, and of up to two workers
\* without a run limit, in which the counter wraps.
SPECIFICATION Spec
CONSTANTS
  k1 = k1  k2 = k2
  Keys <- MCKeys
  Tests <- MCTests
  MaxWorkers = 3
  PoolLimit = 1
  IndexWidth = 3
  CounterWidth = 3
  Configs <- AllConfigs
INVARIANTS TypeOK RunsAccounted DeathsTold
PROPERTY EndsOrGoesOn

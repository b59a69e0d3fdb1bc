\* Two implementations whose behaviour repeats and depends on the history.
\* The analysis stops when it is done.
SPECIFICATION Spec
CONSTANTS
  c1 = c1  c2 = c2  w0 = w0  w1 = w1
  N = 3
  Impls = {1, 2}
  Modes <- AllModes
  DefaultMode <- AllFalse
  Causes <- MCCauses
  Writes <- MCWrites
  Rows <- PairRows
  Inits = {}
  Cpus <- PairCpus
  Deterministic = TRUE
  Configs <- RepeatConfigs
INVARIANT NeverGoesBack
PROPERTY Terminates
CHECK_DEADLOCK FALSE

\* Three cores, grouped by their unaligned access support, whose executions may
\* differ from run to run.
SPECIFICATION Spec
CONSTANTS
  c1 = c1  c2 = c2  w0 = w0  w1 = w1
  N = 4
  Impls = {1, 2, 3}
  Modes <- CoreModes
  DefaultMode <- CoreDefaults
  Causes <- MCCauses
  Writes <- MCWrites
  Rows <- CoreRows
  Inits <- CoreInits
  Cpus <- CoreCpus
  Deterministic = FALSE
  Configs <- FlakyConfigs
INVARIANTS TypeOK LimitRespected Evidence Converged
PROPERTY ImplementsTrimming

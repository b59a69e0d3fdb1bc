---------------------------- MODULE MCWorkerPool ----------------------------
(* Campaigns for TLC. *)
EXTENDS WorkerPool
CONSTANTS k1, k2
MCKeys  == {k1, k2}
MCTests == {{k1}, {k2}, {k1, k2}}
LimitedConfigs   == [concurrency : 0..3, maxRuns : {{0}, {1}, {2}, {3}}, guided : BOOLEAN]
UnlimitedConfigs == [concurrency : 1..2, maxRuns : {{}}, guided : BOOLEAN]
(* Both, with the limits the counter can reach, and with two unlimited     *)
(* workers only where they share no guidance.                              *)
AllConfigs ==
  {c \in LimitedConfigs : \A m \in c.maxRuns : m < CounterWidth}
    \cup {c \in UnlimitedConfigs : c.guided => c.concurrency = 1}
=============================================================================

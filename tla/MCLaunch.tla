------------------------------ MODULE MCLaunch ------------------------------
(* Instances of Launch for TLC. *)
EXTENDS Launch

Few == UNION { kSubset(k, Core) : k \in 1 .. 2 }
AllOf(b) == { i \in Core : b \in SupportedBases[i] }
With(c) == { {c} \cup s : s \in kSubset(2, AllOf(32) \ {c}) }

MCRequests ==
  [cores : Few, base : Bases, requirement : {{}, {FALSE}, {TRUE}}, filtered : BOOLEAN]
    \cup [cores : {AllOf(64)}, base : {64}, requirement : {{FALSE}}, filtered : {TRUE}]
    \cup [cores : With("Spike"), base : {32}, requirement : {{}, {FALSE}}, filtered : BOOLEAN]
=============================================================================

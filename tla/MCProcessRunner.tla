-------------------------- MODULE MCProcessRunner --------------------------
(* Executions in a new run directory, or in one that may hold the traces   *)
(* of an earlier execution.                                                *)
EXTENDS ProcessRunner
CONSTANTS Sims, Reused

EarlierLog == [origin |-> "earlier", size |-> 1]
Left(l, t) == [n \in Names |-> IF n = "log" THEN l ELSE t]
Leftovers  ==
  {Left(Absent, Absent)} \cup
  IF Reused THEN {Left(EarlierLog, Absent), Left(Absent, EarlierLog)} ELSE {}

(* Only combinations that differ: all simulators but those with a trace    *)
(* file of their own have one from the start, only a file that is there    *)
(* can resist removal, and only srv32 knows of trace.log.                  *)
MCConfigs ==
  {c \in [sim : Sims, limit : {{}, {1}}, output : [Streams -> {0, 2}], opens : BOOLEAN,
          exit : {"success", "failure", "never"}, leftover : Leftovers, sticky : BOOLEAN] :
     /\ c.opens \/ c.sim \in OwnLog
     /\ c.sticky => c.sim \in Removing /\ c.leftover["log"] # Absent
     /\ c.leftover["trace"] # Absent => c.sim \in Lenient}
=============================================================================

----------------------------- MODULE Execution -----------------------------
(***************************************************************************)
(* What the analysis may expect of one execution of a simulator: an answer *)
(* is given once, it says that the execution worked or why it did not, and *)
(* if it worked, the trace is everything that this simulator produced, for *)
(* good, as long as the run directory can be trusted.                      *)
(***************************************************************************)
EXTENDS Naturals

CONSTANT Verdicts \* the answers of an execution that did not work

VARIABLES trusted,  \* no earlier trace can be taken for one of this execution
          produced, \* length of the trace the simulator has produced
          verdict,  \* "none", "ok" or one of Verdicts
          answer    \* length of the trace handed out

evars == <<trusted, produced, verdict, answer>>

Init == trusted \in BOOLEAN /\ produced = 0 /\ verdict = "none" /\ answer = 0

Produce ==
  /\ verdict # "ok"
  /\ produced' = produced + 1
  /\ UNCHANGED <<trusted, verdict, answer>>

Answer ==
  /\ verdict = "none" /\ verdict' = "ok"
  /\ answer' \in Nat /\ (trusted => answer' = produced)
  /\ UNCHANGED <<trusted, produced>>

Refuse ==
  /\ verdict = "none" /\ verdict' \in Verdicts
  /\ UNCHANGED <<trusted, produced, answer>>

Next == Produce \/ Answer \/ Refuse

Spec == Init /\ [][Next]_evars
=============================================================================

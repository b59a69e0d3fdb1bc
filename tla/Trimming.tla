------------------------------ MODULE Trimming ------------------------------
(***************************************************************************)
(* What the differential analysis promises about a testcase, whatever the  *)
(* implementations do: it only ever takes instructions away, it names each *)
(* of them once in a report, and it gives one final verdict, after which   *)
(* nothing changes.  DiffAnalysis implements this specification.           *)
(***************************************************************************)
EXTENDS Naturals

CONSTANTS Insts,     \* the instructions of the initial testcase
          Verdicts   \* how an analysis may end

VARIABLES remaining, \* instructions still in the testcase
          reported,  \* instructions named by a removal report
          verdict    \* "running" or a verdict

avars == <<remaining, reported, verdict>>

AInit == remaining = Insts /\ reported = {} /\ verdict = "running"

(* A removal may use up the iteration limit and end the analysis.          *)
Trim == /\ verdict = "running"
        /\ \E insts \in SUBSET remaining :
             /\ insts # {}
             /\ remaining' = remaining \ insts
             /\ reported' = reported \cup insts
        /\ verdict' \in {"running", "IterationLimitReached"}

Conclude == /\ verdict = "running"
            /\ verdict' \in Verdicts
            /\ UNCHANGED <<remaining, reported>>

ASpec == AInit /\ [][Trim \/ Conclude]_avars
=============================================================================

----------------------------- MODULE HistoryMin -----------------------------
(***************************************************************************)
(* The classification of one write difference: classify_write_difference   *)
(* and minimize_history_write_difference in diff_analysis/runner.rs.       *)
(*                                                                         *)
(* The instruction is replayed alone, in the restored context it had.  If  *)
(* the implementations still differ the instruction is to blame; if not,   *)
(* the instructions before it are, and a binary search looks for the last  *)
(* start from which the program still shows the difference.                *)
(***************************************************************************)
EXTENDS Naturals, FiniteSets, Detection

CONSTANTS
  Group,         \* the compared implementations, impl_order of the code
  MaxTarget,     \* bound on the index of the differing instruction
  Rows,          \* what one execution of an instruction may show
  ReplayRows,    \* what an instruction of the replay program may show
  Configs        \* the classifications considered, see ConfigType

Indices == 0..MaxTarget
Row     == [Group -> Outcome]
CpuType == [Indices -> [Indices -> Row]] \* what the run from a start shows

(* target: test_index; len: length of the testcase; threshold: the option  *)
(* history_min_test_threshold; cleanup: cleanup_history_candidates; cpu:   *)
(* the processor of those whose candidates run as one says, {} for those   *)
(* whose candidates may run in any way.                                    *)
ConfigType == [target : Indices, len : Nat, threshold : SUBSET Nat, cleanup : BOOLEAN,
               cpu : SUBSET CpuType]

ASSUME MaxTargetAssumption == MaxTarget \in Nat
ASSUME GroupAssumption     == Group # {}
ASSUME RowsAssumption      == Rows \subseteq Row /\ ReplayRows \subseteq Row
ASSUME ConfigsAssumption   == /\ Configs \subseteq ConfigType
                              /\ \A c \in Configs : c.target < c.len
                              /\ \A c \in Configs : \A p, q \in c.cpu : p = q

VARIABLES
  config,
  pc,        \* "replay", "minimize", "search", "searched", "conclude", "report", "done"
  cause,     \* the WriteDifferenceCause found so far
  result,    \* what the call returns: "none", a cause or "Err"
  minimized, \* how the minimization ended
  cache,     \* the evaluated candidates: start -> HistoryEvaluation
  good, bad, \* the bracket of the binary search
  best,      \* best_start, best_eval is cache[best]
  cands,     \* starts whose candidate directory exists
  final      \* the start whose testcase was written to final/, if any

vars == <<config, pc, cause, result, minimized, cache, good, bad, best,
          cands, final>>

target == config.target

CauseType == {"SingleInstruction", "DependsOnHistory"}
Status == {"TargetHasDifference", "TargetExceptionMismatch", "TargetExceptionAll",
           "TargetNoDifference", "NonTargetDifference", "NonTargetException"}
Evaluation == [status : Status, difference : BOOLEAN]
Stopping == {"TargetExceptionMismatch", "TargetExceptionAll"}
NonTarget == {"NonTargetDifference", "NonTargetException"}

-----------------------------------------------------------------------------
(* evaluate_history_candidate: the run of the instructions start..target   *)
(* is judged, what happens before the target first.                        *)

ExceptionMismatch(row) == TriggerMismatch(Group, row) \/ CauseMismatch(Group, row)

StatusOf(rows, last) ==
  LET before == {k \in DOMAIN rows : k # last} IN
  IF \E k \in before : WriteMismatch(Group, rows[k]) THEN "NonTargetDifference"
  ELSE IF \E k \in before : ExceptionMismatch(rows[k]) THEN "NonTargetException"
  ELSE IF ~WriteMismatch(Group, rows[last]) THEN "TargetNoDifference"
  ELSE IF ExceptionMismatch(rows[last]) THEN "TargetExceptionMismatch"
  ELSE IF \A i \in Group : rows[last][i].causes # {} THEN "TargetExceptionAll"
  ELSE "TargetHasDifference"

Evaluate(rows, last) == [status     |-> StatusOf(rows, last),
                         difference |-> WriteMismatch(Group, rows[last])]

(* The ways the candidate program from start may run.                      *)
WindowOf(cpu, start) == [k \in start..target |-> cpu[start][k]]
Windows(start) == IF config.cpu = {} THEN [start..target -> Rows]
                                     ELSE {WindowOf(cpu, start) : cpu \in config.cpu}

Evaluations(start) == IF start \in DOMAIN cache THEN {cache[start]}
                      ELSE {Evaluate(rows, target) : rows \in Windows(start)}

Record(start, e) ==
  /\ cache' = [s \in DOMAIN cache \cup {start} |-> IF s = start THEN e ELSE cache[s]]
  /\ cands' = cands \cup {start}

-----------------------------------------------------------------------------
(* Mutant: the last start is not tried.                                    *)
OpenTarget == config.target

(* The first start known not to show the difference.                       *)
InitialBad == config.target + 1

Init ==
  /\ config \in Configs
  /\ pc = "replay" /\ cause = "SingleInstruction" /\ result = "none"
  /\ minimized = "none" /\ cache = <<>>
  /\ good = 0 /\ bad = InitialBad /\ best = 0
  /\ cands = {} /\ final = {}

Return(r) == pc' = "done" /\ result' = r

(* The replay program cannot be built (its length differs between the      *)
(* implementations), run, summarised or compared: the instruction is       *)
(* blamed alone.                                                           *)
ReplayFails ==
  /\ pc = "replay"
  /\ Return("SingleInstruction")
  /\ UNCHANGED <<config, cause, minimized, cache, good, bad, best, cands, final>>

(* The replay program: one restoring instruction stands for all of them,   *)
(* the instruction itself is the last.  A difference in the restoring part *)
(* makes the replay worthless.                                             *)
Replay ==
  /\ pc = "replay"
  /\ \E restore, last \in ReplayRows :
       IF WriteMismatch(Group, restore)
       THEN Return("SingleInstruction") /\ UNCHANGED cause
       ELSE /\ UNCHANGED result
            /\ IF WriteMismatch(Group, last)
               THEN cause' = "SingleInstruction" /\ pc' = "report"
               ELSE cause' = "DependsOnHistory" /\ pc' = "minimize"
  /\ UNCHANGED <<config, minimized, cache, good, bad, best, cands, final>>

(* Nothing precedes the instruction, or the testcase is short enough.      *)
SkipMinimization ==
  /\ pc = "minimize"
  /\ target = 0 \/ \E t \in config.threshold : config.len <= t
  /\ minimized' = "skipped" /\ pc' = "report"
  /\ UNCHANGED <<config, cause, result, cache, good, bad, best, cands, final>>

(* An error ends the minimization, not the classification; only the loss   *)
(* of the difference by the start candidate changes the answer.            *)
GiveUp(reason) ==
  /\ minimized' = reason /\ pc' = "report"
  /\ cause' = IF reason = "startLost" THEN "SingleInstruction" ELSE cause

EvaluateStart ==
  /\ pc = "minimize"
  /\ target # 0 /\ \A t \in config.threshold : config.len > t
  /\ \E e \in Evaluations(0) :
       /\ Record(0, e)
       /\ \/ /\ e.status = "TargetHasDifference"
             /\ pc' = "search" /\ UNCHANGED <<cause, minimized>>
          \/ /\ e.status \in Stopping
             /\ pc' = "conclude" /\ UNCHANGED <<cause, minimized>>
          \/ e.status = "TargetNoDifference" /\ GiveUp("startLost")
          \/ e.status \in NonTarget /\ GiveUp("failed")
  /\ UNCHANGED <<config, result, good, bad, best, final>>

(* Mutants of the loop: it ends too early, or tries the same start for     *)
(* ever.                                                                   *)
MoreThanTwoToTry == good + 2 < bad
SameStart == good

MoreToTry == good + 1 < bad

mid == (good + bad) \div 2

Narrow(status) ==
  \/ status = "TargetHasDifference" /\ good' = mid /\ best' = mid /\ UNCHANGED bad
  \/ status = "TargetNoDifference"  /\ bad' = mid /\ UNCHANGED <<good, best>>

(* One round of `while good + 1 < bad'.                                    *)
SearchStep ==
  /\ pc = "search"
  /\ MoreToTry
  /\ \E e \in Evaluations(mid) :
       /\ Record(mid, e)
       /\ \/ Narrow(e.status) /\ UNCHANGED <<pc, minimized, cause>>
          \/ /\ e.status \in Stopping
             /\ best' = IF e.difference THEN mid ELSE best
             /\ pc' = "searched" /\ UNCHANGED <<good, bad, minimized, cause>>
          \/ /\ e.status \in NonTarget
             /\ IF cache[best].difference
                THEN pc' = "conclude" /\ UNCHANGED <<minimized, cause>>
                ELSE GiveUp("failed")
             /\ UNCHANGED <<good, bad, best>>
  /\ UNCHANGED <<config, result, final>>

SearchEnds ==
  /\ pc = "search"
  /\ ~MoreToTry
  /\ pc' = "searched"
  /\ UNCHANGED <<config, cause, result, minimized, cache, good, bad, best,
                 cands, final>>

(* After the loop, however it was left.                                    *)
Searched ==
  /\ pc = "searched"
  /\ IF cache[best].difference
     THEN pc' = "conclude" /\ UNCHANGED <<cause, minimized>>
     ELSE GiveUp("failed")
  /\ UNCHANGED <<config, result, cache, good, bad, best, cands, final>>

(* A candidate cannot be built, run or compared; its directory may exist.  *)
CandidateFails ==
  /\ \E start \in Indices :
       /\ \/ pc = "minimize" /\ start = 0 /\ target # 0
                            /\ \A t \in config.threshold : config.len > t
          \/ pc = "search" /\ MoreToTry /\ start = mid
       /\ cands' \in {cands, cands \cup {start}}
  /\ GiveUp("failed")
  /\ UNCHANGED <<config, result, cache, good, bad, best, final>>

(* The candidates that cleanup_history_minimization_attempts deletes.      *)
Discarded == DOMAIN cache \ {best}

(* Mutant: the start written is one too far.                               *)
ConcludeOneFurther ==
  /\ pc = "conclude"
  /\ final' = {best + 1}
  /\ minimized' = "concluded" /\ pc' = "report"
  /\ UNCHANGED <<config, cause, result, cache, good, bad, best, cands>>

(* finalize_history_minimization writes the best candidate, then the other *)
(* candidates' directories are deleted if so configured.                   *)
Conclude ==
  /\ pc = "conclude"
  /\ final' = {best}
  /\ cands' = IF config.cleanup THEN cands \ Discarded ELSE cands
  /\ minimized' = "concluded" /\ pc' = "report"
  /\ UNCHANGED <<config, cause, result, cache, good, bad, best>>

(* Writing the result or deleting a candidate fails.  Part of the          *)
(* candidates may be gone; the best one is not touched.                    *)
ConcludeFails ==
  /\ pc = "conclude"
  /\ GiveUp("failed")
  /\ \E written \in {{}, {best}} : final' = written
  /\ \E gone \in SUBSET Discarded :
       /\ gone # {} => config.cleanup /\ final' = {best}
       /\ cands' = cands \ gone
  /\ UNCHANGED <<config, result, cache, good, bad, best>>

Report ==
  /\ pc = "report"
  /\ Return(cause)
  /\ UNCHANGED <<config, cause, minimized, cache, good, bad, best, cands, final>>

(* Creating the replay directory, comparing for or writing one of the      *)
(* reports fails.                                                          *)
IoFails ==
  /\ pc \in {"replay", "report"}
  /\ Return("Err")
  /\ UNCHANGED <<config, cause, minimized, cache, good, bad, best, cands, final>>

Done == pc = "done" /\ UNCHANGED vars

(* Every call of the code returns, if the implementations it runs do.      *)
Progress == \/ Replay \/ SkipMinimization \/ EvaluateStart \/ SearchStep
            \/ SearchEnds \/ Searched \/ Conclude \/ Report

Failure == ReplayFails \/ CandidateFails \/ ConcludeFails \/ IoFails

Next == Progress \/ Failure \/ Done

Spec == Init /\ [][Next]_vars /\ WF_vars(Progress)

-----------------------------------------------------------------------------
(* Properties.                                                             *)

TypeOK ==
  /\ config \in Configs
  /\ pc \in {"replay", "minimize", "search", "searched", "conclude", "report", "done"}
  /\ cause \in CauseType /\ result \in CauseType \cup {"none", "Err"}
  /\ minimized \in {"none", "skipped", "concluded", "startLost", "failed"}
  /\ DOMAIN cache \subseteq Indices
  /\ \A s \in DOMAIN cache : cache[s] \in Evaluation
  /\ good \in Indices /\ bad \in 0..MaxTarget + 1 /\ best \in Indices
  /\ cands \subseteq Indices /\ final \subseteq Indices

Shows(s) == s \in DOMAIN cache /\ cache[s].status = "TargetHasDifference"

(* While it searches, the binary search knows a start that shows the       *)
(* difference and a later one that does not (or is past the target), its   *)
(* best start is the former, and every start tried lies outside: no        *)
(* candidate is ever run twice, so the cache is never hit.                 *)
Bracket ==
  pc = "search" =>
    /\ good < bad /\ bad <= target + 1
    /\ Shows(good) /\ best = good
    /\ bad <= target => bad \in DOMAIN cache /\ cache[bad].status = "TargetNoDifference"
    /\ \A s \in DOMAIN cache : s <= good \/ s >= bad

(* What is handed out as the minimized reproducer was run, did show the    *)
(* difference at the target with nothing before it diverging, and its      *)
(* candidate directory survives the cleanup.                               *)
Reproduces(s) == /\ s \in DOMAIN cache
                 /\ cache[s].difference
                 /\ cache[s].status \in {"TargetHasDifference"} \cup Stopping
FinalReproduces == \A s \in final : Reproduces(s) /\ s <= target /\ s \in cands

(* A search that was not cut short ends at a start after which the         *)
(* difference is gone.                                                     *)
CutShort == \E s \in DOMAIN cache : cache[s].status \in Stopping \cup NonTarget
LocallyMinimal ==
  minimized = "concluded" /\ ~CutShort =>
    \A s \in final : s = target \/ (s + 1 \in DOMAIN cache /\ ~cache[s + 1].difference)

(* Whatever the candidates show, one that is handed out is a reproducer    *)
(* and minimal, by a search that keeps its bracket.                        *)
MinimalReproducer == Bracket /\ FinalReproduces /\ LocallyMinimal

(* The best start never moves back to one with more history.               *)
BestOnlyImproves == [][best' >= best]_best

(* On processors that repeat, where the difference shows from every start  *)
(* up to some point and from none after it, the search finds that point.   *)
ShowsFrom(cpu, s) == StatusOf(WindowOf(cpu, s), target) = "TargetHasDifference"
Monotone(cpu) ==
  /\ \A s \in 0..target : StatusOf(WindowOf(cpu, s), target)
                            \in {"TargetHasDifference", "TargetNoDifference"}
  /\ \A s \in 1..target : ShowsFrom(cpu, s) => ShowsFrom(cpu, s - 1)
FindsTheLast ==
  \A cpu \in config.cpu : minimized = "concluded" /\ Monotone(cpu) =>
    \A s \in final : s = target \/ ~ShowsFrom(cpu, s + 1)

(* The candidates run after the first halve the range every time: there    *)
(* are at most log2 of its length of them, rounded up.                     *)
PowerOfTwo[k \in Indices] == IF k = 0 THEN 1 ELSE 2 * PowerOfTwo[k - 1]
Logarithmic == Cardinality(DOMAIN cache) >= 1 =>
                 PowerOfTwo[Cardinality(DOMAIN cache) - 1] < 2 * (target + 1)

(* The search finds the last start that reproduces, and in time.           *)
Bisects == FindsTheLast /\ Logarithmic

(* The classification ends.                                                *)
Terminates == <>(pc = "done")
=============================================================================

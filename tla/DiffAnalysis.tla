---------------------------- MODULE DiffAnalysis ----------------------------
(***************************************************************************)
(* The iterative differential analysis of one testcase:                    *)
(* run_diff_analysis_with_testcase in DRVFuzz/src/diff_analysis/runner.rs. *)
(*                                                                         *)
(* A testcase is executed on every implementation, the executions are      *)
(* compared instruction by instruction, the instructions that diverge are  *)
(* removed and the rest is executed again, until nothing diverges, nothing *)
(* is left, or the iteration limit is reached.                             *)
(*                                                                         *)
(* Test instructions are the numbers 1..N in program order and a testcase  *)
(* is the set of those that are still in it: removals keep the order, so   *)
(* the position of an instruction is determined by the set.                *)
(***************************************************************************)
EXTENDS Naturals, FiniteSets, Sequences, Detection

CONSTANTS
  Impls,         \* the implementations, as numbers in the order of RiscVImpl
  Modes,         \* Modes[i]: the unaligned access modes i supports
  DefaultMode,   \* DefaultMode[i]: the first entry of i's list of modes
  N,             \* number of test instructions of the initial testcase
  Rows,          \* what one execution of an instruction may show, per implementation
  Inits,         \* what one execution of the initialization may show
  Cpus,          \* the processors under test, see CpuType
  Deterministic, \* TRUE: executions repeat; FALSE: an execution may change
  Configs        \* option sets, see ConfigType

Insts == 1..N

(* What the implementations show for one instruction.                      *)
Row == [Impls -> Outcome]

(* The trimmed program before and including an instruction decides what a  *)
(* processor does with it (test instructions do not jump).                 *)
CpuType == [init : [Impls -> Writes], test : [SUBSET Insts -> Row]]

(* An Option of the code is the set of its values: {} for None.            *)
ConfigType == [requirement : SUBSET BOOLEAN,
               limit       : SUBSET Nat,
               cleanIter   : BOOLEAN,
               cleanRun    : BOOLEAN]

ASSUME ImplsAssumption == Impls \subseteq Nat /\ IsFiniteSet(Impls) /\ Impls # {}
ASSUME NAssumption     == N \in Nat
ASSUME RowsAssumption  == Rows \subseteq Row
ASSUME InitsAssumption == Inits \subseteq [Impls -> Writes]
ASSUME CpusAssumption  == Cpus \subseteq CpuType
(* main.rs drops the implementations that do not satisfy the requirement.  *)
ASSUME ConfigsAssumption ==
  /\ Configs \subseteq ConfigType
  /\ \A c \in Configs : Cardinality(c.requirement) <= 1 /\ Cardinality(c.limit) <= 1
  /\ \A c \in Configs, i \in Impls : c.requirement \subseteq Modes[i]
ASSUME ModesAssumption ==
  /\ Modes \in [Impls -> SUBSET BOOLEAN]
  /\ DefaultMode \in [Impls -> BOOLEAN]
  /\ Deterministic \in BOOLEAN

VARIABLES
  cpu,         \* the processors of this run
  config,      \* DiffAnalysisConfig
  pc,          \* what the analysis does next
  status,      \* "running", "Ok" or the DiffAnalysisError returned
  testcase,    \* test_insts of the current testcase
  outputs,     \* the execution outputs last obtained: a row per instruction
  inits,       \* and the writes of the initialization they hold
  iteration,   \* iteration_index
  executed,    \* iterations_executed
  excRounds,   \* exception_round
  wrRounds,    \* write_round
  target,      \* the write difference being classified: instruction and group
  removals,    \* the report_*_removal files, in the order they were written
  causeReports,\* iterations that hold a report_*_exception_cause_diff file
  implDirs,    \* iterations whose per-implementation directories exist
  finalReport, \* final_report.md was written
  rootExists   \* run_root exists

vars == <<cpu, config, pc, status, testcase, outputs, inits, iteration, executed,
          excRounds, wrRounds, target, removals, causeReports, implDirs,
          finalReport, rootExists>>

Statuses == {"running", "Ok", "InitializationMismatch", "IterationLimitReached",
             "Execution", "OtherError"}
RemovalType == [kind : {"exception", "write"}, iteration : Nat, at : Nat,
                insts : SUBSET Insts]
NoTarget == [inst |-> 0, group |-> {}]

-----------------------------------------------------------------------------
(* Which implementations are compared with which.                          *)

SupportMap(requirement) ==
  [i \in Impls |-> IF requirement = {} THEN DefaultMode[i] ELSE TRUE \in requirement]

Groups == LET support == SupportMap(config.requirement) IN
          { {j \in Impls : support[j] = support[i]} : i \in Impls }

(* Mutant: groups of two are taken for groups with nothing to compare.     *)
ComparedAboveTwo == {g \in Groups : Cardinality(g) > 2}

Compared == {g \in Groups : Cardinality(g) >= 2}

-----------------------------------------------------------------------------
(* The differences in the current outputs, over all compared groups.       *)

Triggers     == {k \in testcase : \E g \in Compared : TriggerMismatch(g, outputs[k])}
CauseDiffs   == {k \in testcase : \E g \in Compared : CauseMismatch(g, outputs[k])}
WriteDiffs   == {d \in [inst : testcase, group : Compared] :
                   WriteMismatch(d.group, outputs[d.inst])}

(* Sorted by test_index, then by group: groups are sorted lists of         *)
(* implementations and disjoint, so their first members order them.        *)
Earlier(d, e) == \/ d.inst < e.inst
                 \/ /\ d.inst = e.inst
                    /\ \E i \in d.group : \A j \in e.group : i <= j
(* Mutant: the differences are not sorted before the first one is taken.   *)
AnyWriteDiff(d) == d \in WriteDiffs

FirstWriteDiff(d) == d \in WriteDiffs /\ \A e \in WriteDiffs : Earlier(d, e)

-----------------------------------------------------------------------------
Prefix(tc, k) == {j \in tc : j <= k}

(* The outputs RiscVImplVec::execute may produce for a testcase.           *)
Executions(tc) == IF Deterministic
                  THEN { [k \in tc |-> cpu.test[Prefix(tc, k)]] }
                  ELSE [tc -> Rows]

(* The initialization is executed again with every testcase.               *)
Initializations == IF Deterministic THEN {cpu.init} ELSE Inits

Init ==
  /\ cpu \in Cpus /\ config \in Configs
  /\ pc = "execute" /\ status = "running"
  /\ testcase = Insts /\ outputs = <<>> /\ inits = <<>>
  /\ iteration = 0 /\ executed = 0 /\ excRounds = 0 /\ wrRounds = 0
  /\ target = NoTarget /\ removals = <<>>
  /\ causeReports = {} /\ implDirs = {}
  /\ finalReport = FALSE /\ rootExists = TRUE

(* run_iteration, and what follows it: the first iteration is verified, a  *)
(* later one ends the loop when no test instruction is left.               *)
Execute ==
  /\ pc = "execute"
  /\ outputs' \in Executions(testcase) /\ inits' \in Initializations
  /\ executed' = executed + 1
  /\ implDirs' = implDirs \cup {iteration}
  /\ pc' = IF iteration = 0 THEN "verify"
           ELSE IF testcase = {} THEN "finish" ELSE "detect"
  /\ UNCHANGED <<cpu, config, status, testcase, iteration, excRounds, wrRounds,
                 target, removals, causeReports, finalReport, rootExists>>

Return(result) == pc' = "done" /\ status' = result

(* An implementation fails (build, process, timeout or log parsing), or    *)
(* its output cannot be written.  Some of its directories may exist.       *)
ExecuteFails ==
  /\ pc = "execute"
  /\ \E error \in {"Execution", "OtherError"} : Return(error)
  /\ implDirs' = implDirs \cup {iteration}
  /\ UNCHANGED <<cpu, config, testcase, outputs, inits, iteration, executed, excRounds,
                 wrRounds, target, removals, causeReports, finalReport, rootExists>>

(* The first execution alone is looked at: no later one is.                *)
VerifyInitialization ==
  /\ pc = "verify"
  /\ IF \A g \in Groups : SameInit(g, inits)
     THEN pc' = "detect" /\ UNCHANGED status
     ELSE Return("InitializationMismatch")
  /\ UNCHANGED <<cpu, config, testcase, outputs, inits, iteration, executed, excRounds,
                 wrRounds, target, removals, causeReports, implDirs, finalReport,
                 rootExists>>

(* The limit check after a removal, and the start of the next iteration.   *)
(* Mutant: the check lets one more iteration through.                      *)
LimitPassed == \E limit \in config.limit : executed > limit

LimitReached == \E limit \in config.limit : executed >= limit

NextIteration ==
  IF LimitReached
  THEN Return("IterationLimitReached") /\ UNCHANGED iteration
  ELSE pc' = "execute" /\ iteration' = iteration + 1 /\ UNCHANGED status

(* GeneratedTestCase::without_test_indices together with its report.       *)
WithoutTestIndices(kind, at, insts) ==
  /\ testcase' = testcase \ insts
  /\ removals' = Append(removals, [kind |-> kind, iteration |-> iteration,
                                   at |-> at, insts |-> insts])

RemoveExceptions ==
  /\ pc = "detect"
  /\ Triggers # {}
  /\ excRounds' = excRounds + 1
  /\ WithoutTestIndices("exception", 0, Triggers)
  /\ NextIteration
  /\ UNCHANGED <<cpu, config, outputs, inits, executed, wrRounds, target, causeReports,
                 implDirs, finalReport, rootExists>>

(* Differing causes are reported and nothing else: detection goes on to    *)
(* the writes of the same outputs.                                         *)
ReportCauses == causeReports' = IF CauseDiffs # {} THEN causeReports \cup {iteration}
                                                   ELSE causeReports

(* Mutant: a cause mismatch keeps the writes from being looked at.         *)
DetectWriteUnlessCauses ==
  /\ pc = "detect"
  /\ Triggers = {} /\ CauseDiffs = {}
  /\ UNCHANGED causeReports
  /\ \E d \in WriteDiffs : FirstWriteDiff(d) /\ target' = d
  /\ pc' = "classify"
  /\ UNCHANGED <<cpu, config, status, testcase, outputs, inits, iteration, executed,
                 excRounds, wrRounds, removals, implDirs, finalReport, rootExists>>

DetectWriteDifference ==
  /\ pc = "detect"
  /\ Triggers = {}
  /\ ReportCauses
  /\ \E d \in WriteDiffs : FirstWriteDiff(d) /\ target' = d
  /\ pc' = "classify"
  /\ UNCHANGED <<cpu, config, status, testcase, outputs, inits, iteration, executed,
                 excRounds, wrRounds, removals, implDirs, finalReport, rootExists>>

Converge ==
  /\ pc = "detect"
  /\ Triggers = {} /\ WriteDiffs = {}
  /\ ReportCauses
  /\ implDirs' = IF config.cleanIter THEN implDirs \ {iteration} ELSE implDirs
  /\ pc' = "finish"
  /\ UNCHANGED <<cpu, config, status, testcase, outputs, inits, iteration, executed,
                 excRounds, wrRounds, target, removals, finalReport, rootExists>>

(* classify_write_difference may give either answer (HistoryMin models how *)
(* it finds one): the instruction alone, or all instructions up to it.     *)
(* Mutant: 0..=test_index taken for instruction numbers.                   *)
BlamedFromZero(cause) == IF cause = "SingleInstruction" THEN {target.inst}
                         ELSE 0..target.inst

Blamed(cause) == IF cause = "SingleInstruction" THEN {target.inst}
                 ELSE Prefix(testcase, target.inst)

RemoveWriteDifference ==
  /\ pc = "classify"
  /\ \E cause \in {"SingleInstruction", "DependsOnHistory"} :
       WithoutTestIndices("write", target.inst, Blamed(cause))
  /\ wrRounds' = wrRounds + 1
  /\ target' = NoTarget
  /\ NextIteration
  /\ UNCHANGED <<cpu, config, outputs, inits, executed, excRounds, causeReports,
                 implDirs, finalReport, rootExists>>

(* Mutant: a run with write removals alone counts as successful.           *)
FinishIgnoringWrites ==
  /\ pc = "finish"
  /\ finalReport' = TRUE
  /\ rootExists' = ~(config.cleanRun /\ excRounds = 0)
  /\ Return("Ok")
  /\ UNCHANGED <<cpu, config, testcase, outputs, inits, iteration, executed, excRounds,
                 wrRounds, target, removals, causeReports, implDirs>>

(* Mutant: the result holds the initial testcase.                          *)
FinishWithInitial ==
  /\ pc = "finish"
  /\ testcase' = Insts /\ finalReport' = TRUE
  /\ Return("Ok")
  /\ UNCHANGED <<cpu, config, outputs, inits, iteration, executed, excRounds, wrRounds,
                 target, removals, causeReports, implDirs, rootExists>>

(* The final report, the result, and the optional deletion of the run.     *)
Finish ==
  /\ pc = "finish"
  /\ finalReport' = TRUE
  /\ rootExists' = ~(config.cleanRun /\ excRounds = 0 /\ wrRounds = 0)
  /\ Return("Ok")
  /\ UNCHANGED <<cpu, config, testcase, outputs, inits, iteration, executed, excRounds,
                 wrRounds, target, removals, causeReports, implDirs>>

(* Writing a report or a directory, or a comparison, fails: every such     *)
(* call ends in `?'.                                                       *)
IoFails ==
  /\ pc \in {"verify", "detect", "classify", "finish"}
  /\ Return("OtherError")
  /\ UNCHANGED <<cpu, config, testcase, outputs, inits, iteration, executed, excRounds,
                 wrRounds, target, removals, causeReports, implDirs, finalReport,
                 rootExists>>

Done == pc = "done" /\ UNCHANGED vars

(* Every step of the code returns, if the implementations it runs do.      *)
Progress == \/ Execute \/ VerifyInitialization \/ RemoveExceptions
            \/ DetectWriteDifference \/ Converge \/ RemoveWriteDifference \/ Finish

Next == Progress \/ ExecuteFails \/ IoFails \/ Done

Spec == Init /\ [][Next]_vars /\ WF_vars(Progress)

-----------------------------------------------------------------------------
(* Properties.                                                             *)

TypeOK ==
  /\ cpu \in Cpus /\ config \in Configs
  /\ pc \in {"execute", "verify", "detect", "classify", "finish", "done"}
  /\ status \in Statuses
  /\ testcase \subseteq Insts
  /\ \E tc \in SUBSET Insts : outputs \in [tc -> Row]
  /\ inits \in [Impls -> Writes] \cup {<<>>}
  /\ iteration \in Nat /\ executed \in Nat /\ excRounds \in Nat /\ wrRounds \in Nat
  /\ target \in [inst : 0..N, group : SUBSET Impls]
  /\ removals \in Seq(RemovalType)
  /\ causeReports \subseteq Nat /\ implDirs \subseteq Nat
  /\ finalReport \in BOOLEAN /\ rootExists \in BOOLEAN

(* max_iterations bounds the executions of an analysis, the first one,     *)
(* which no check precedes, included.                                      *)
LimitRespected ==
  \A limit \in config.limit : executed <= IF limit = 0 THEN 1 ELSE limit

Removed == UNION {removals[r].insts : r \in DOMAIN removals}

(* Every instruction that left the testcase is named by exactly one        *)
(* removal report, and by none while it is still there.                    *)
EvidenceComplete ==
  /\ Insts = testcase \cup Removed
  /\ testcase \cap Removed = {}
  /\ \A r, q \in DOMAIN removals : r # q => removals[r].insts \cap removals[q].insts = {}

(* Each removal report lies in an iteration directory of its own, whose    *)
(* testcase.json and outputs are those the report was made from: no later  *)
(* iteration is executed into the directory of an earlier one.             *)
OneRemovalPerIteration ==
  /\ \A r \in DOMAIN removals : removals[r].iteration = r - 1
  /\ pc \in {"execute", "verify", "detect", "classify"} => iteration = Len(removals)

(* An analysis that ends well has executed the testcase it returns, and in *)
(* the outputs it returns no two implementations that are to be compared   *)
(* differ, in what a test instruction writes or in whether it traps.  The  *)
(* initialization is compared in the first execution only, so that nothing *)
(* is said of what it wrote in the outputs returned if something was       *)
(* removed in between.                                                     *)
Converged ==
  status = "Ok" =>
    /\ DOMAIN outputs = testcase
    /\ \A g \in Groups, k \in testcase : /\ ~TriggerMismatch(g, outputs[k])
                                         /\ ~WriteMismatch(g, outputs[k])
    /\ removals = <<>> => \A g \in Groups : SameInit(g, inits)

(* Cleaning up never takes away the outputs that a removal report is made  *)
(* from: an iteration with a removal keeps its directories, and so does    *)
(* the run.                                                                *)
EvidenceKept ==
  /\ \A r \in DOMAIN removals : removals[r].iteration \in implDirs
  /\ ~rootExists => removals = <<>>

(* What is removed and what stays on disk tell how the testcase was        *)
(* trimmed, whatever fails and whichever cleanup is on.                    *)
Evidence == EvidenceComplete /\ OneRemovalPerIteration /\ EvidenceKept

(* With processors that repeat, a write removal settles everything before  *)
(* it: the differences a later round acts on all lie after its target (a   *)
(* later round may still remove earlier instructions as their history).    *)
Divergent(r) == IF removals[r].kind = "write" THEN {removals[r].at} ELSE removals[r].insts

NeverGoesBack ==
  Deterministic =>
    \A r, q \in DOMAIN removals :
      r < q /\ removals[r].kind = "write" => \A k \in Divergent(q) : k > removals[r].at

(* The analysis ends: every round removes an instruction.                  *)
Terminates == <>(pc = "done")

(* Implements the abstract specification.                                  *)
Abstract == INSTANCE Trimming WITH
  Verdicts <- Statuses \ {"running"},
  remaining <- testcase, reported <- Removed, verdict <- status
ImplementsTrimming == Abstract!ASpec
=============================================================================

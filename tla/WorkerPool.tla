----------------------------- MODULE WorkerPool -----------------------------
(***************************************************************************)
(* A fuzzing campaign: run_diff_analysis_with_impls and diff_worker_loop   *)
(* in main.rs.  The main thread starts the workers and joins them in the   *)
(* order it started them; each worker claims run numbers from a shared     *)
(* counter and analyses one random testcase per run, with or without a     *)
(* seed of the shared guidance, until it finds the run limit reached or    *)
(* the flag `running' lowered, or dies of an error.                        *)
(***************************************************************************)
EXTENDS Guidance

CONSTANTS Configs,      \* how a campaign may be started, see ConfigType
          MaxWorkers,   \* bound on --concurrency
          CounterWidth, \* values of run_counter, an AtomicU64
          Tests         \* the testcases a run may come up with

WorkerIds == 0..MaxWorkers - 1
RunIds    == 0..CounterWidth - 1

(* maxRuns: the option --max-runs, {} for none.                            *)
ConfigType == [concurrency : Nat, maxRuns : SUBSET Nat, guided : BOOLEAN]

ASSUME TestsAssumption   == Tests \subseteq Testcase
ASSUME WidthAssumption   == CounterWidth \in Nat \ {0} /\ MaxWorkers \in Nat \ {0}
ASSUME ConfigsAssumption ==
  /\ Configs \subseteq ConfigType
  /\ \A c \in Configs : /\ c.concurrency <= MaxWorkers
                        /\ Cardinality(c.maxRuns) <= 1
                        /\ \A m \in c.maxRuns : m < CounterWidth

VARIABLES
  config,
  main,     \* "start", "spawn", "join", "done"
  handle,   \* the worker the main thread spawns or joins next
  outcome,  \* result of the main thread: "none", "Ok", "BadOptions", "Io", "Error"
  firstError, \* the worker whose error the main thread returns, if any
  running,  \* the shared flag
  counter,  \* run_counter
  pc,       \* per worker: what it does next
  run,      \* per worker: the run it claimed last
  seed,     \* per worker: guided_seed, no testcase or one
  runs      \* per run: "new", "started", "completed", "failed", "lost"

wvars == <<config, main, handle, outcome, firstError, running, counter, pc, run, seed, runs>>
vars  == <<wvars, gvars>>

Workers == {w \in WorkerIds : w < config.concurrency}
Dead    == {"error", "panic"}

Init ==
  /\ GInit
  /\ config \in Configs
  /\ main = "start" /\ handle = 0 /\ outcome = "none" /\ firstError = {}
  /\ running = TRUE /\ counter = 0
  /\ pc = [w \in WorkerIds |-> "unborn"]
  /\ run = [w \in WorkerIds |-> 0]
  /\ seed = [w \in WorkerIds |-> {}]
  /\ runs = [r \in RunIds |-> "new"]

-----------------------------------------------------------------------------
(* The main thread.                                                        *)

Return(result) == main' = "done" /\ outcome' = result

Start ==
  /\ main = "start"
  /\ \/ config.concurrency = 0 /\ Return("BadOptions")
     \/ config.concurrency # 0 /\ config.maxRuns = {0} /\ Return("Ok")
     \/ config.concurrency # 0 /\ config.maxRuns # {0} /\ main' = "spawn" /\ UNCHANGED outcome
     \/ config.concurrency # 0 /\ config.maxRuns # {0} /\ Return("Io")
  /\ UNCHANGED <<config, handle, firstError, running, counter, pc, run, seed, runs, gvars>>

Spawn ==
  /\ main = "spawn"
  /\ pc' = [pc EXCEPT ![handle] = "check"]
  /\ IF handle + 1 \in Workers THEN handle' = handle + 1 /\ UNCHANGED main
                               ELSE handle' = 0 /\ main' = "join"
  /\ UNCHANGED <<config, outcome, firstError, running, counter, run, seed, runs, gvars>>

(* Mutant: the error of the worker joined last is returned.                *)
LastError == {handle}

FirstError == IF firstError = {} THEN {handle} ELSE firstError

(* handle.join() returns when the worker has ended, by an error, by a      *)
(* panic or well.                                                          *)
Join ==
  /\ main = "join"
  /\ \/ /\ pc[handle] \in Dead
        /\ running' = FALSE /\ firstError' = FirstError
     \/ pc[handle] = "exited" /\ UNCHANGED <<running, firstError>>
  /\ IF handle + 1 \in Workers
     THEN handle' = handle + 1 /\ UNCHANGED <<main, outcome>>
     ELSE UNCHANGED handle /\ Return(IF firstError' = {} THEN "Ok" ELSE "Error")
  /\ UNCHANGED <<config, counter, pc, run, seed, runs, gvars>>

-----------------------------------------------------------------------------
(* A worker.                                                               *)

Goto(w, label) == pc' = [pc EXCEPT ![w] = label]

(* The loop condition, and the check after a completed run before it.      *)
Check(w) ==
  /\ pc[w] \in {"check", "completed"}
  /\ Goto(w, IF ~running THEN "exited"
             ELSE IF pc[w] = "completed" THEN "check" ELSE "claim")
  /\ UNCHANGED <<config, main, handle, outcome, firstError, running, counter, run,
                 seed, runs, gvars>>

LimitReached == \E limit \in config.maxRuns : counter >= limit

(* next_run_directory: an atomic update of the counter.                    *)
Claim(w) ==
  /\ pc[w] = "claim"
  /\ ~LimitReached
  /\ counter' = (counter + 1) % CounterWidth
  /\ run' = [run EXCEPT ![w] = counter]
  /\ runs' = [runs EXCEPT ![counter] = "started"]
  /\ Goto(w, "prepare")
  /\ UNCHANGED <<config, main, handle, outcome, firstError, running, seed, gvars>>

NoMoreRuns(w) ==
  /\ pc[w] = "claim"
  /\ LimitReached
  /\ running' = FALSE
  /\ Goto(w, "exited")
  /\ UNCHANGED <<config, main, handle, outcome, firstError, counter, run, seed, runs,
                 gvars>>

(* The run's directory is created.                                         *)
Prepare(w) ==
  /\ pc[w] = "prepare"
  /\ Goto(w, IF config.guided THEN "select" ELSE "analyze")
  /\ seed' = [seed EXCEPT ![w] = {}]
  /\ UNCHANGED <<config, main, handle, outcome, firstError, running, counter, run,
                 runs, gvars>>

Select(w) ==
  /\ pc[w] = "select"
  /\ SelectSeed
  /\ seed' = [seed EXCEPT ![w] = selected']
  /\ Goto(w, "analyze")
  /\ UNCHANGED <<config, main, handle, outcome, firstError, running, counter, run, runs>>

Finished(w, how) == runs' = [runs EXCEPT ![run[w]] = how]

(* The analysis succeeds; its transition analysis is fed back under the    *)
(* lock.  Only a guided campaign makes one.                                *)
Complete(w) ==
  /\ pc[w] = "analyze"
  /\ IF config.guided THEN \E testcase \in Tests : RecordAnalysis(testcase)
                      ELSE UNCHANGED gvars
  /\ Finished(w, "completed")
  /\ Goto(w, "completed")
  /\ UNCHANGED <<config, main, handle, outcome, firstError, running, counter, run, seed>>

(* Mutants: the run is forgotten; it is tried with another seed.           *)
FailForgotten(w) ==
  /\ pc[w] = "analyze"
  /\ Goto(w, "check")
  /\ UNCHANGED <<config, main, handle, outcome, firstError, running, counter, run,
                 seed, runs, gvars>>
FailRetries(w) ==
  /\ pc[w] = "analyze"
  /\ Goto(w, "select")
  /\ UNCHANGED <<config, main, handle, outcome, firstError, running, counter, run,
                 seed, runs, gvars>>

(* The analysis, or the generation of an unguided testcase, fails: a       *)
(* failure report is written (or not: an error of it is only logged).      *)
AnalysisFails(w) ==
  /\ pc[w] = "analyze"
  /\ Finished(w, "failed")
  /\ Goto(w, "check")
  /\ UNCHANGED <<config, main, handle, outcome, firstError, running, counter, run,
                 seed, gvars>>

(* The directory of the run cannot be made, the clock is wrong, or the     *)
(* testcase that is to take a seed cannot be generated: the error ends     *)
(* the worker.  A panic does, wherever an analysis panics.                 *)
Die(w) ==
  /\ \/ pc[w] = "prepare" /\ Goto(w, "error")
     \/ pc[w] = "analyze" /\ seed[w] # {} /\ Goto(w, "error")
     \/ pc[w] = "analyze" /\ Goto(w, "panic")
  /\ Finished(w, "lost")
  /\ UNCHANGED <<config, main, handle, outcome, firstError, running, counter, run,
                 seed, gvars>>

Ended == main = "done" /\ UNCHANGED vars

Main == Start \/ Spawn \/ Join

(* What a worker does if nothing that ends it goes wrong.                  *)
Work(w) == \/ Check(w) \/ Claim(w) \/ NoMoreRuns(w) \/ Prepare(w) \/ Select(w)
           \/ Complete(w) \/ AnalysisFails(w)

Next == Main \/ (\E w \in Workers : Work(w) \/ Die(w)) \/ Ended

(* Threads are scheduled, and every analysis returns: those that need it   *)
(* run under a timeout.                                                    *)
Spec == Init /\ [][Next]_vars /\ WF_vars(Main)
             /\ \A w \in WorkerIds : WF_vars(w \in Workers /\ Work(w))

-----------------------------------------------------------------------------
(* Properties.                                                             *)

TypeOK ==
  /\ GTypeOK
  /\ config \in Configs
  /\ main \in {"start", "spawn", "join", "done"} /\ handle \in WorkerIds
  /\ outcome \in {"none", "Ok", "BadOptions", "Io", "Error"}
  /\ firstError \subseteq WorkerIds
  /\ running \in BOOLEAN /\ counter \in RunIds
  /\ pc \in [WorkerIds -> {"unborn", "check", "claim", "prepare", "select", "analyze",
                           "completed", "exited"} \cup Dead]
  /\ run \in [WorkerIds -> RunIds]
  /\ seed \in [WorkerIds -> SUBSET Testcase]
  /\ runs \in [RunIds -> {"new", "started", "completed", "failed", "lost"}]

Busy == {"prepare", "select", "analyze"}
Limited == config.maxRuns # {}
Limit   == CHOOSE m \in config.maxRuns : TRUE

(* Two workers are never at the same run, so the directories they write to *)
(* are distinct, and no run beyond the limit is ever started.              *)
RunsDistinct ==
  Limited =>
    /\ \A v, w \in Workers : pc[v] \in Busy /\ pc[w] \in Busy /\ run[v] = run[w] => v = w
    /\ \A r \in RunIds : r >= Limit => runs[r] = "new"

(* A started run comes to nothing only if it took its worker with it: a    *)
(* worker takes one run at most.                                           *)
LostWithWorker ==
  Limited =>
    \A r \in RunIds :
      /\ runs[r] = "started" => \E w \in Workers : pc[w] \in Busy /\ run[w] = r
      /\ runs[r] = "lost" => \E w \in Workers : pc[w] \in Dead /\ run[w] = r

(* A campaign that returns without an error has done every run it was      *)
(* asked for, and nothing runs any more however it returns.                *)
AllRunsDone ==
  main = "done" =>
    /\ \A w \in Workers : pc[w] \in Dead \cup {"exited", "unborn"}
    /\ outcome = "Ok" => \A m \in config.maxRuns :
                           \A r \in 0..m - 1 : runs[r] \in {"completed", "failed"}

(* The error a campaign returns is the one of the first worker, in the     *)
(* order of their numbers, that died; if one died, there is one.           *)
ErrorReturned ==
  main = "done" =>
    LET dead == {w \in Workers : pc[w] \in Dead} IN
    /\ outcome = "Error" <=> dead # {}
    /\ outcome = "Error" => \E w \in dead : firstError = {w} /\ \A v \in dead : w <= v

(* Without a limit nothing but the death of a worker stops another one.    *)
OnlyDeathStops ==
  ~Limited /\ (\E w \in Workers : pc[w] = "exited") =>
    \E w \in Workers : pc[w] \in Dead

(* Every run is claimed by one worker and done, or lost with it.           *)
RunsAccounted == RunsDistinct /\ LostWithWorker /\ AllRunsDone

(* A worker's death is what stops an unlimited campaign, and the campaign  *)
(* returns the error of the first.                                         *)
DeathsTold == ErrorReturned /\ OnlyDeathStops

(* A limited campaign ends.                                                *)
Ends == Limited ~> main = "done"

(* An unlimited one goes on fuzzing as long as no worker dies.             *)
KeepsFuzzing ==
  [](\A w \in Workers : pc[w] \notin Dead) /\ [](~Limited /\ main \in {"start", "spawn", "join"})
    => \A w \in WorkerIds : [](w \in Workers => <>(pc[w] = "prepare"))

(* Both, for the campaigns they are about.                                 *)
EndsOrGoesOn == Ends /\ KeepsFuzzing
=============================================================================

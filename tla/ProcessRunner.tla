--------------------------- MODULE ProcessRunner ---------------------------
(***************************************************************************)
(* One execution of a simulator: the functions run_rocket, run_boom,       *)
(* run_spike, run_picorv32, invoke_cva6, run_ibex, run_vex, run_kronos,    *)
(* run_srv32 and run_emu of impls/*/execute.rs, with the part of execute   *)
(* before and after them that decides which trace is read.  The executor   *)
(* starts the simulator, polls it, may kill it at a deadline, and reads    *)
(* its trace; two threads may read the simulator's pipes meanwhile.        *)
(*                                                                         *)
(* A simulator has two outputs: "log" is its trace, "side" everything else *)
(* it prints.  Their contents are counted in chunks.  Ibex looks for its   *)
(* log under two names, which it treats alike, and PicoRV32 for its trace  *)
(* in what it wrote to stdout, then to stderr: "log" is the one that has it.*)
(***************************************************************************)
EXTENDS Integers, FiniteSets

CONSTANTS Configs,      \* the executions considered, see ConfigType
          PipeSize,     \* chunks that a pipe holds
          DefaultLimit, \* the time limit of those that have one by default
          MaxTime       \* bound on the clock

(* What each of the functions does: "threads" read both pipes; stdout is   *)
(* "redirected" to the trace; the trace is the simulator's "own log", which *)
(* "removes" an earlier one; pipes are made that nobody reads and a default *)
(* limit applies ("deaf"); "any status" is as good as success, or is if     *)
(* there is a trace ("log suffices"); a trace must be "not empty".          *)
RunRocket    == {"threads", "any status", "not empty"}
RunBoom      == {"threads", "any status", "not empty"}
RunSpike     == {"threads", "any status"}
RunPico      == {"threads", "any status", "not empty"}
InvokeCva6   == {"threads", "own log", "removes"}
RunXiangShan == {"redirected", "any status", "not empty"}
RunKronos    == {"redirected", "deaf"}
RunIbex      == {"own log", "deaf", "removes"}
RunVex       == {"own log", "deaf", "removes"}
RunSrv32     == {"own log", "deaf", "log suffices"}

(* "cva6_00" is a CVA6 that writes the second of RVFI_TRACE_CANDIDATES,    *)
(* which is not removed before a run; "srv32_cov" is the RTL simulator of  *)
(* srv32, which writes trace.log.                                          *)
Runs == [rocket |-> RunRocket, boom |-> RunBoom, spike |-> RunSpike, picorv32 |-> RunPico,
         cva6 |-> InvokeCva6, cva6_00 |-> InvokeCva6 \ {"removes"},
         xiangshan |-> RunXiangShan, kronos |-> RunKronos, ibex |-> RunIbex,
         vex |-> RunVex, srv32 |-> RunSrv32, srv32_cov |-> RunSrv32]
Simulators   == DOMAIN Runs
With(what)   == {s \in Simulators : what \in Runs[s]}
Threaded     == With("threads")
Redirected   == With("redirected")
OwnLog       == With("own log")
Deaf         == With("deaf")
Removing     == With("removes")
StatusIgnored == With("any status")
Lenient      == With("log suffices")
RejectEmpty  == With("not empty")

Streams  == {"log", "side"}
Origins  == {"absent", "earlier", "this"}
FileType == [origin : Origins, size : Nat]
Absent   == [origin |-> "absent", size |-> 0]
Created  == [origin |-> "this", size |-> 0]
Names    == {"log", "trace"}  \* the file that is parsed, and trace.log of srv32

(* limit: the configured timeout, {} for none; output: what the simulator  *)
(* is going to write; opens: whether it gets as far as creating its trace; *)
(* exit: how it ends; leftover: what is in the run directory; sticky: the  *)
(* file system refuses to remove it.                                       *)
ConfigType == [sim : Simulators, limit : SUBSET Nat, output : [Streams -> Nat],
               opens : BOOLEAN, exit : {"success", "failure", "never"},
               leftover : [Names -> {Absent} \cup [origin : {"earlier"}, size : Nat]],
               sticky : BOOLEAN]

ASSUME PipeAssumption    == PipeSize \in Nat \ {0}
ASSUME TimeAssumption    == DefaultLimit \in Nat /\ MaxTime \in Nat
ASSUME ConfigsAssumption == Configs \subseteq ConfigType

VARIABLES
  config,
  pc,       \* the executor: "prepare", "spawn", "poll", "deadline", "reap",
            \* "join", "logs", "status", "trace", "done"
  result,   \* "none", "ok", "TimedOut", "Failed", "Empty", "Io"
  returned, \* the trace that was parsed
  timedOut,
  now,      \* time since the start
  child,    \* "none", "running", "zombie", "gone"
  status,   \* how it ended: "none", "success", "failure", "killed"
  opened,   \* it has created its trace
  written,  \* per stream: chunks written by the child
  pipe,     \* per stream: chunks in the pipe
  taken,    \* per stream: chunks in the buffer of the reader thread
  reader,   \* per stream: "none", "reading", "eof"
  disk      \* the files in the run directory

exec  == <<pc, result, returned, timedOut>>
proc  == <<child, status, opened, written>>
vars  == <<config, exec, now, proc, pipe, taken, reader, disk>>

sim == config.sim

(* The streams that are pipes, and those which a thread reads.             *)
Piped == {s \in Streams : IF s = "side" THEN sim \in Threaded \cup Deaf
                                        ELSE sim \in Threaded \ OwnLog}
(* Mutant: stdout is read, stderr is not.                                  *)
ReadLogOnly == IF sim \in Threaded THEN Piped \cap {"log"} ELSE {}

Read  == IF sim \in Threaded THEN Piped ELSE {}

Init ==
  /\ config \in Configs
  /\ pc = "prepare" /\ result = "none" /\ returned = Absent /\ timedOut = FALSE
  /\ now = 0
  /\ child = "none" /\ status = "none" /\ opened = FALSE
  /\ written = [s \in Streams |-> 0]
  /\ pipe = [s \in Streams |-> 0]
  /\ taken = [s \in Streams |-> 0]
  /\ reader = [s \in Streams |-> "none"]
  /\ disk = config.leftover

-----------------------------------------------------------------------------
(* The simulator.  It writes to its pipes, to the file its output is       *)
(* redirected to, or to a trace file of its own, which it creates first.   *)

Target     == IF sim = "srv32_cov" THEN "trace" ELSE "log"
Planned(s) == IF s = "log" /\ sim \in OwnLog /\ ~config.opens THEN 0 ELSE config.output[s]

ChildOpens ==
  /\ child = "running" /\ sim \in OwnLog /\ config.opens /\ ~opened
  /\ opened' = TRUE
  /\ disk' = [disk EXCEPT ![Target] = Created]
  /\ UNCHANGED <<config, exec, now, child, status, written, pipe, taken, reader>>

Longer(file) == [origin |-> file.origin, size |-> file.size + 1]

(* A write to a full pipe blocks.                                          *)
ChildWrites(s) ==
  /\ child = "running" /\ written[s] < Planned(s)
  /\ s = "log" /\ sim \in OwnLog => opened
  /\ written' = [written EXCEPT ![s] = @ + 1]
  /\ \/ /\ s \in Piped /\ pipe[s] < PipeSize
        /\ pipe' = [pipe EXCEPT ![s] = @ + 1]
        /\ UNCHANGED disk
     \/ /\ s \notin Piped
        /\ disk' = IF s = "log" THEN [disk EXCEPT ![Target] = Longer(@)] ELSE disk
        /\ UNCHANGED pipe
  /\ UNCHANGED <<config, exec, now, child, status, opened, taken, reader>>

ChildExits ==
  /\ child = "running" /\ config.exit # "never"
  /\ \A s \in Streams : written[s] = Planned(s)
  /\ sim \in OwnLog /\ config.opens => opened
  /\ child' = "zombie" /\ status' = config.exit
  /\ UNCHANGED <<config, exec, now, opened, written, pipe, taken, reader, disk>>

Child == ChildOpens \/ (\E s \in Streams : ChildWrites(s)) \/ ChildExits

(* Mutant: an empty pipe is taken for a closed one.                        *)
ReaderImpatient(s) ==
  /\ reader[s] = "reading"
  /\ \/ /\ pipe[s] > 0
        /\ pipe' = [pipe EXCEPT ![s] = @ - 1]
        /\ taken' = [taken EXCEPT ![s] = @ + 1]
        /\ UNCHANGED reader
     \/ /\ pipe[s] = 0
        /\ reader' = [reader EXCEPT ![s] = "eof"]
        /\ UNCHANGED <<pipe, taken>>
  /\ UNCHANGED <<config, exec, now, proc, disk>>

(* Mutant: the thread reads without end.                                   *)
ReaderEndless(s) ==
  /\ reader[s] = "reading"
  /\ pipe' = [pipe EXCEPT ![s] = @ - 1]
  /\ taken' = [taken EXCEPT ![s] = @ + 1]
  /\ UNCHANGED <<config, exec, now, proc, reader, disk>>

(* A reader thread: read_to_end.                                           *)
Reader(s) ==
  /\ reader[s] = "reading"
  /\ \/ /\ pipe[s] > 0
        /\ pipe' = [pipe EXCEPT ![s] = @ - 1]
        /\ taken' = [taken EXCEPT ![s] = @ + 1]
        /\ UNCHANGED reader
     \/ /\ pipe[s] = 0 /\ child # "running"
        /\ reader' = [reader EXCEPT ![s] = "eof"]
        /\ UNCHANGED <<pipe, taken>>
  /\ UNCHANGED <<config, exec, now, proc, disk>>

Tick ==
  /\ pc \notin {"prepare", "spawn", "done"} /\ now < MaxTime
  /\ now' = now + 1
  /\ UNCHANGED <<config, exec, proc, pipe, taken, reader, disk>>

-----------------------------------------------------------------------------
(* The executor.                                                           *)

Goto(label)   == pc' = label /\ UNCHANGED <<result, returned, timedOut>>
Return(value) == pc' = "done" /\ result' = value /\ UNCHANGED <<returned, timedOut>>

(* The run directory when the simulator is started.                        *)
Prepared ==
  IF sim \in Redirected THEN [disk EXCEPT !["log"] = Created]
  ELSE IF sim \in Removing /\ ~config.sticky THEN [disk EXCEPT !["log"] = Absent]
  ELSE disk

Prepare ==
  /\ pc = "prepare" /\ Goto("spawn")
  /\ disk' = Prepared
  /\ UNCHANGED <<config, now, proc, pipe, taken, reader>>

Spawn ==
  /\ pc = "spawn" /\ Goto("poll")
  /\ child' = "running"
  /\ reader' = [s \in Streams |-> IF s \in Read THEN "reading" ELSE "none"]
  /\ UNCHANGED <<config, now, status, opened, written, pipe, taken, disk>>

(* Mutant: the trace is read without waiting for the threads.              *)
PollHasty ==
  /\ pc = "poll"
  /\ \/ child = "running" /\ Goto("deadline") /\ UNCHANGED child
     \/ child = "zombie" /\ child' = "gone" /\ Goto(IF sim \in Threaded THEN "logs" ELSE "status")
  /\ UNCHANGED <<config, now, status, opened, written, pipe, taken, reader, disk>>

(* try_wait: reaps a simulator that has ended.                             *)
Poll ==
  /\ pc = "poll"
  /\ \/ child = "running" /\ Goto("deadline") /\ UNCHANGED child
     \/ child = "zombie" /\ child' = "gone" /\ Goto(IF sim \in Threaded THEN "join" ELSE "status")
  /\ UNCHANGED <<config, now, status, opened, written, pipe, taken, reader, disk>>

Limits  == IF config.limit = {} /\ sim \in Deaf THEN {DefaultLimit} ELSE config.limit

Expired == \E limit \in Limits : IF sim \in Deaf THEN now > limit ELSE now >= limit

Sleep ==
  /\ pc = "deadline" /\ ~Expired /\ Goto("poll")
  /\ UNCHANGED <<config, now, proc, pipe, taken, reader, disk>>

(* kill does nothing to a simulator that has ended since the poll.  For    *)
(* XiangShan nobody waits for it.                                          *)
Kill ==
  /\ pc = "deadline" /\ Expired
  /\ child' = "zombie"
  /\ status' = IF child = "running" THEN "killed" ELSE status
  /\ timedOut' = TRUE
  /\ IF sim = "xiangshan" THEN pc' = "done" /\ result' = "TimedOut"
                          ELSE pc' = "reap" /\ UNCHANGED result
  /\ UNCHANGED <<config, returned, now, opened, written, pipe, taken, reader, disk>>

(* Mutant: nobody waits for a simulator that was killed.                   *)
ReapForgotten ==
  /\ pc = "reap"
  /\ IF sim \in Threaded THEN Goto("join") ELSE Return("TimedOut")
  /\ UNCHANGED <<config, now, proc, pipe, taken, reader, disk>>

Reap ==
  /\ pc = "reap" /\ child = "zombie"
  /\ child' = "gone"
  /\ IF sim \in Threaded THEN Goto("join") ELSE Return("TimedOut")
  /\ UNCHANGED <<config, now, status, opened, written, pipe, taken, reader, disk>>

Join ==
  /\ pc = "join" /\ \A s \in Read : reader[s] = "eof"
  /\ Goto("logs")
  /\ UNCHANGED <<config, now, proc, pipe, taken, reader, disk>>

(* What was read from stdout and stderr is written to two files, one of    *)
(* which is parsed unless the simulator has a trace file of its own.       *)
Logged == IF sim \in OwnLog THEN disk
          ELSE [disk EXCEPT !["log"] = [origin |-> "this", size |-> taken["log"]]]

WriteLogs ==
  /\ pc = "logs"
  /\ disk' = Logged
  /\ IF timedOut THEN Return("TimedOut") ELSE Goto("status")
  /\ UNCHANGED <<config, now, proc, pipe, taken, reader>>

Accepted ==
  \/ status = "success" \/ sim \in StatusIgnored
  \/ sim \in Lenient /\ disk["log"].size > 0

CheckStatus ==
  /\ pc = "status"
  /\ IF Accepted THEN Goto("trace") ELSE Return("Failed")
  /\ UNCHANGED <<config, now, proc, pipe, taken, reader, disk>>

(* run_srv32 renames trace.log if there is no srv32.log.                   *)
Collected ==
  IF sim \in Lenient /\ disk["log"].origin = "absent"
  THEN [log |-> disk["trace"], trace |-> Absent] ELSE disk

(* The trace is read; Vex takes a missing one for an empty one.            *)
ReadTrace ==
  /\ pc = "trace"
  /\ disk' = Collected
  /\ LET file == disk'["log"] IN
     \/ file.origin = "absent" /\ sim # "vex" /\ Return("Io")
     \/ file.origin # "absent" /\ file.size = 0 /\ sim \in RejectEmpty /\ Return("Empty")
     \/ /\ file.origin # "absent" \/ sim = "vex"
        /\ file.size > 0 \/ sim \notin RejectEmpty
        /\ pc' = "done" /\ result' = "ok" /\ returned' = file
        /\ UNCHANGED timedOut
  /\ UNCHANGED <<config, now, proc, pipe, taken, reader>>

Executor ==
  \/ Prepare \/ Spawn \/ Poll \/ Sleep \/ Kill \/ Reap \/ Join \/ WriteLogs
  \/ CheckStatus \/ ReadTrace

(* Calls to the operating system that fail, each with a `?': the build, a  *)
(* file that cannot be created, spawn, try_wait, wait (not checked by the  *)
(* Deaf), a reader thread, writing the logs, renaming or parsing a trace.  *)
Fault ==
  /\ \/ pc \in {"prepare", "spawn", "poll", "join", "logs", "trace"}
     \/ pc = "reap" /\ sim \in Threaded
     \/ pc = "status" /\ sim \in Lenient
  /\ disk' \in IF pc = "prepare" THEN {disk, Prepared}
              ELSE IF pc = "logs" THEN {disk, Logged} ELSE {disk}
  /\ Return("Io")
  /\ UNCHANGED <<config, now, proc, pipe, taken, reader>>

Next == Executor \/ Child \/ (\E s \in Streams : Reader(s)) \/ Tick \/ Fault

(* The executor and its threads run, the clock goes on, and a simulator    *)
(* that is not blocked does what it has planned to.  Faults need not       *)
(* happen.                                                                 *)
Fairness ==
  /\ WF_vars(Executor) /\ WF_vars(Child) /\ WF_vars(Tick)
  /\ \A s \in Streams : WF_vars(Reader(s))

Spec     == Init /\ [][Next]_vars
FairSpec == Spec /\ Fairness

-----------------------------------------------------------------------------
(* Properties.                                                             *)

(* The variables have their types; a pipe holds no more than it can.       *)
TypeOK ==
  /\ config \in Configs
  /\ pc \in {"prepare", "spawn", "poll", "deadline", "reap", "join", "logs", "status",
            "trace", "done"}
  /\ result \in {"none", "ok", "TimedOut", "Failed", "Empty", "Io"}
  /\ returned \in FileType /\ timedOut \in BOOLEAN /\ opened \in BOOLEAN
  /\ now \in 0..MaxTime
  /\ child \in {"none", "running", "zombie", "gone"}
  /\ status \in {"none", "success", "failure", "killed"}
  /\ written \in [Streams -> Nat] /\ taken \in [Streams -> Nat]
  /\ pipe \in [Streams -> 0..PipeSize]
  /\ reader \in [Streams -> {"none", "reading", "eof"}]
  /\ disk \in [Names -> FileType]

(* A trace that was taken for an answer is all that the simulator wrote,   *)
(* by a simulator that has ended and was waited for: neither the reader    *)
(* threads nor the poll loop cut it short.                                 *)
WholeAnswer ==
  result = "ok" /\ returned.origin = "this" =>
     child = "gone" /\ returned.size = written["log"]

(* A trace of an earlier execution is taken for an answer only if the      *)
(* simulator has a trace file of its own which it did not get to create,   *)
(* and nobody removed the earlier one.  (Not so for the RTL simulator of   *)
(* srv32, which keeps it.)                                                 *)
FreshAnswer ==
  result = "ok" /\ returned.origin = "earlier" /\ sim # "srv32_cov" =>
     sim \in OwnLog /\ ~opened /\ (sim \in Removing => config.sticky)

(* The answer is the whole trace of this execution, or of an earlier one   *)
(* where that can happen.                                                  *)
WholeOwnAnswer == WholeAnswer /\ FreshAnswer

(* A simulator is killed only after its limit, one that was killed gives   *)
(* no answer, and an execution is timed out only for that.                 *)
TimedOutOnTime ==
  /\ result = "TimedOut" \/ status = "killed" => \E limit \in Limits : now >= limit
  /\ pc = "done" /\ (timedOut \/ status = "killed") => result \in {"TimedOut", "Io"}

(* An execution leaves no simulator running, and none to be waited for     *)
(* except that of a XiangShan that was killed, unless the operating system *)
(* refused a call.                                                         *)
NothingLeft ==
  pc = "done" /\ result # "Io" =>
     child = "gone" \/ (sim = "xiangshan" /\ result = "TimedOut" /\ child = "zombie")

(* Simulators are killed when it is time and are not left behind.          *)
KilledAndReaped == TimedOutOnTime /\ NothingLeft

(* An execution with a limit, set or by default, comes to an end, even of  *)
(* a simulator that hangs, or that is blocked by a pipe nobody reads.      *)
LimitedReturns == Limits # {} ~> result # "none"

(* So does one without a limit if the simulator ends by itself, however    *)
(* much it prints on both of its streams ("to avoid pipe backpressure      *)
(* hangs", impls/xiangshan/execute.rs:237).                                *)
UnlimitedReturns == Limits = {} /\ config.exit # "never" ~> result # "none"

(* Both, for the executions they are about.                                *)
Returns == LimitedReturns /\ UnlimitedReturns

(* No earlier trace can be taken for one of this execution.                *)
Trusted ==
  \/ sim \notin OwnLog
  \/ config.leftover = [n \in Names |-> Absent]
  \/ sim \in Removing /\ ~config.sticky

E == INSTANCE Execution WITH
       Verdicts <- {"TimedOut", "Failed", "Empty", "Io"}, trusted <- Trusted,
       produced <- written["log"], verdict <- result,
       answer   <- returned.size

(* The execution keeps what the abstract specification promises.           *)
ImplementsExecution == E!Spec
=============================================================================

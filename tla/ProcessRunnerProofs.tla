------------------------ MODULE ProcessRunnerProofs ------------------------
(***************************************************************************)
(* Theorems about ProcessRunner, for every simulator, every output, every  *)
(* pipe size and every time limit.                                         *)
(*                                                                         *)
(* The inductive invariant has four parts beside the types.  Stages says   *)
(* what the executor knows of the simulator where it stands; Flow that the *)
(* threads lose nothing of what goes through the pipes; Files whose trace  *)
(* the run directory holds; Answered what a trace that was returned is.    *)
(***************************************************************************)
EXTENDS ProcessRunner, TLAPS

Stages ==
  /\ result = "none" <=> pc # "done"
  /\ pc \in {"prepare", "spawn"} => child = "none"
  /\ pc \in {"poll", "deadline"} => child \in {"running", "zombie"}
  /\ pc = "reap" => child = "zombie" /\ timedOut
  /\ pc \in {"join", "logs", "status", "trace"} => child = "gone"
  /\ pc \in {"prepare", "spawn", "poll", "deadline", "status", "trace"} => ~timedOut
  /\ pc \in {"join", "logs"} => sim \in Threaded
  /\ status = "killed" => timedOut
  /\ timedOut => \E limit \in Limits : now >= limit
  /\ pc = "done" /\ timedOut => result \in {"TimedOut", "Io"}
  /\ result = "TimedOut" => timedOut

(* A stream that a thread reads is partly in the pipe, partly in the       *)
(* thread's buffer; the thread is done only when the pipe is empty and     *)
(* stays so.                                                               *)
Flow ==
  /\ child = "none" => \A s \in Streams : written[s] = 0 /\ reader[s] = "none"
  /\ \A s \in Read : written[s] = pipe[s] + taken[s]
  /\ \A s \in Streams : reader[s] = "eof" => pipe[s] = 0 /\ child \notin {"none", "running"}
  /\ pc \in {"logs", "status", "trace"} => \A s \in Read : reader[s] = "eof"

OldFiles == {Absent} \cup [origin : {"earlier"}, size : Nat]
Own      == [origin |-> "this", size |-> written["log"]]
Clean    == disk["log"] = Absent /\ disk["trace"] = Absent

(* What the run directory holds as long as the simulator has not created   *)
(* its own trace file.                                                     *)
Unopened ==
  /\ written["log"] = 0
  /\ disk \in [Names -> OldFiles]
  /\ config.leftover = [n \in Names |-> Absent] => Clean
  /\ pc # "prepare" /\ sim \in Removing /\ ~config.sticky => disk["log"] = Absent

Opened ==
  /\ disk[Target] = Own
  /\ sim = "srv32_cov" => /\ disk["log"] \in OldFiles
                          /\ config.leftover = [n \in Names |-> Absent] => disk["log"] = Absent

Files ==
  /\ child = "none" => ~opened
  /\ sim \in OwnLog /\ pc # "done" => IF opened THEN Opened ELSE Unopened
  /\ sim \in Redirected /\ pc \notin {"prepare", "done"} => disk["log"] = Own
  /\ sim \in Threaded \ OwnLog /\ pc \in {"status", "trace"} => disk["log"] = Own

Answered ==
  /\ result # "ok" => returned = Absent
  /\ result = "ok" =>
       /\ child = "gone"
       /\ \/ returned = Own
          \/ returned = Absent /\ written["log"] = 0
          \/ /\ returned.origin = "earlier" /\ sim \in OwnLog /\ ~Trusted
             /\ sim # "srv32_cov" => ~opened
             /\ sim \in Removing => config.sticky

(* An execution leaves no simulator behind.                                *)
IInv == TypeOK /\ Stages /\ Flow /\ Files /\ Answered /\ NothingLeft

-----------------------------------------------------------------------------
(* What the options are, and which simulators are of which kinds.          *)
LEMMA ConfigFacts ==
  ASSUME config \in Configs
  PROVE  /\ config \in ConfigType
         /\ sim \in Simulators
         /\ config.limit \subseteq Nat
         /\ config.output \in [Streams -> Nat]
         /\ config.leftover \in [Names -> OldFiles]
         /\ config.leftover \in [Names -> FileType]
         /\ config.opens \in BOOLEAN
         /\ config.sticky \in BOOLEAN
         /\ config.exit \in {"success", "failure", "never"}
<1>1. config \in ConfigType
  BY ConfigsAssumption
<1>2. {Absent} \cup [origin : {"earlier"}, size : Nat] \subseteq FileType
  BY DEF Absent, FileType, Origins
<1>3. config.leftover \in [Names -> FileType]
  BY <1>1, <1>2 DEF ConfigType
<1> QED
  BY <1>1, <1>3 DEF ConfigType, sim, OldFiles

LEMMA Kinds ==
  ASSUME sim \in Simulators
  PROVE  /\ sim \in Threaded \/ sim \in Redirected \/ sim \in OwnLog
         /\ sim \in Redirected => sim \notin Threaded /\ sim \notin OwnLog
         /\ sim \in Deaf => sim \notin Threaded
         /\ sim \in Lenient => sim \in OwnLog /\ sim \notin Threaded /\ sim \notin Removing
         /\ sim \in Removing => sim \in OwnLog
         /\ sim = "srv32_cov" => sim \in Lenient
         /\ sim = "vex" => sim \in OwnLog /\ sim \notin Lenient
         /\ sim = "xiangshan" => sim \notin Threaded /\ sim \in Redirected
<1>1. Simulators = {"rocket", "boom", "spike", "picorv32", "cva6", "cva6_00", "xiangshan",
                    "kronos", "ibex", "vex", "srv32", "srv32_cov"}
  BY DEF Simulators, Runs
<1> DEFINE Table(s, what) ==
         \/ s \in {"rocket", "boom", "picorv32"} /\ what \in {"threads", "any status", "not empty"}
         \/ s = "spike" /\ what \in {"threads", "any status"}
         \/ s = "cva6" /\ what \in {"threads", "own log", "removes"}
         \/ s = "cva6_00" /\ what \in {"threads", "own log"}
         \/ s = "xiangshan" /\ what \in {"redirected", "any status", "not empty"}
         \/ s = "kronos" /\ what \in {"redirected", "deaf"}
         \/ s \in {"ibex", "vex"} /\ what \in {"own log", "deaf", "removes"}
         \/ s \in {"srv32", "srv32_cov"} /\ what \in {"own log", "deaf", "log suffices"}
<1>2. \A what : \A s \in Simulators : what \in Runs[s] <=> Table(s, what)
  <2> SUFFICES ASSUME NEW what, NEW s \in Simulators
               PROVE  what \in Runs[s] <=> Table(s, what)
    OBVIOUS
  <2>1. CASE s = "rocket"
    BY <2>1 DEF Runs, RunRocket
  <2>2. CASE s = "boom"
    BY <2>2 DEF Runs, RunBoom
  <2>3. CASE s = "spike"
    BY <2>3 DEF Runs, RunSpike
  <2>4. CASE s = "picorv32"
    BY <2>4 DEF Runs, RunPico
  <2>5. CASE s = "cva6"
    BY <2>5 DEF Runs, InvokeCva6
  <2>6. CASE s = "cva6_00"
    BY <2>6 DEF Runs, InvokeCva6
  <2>7. CASE s = "xiangshan"
    BY <2>7 DEF Runs, RunXiangShan
  <2>8. CASE s = "kronos"
    BY <2>8 DEF Runs, RunKronos
  <2>9. CASE s = "ibex"
    BY <2>9 DEF Runs, RunIbex
  <2>10. CASE s = "vex"
    BY <2>10 DEF Runs, RunVex
  <2>11. CASE s = "srv32"
    BY <2>11 DEF Runs, RunSrv32
  <2>12. CASE s = "srv32_cov"
    BY <2>12 DEF Runs, RunSrv32
  <2> QED
    BY <1>1, <2>1, <2>2, <2>3, <2>4, <2>5, <2>6, <2>7, <2>8, <2>9, <2>10, <2>11, <2>12
<1>3. \A what : With(what) = {s \in Simulators : Table(s, what)}
  BY <1>2 DEF With
<1> QED
  BY <1>1, <1>3 DEF Threaded, Redirected, OwnLog, Deaf, Removing, Lenient

-----------------------------------------------------------------------------
(* Types.                                                                  *)
LEMMA TypeInit == Init => TypeOK
<1> SUFFICES ASSUME Init PROVE TypeOK
  OBVIOUS
<1>1. config \in Configs /\ disk \in [Names -> FileType]
  BY ConfigFacts DEF Init
<1>2. Absent \in FileType
  BY DEF Absent, FileType, Origins
<1>3. now \in 0..MaxTime /\ 0 \in 0..PipeSize
  BY PipeAssumption, TimeAssumption DEF Init
<1> QED
  BY <1>1, <1>2, <1>3 DEF Init, TypeOK

LEMMA PreparedType == ASSUME TypeOK PROVE Prepared \in [Names -> FileType]
<1>1. Absent \in FileType /\ Created \in FileType
  BY DEF Absent, Created, FileType, Origins
<1> QED
  BY <1>1 DEF TypeOK, Prepared, Names

LEMMA LoggedType == ASSUME TypeOK PROVE Logged \in [Names -> FileType]
<1>1. [origin |-> "this", size |-> taken["log"]] \in FileType
  BY DEF TypeOK, FileType, Origins, Streams
<1> QED
  BY <1>1 DEF TypeOK, Logged, Names

LEMMA CollectedType == ASSUME TypeOK PROVE Collected \in [Names -> FileType]
<1>1. Absent \in FileType
  BY DEF Absent, FileType, Origins
<1>2. disk["trace"] \in FileType
  BY DEF TypeOK, Names
<1>3. [log |-> disk["trace"], trace |-> Absent] \in [Names -> FileType]
  BY <1>1, <1>2 DEF Names
<1> QED
  BY <1>3 DEF TypeOK, Collected

LEMMA TypeStep == TypeOK /\ [Next]_vars => TypeOK'
<1> SUFFICES ASSUME TypeOK, [Next]_vars PROVE TypeOK'
  OBVIOUS
<1> USE PipeAssumption, TimeAssumption
<1>1. CASE Prepare
  BY <1>1, PreparedType DEF TypeOK, Prepare, Goto, proc
<1>2. CASE Spawn
  BY <1>2 DEF TypeOK, Spawn, Goto
<1>3. CASE Poll
  BY <1>3 DEF TypeOK, Poll, Goto
<1>4. CASE Sleep
  BY <1>4 DEF TypeOK, Sleep, Goto, proc
<1>5. CASE Kill
  BY <1>5 DEF TypeOK, Kill
<1>6. CASE Reap
  BY <1>6 DEF TypeOK, Reap, Goto, Return
<1>7. CASE Join
  BY <1>7 DEF TypeOK, Join, Goto, proc
<1>8. CASE WriteLogs
  BY <1>8, LoggedType DEF TypeOK, WriteLogs, Goto, Return, proc
<1>9. CASE CheckStatus
  BY <1>9 DEF TypeOK, CheckStatus, Goto, Return, proc
<1>10. CASE ReadTrace
  <2>1. disk' \in [Names -> FileType] /\ disk'["log"] \in FileType
    BY <1>10, CollectedType DEF ReadTrace, Names
  <2> QED
    BY <1>10, <2>1 DEF TypeOK, ReadTrace, Return, proc
<1>11. CASE ChildOpens
  <2>1. Created \in FileType
    BY DEF Created, FileType, Origins
  <2> QED
    BY <1>11, <2>1 DEF TypeOK, ChildOpens, exec
<1>12. ASSUME NEW s \in Streams, ChildWrites(s) PROVE TypeOK'
  <2>1. disk' \in [Names -> FileType]
    <3>1. Target \in Names /\ disk[Target] \in FileType
      BY DEF TypeOK, Target, Names
    <3>2. Longer(disk[Target]) \in FileType
      BY <3>1 DEF Longer, FileType
    <3> QED
      BY <1>12, <3>1, <3>2 DEF TypeOK, ChildWrites
  <2>2. pipe' \in [Streams -> 0..PipeSize]
    BY <1>12 DEF TypeOK, ChildWrites
  <2>3. written' \in [Streams -> Nat]
    BY <1>12 DEF TypeOK, ChildWrites
  <2>4. UNCHANGED <<config, exec, now, child, status, opened, taken, reader>>
    BY <1>12 DEF ChildWrites
  <2> QED
    BY <2>1, <2>2, <2>3, <2>4 DEF TypeOK, exec
<1>13. CASE ChildExits
  <2>1. config.exit \in {"success", "failure"}
    BY <1>13, ConfigFacts DEF TypeOK, ChildExits
  <2> QED
    BY <1>13, <2>1 DEF TypeOK, ChildExits, exec
<1>14. ASSUME NEW s \in Streams, Reader(s) PROVE TypeOK'
  BY <1>14 DEF TypeOK, Reader, exec, proc
<1>15. CASE Tick
  BY <1>15 DEF TypeOK, Tick, exec, proc
<1>16. CASE Fault
  <2>1. disk' \in [Names -> FileType]
    BY <1>16, PreparedType, LoggedType DEF TypeOK, Fault
  <2> QED
    BY <1>16, <2>1 DEF TypeOK, Fault, Return, proc
<1>17. CASE UNCHANGED vars
  BY <1>17 DEF TypeOK, vars, exec, proc
<1> QED
  BY <1>1, <1>2, <1>3, <1>4, <1>5, <1>6, <1>7, <1>8, <1>9, <1>10, <1>11, <1>12, <1>13,
     <1>14, <1>15, <1>16, <1>17 DEF Next, Executor, Child

(* Every variable of the executor, of the simulator and of its pipes has   *)
(* its type.                                                               *)
THEOREM TypeCorrect == Spec => []TypeOK
BY TypeInit, TypeStep, PTL DEF Spec

-----------------------------------------------------------------------------
(* No step changes the options.                                            *)
LEMMA ConfigStep ==
  ASSUME [Next]_vars
  PROVE  config' = config /\ sim' = sim /\ Limits' = Limits /\ Read' = Read
<1>1. config' = config
  BY DEF Next, Executor, Child, vars, Prepare, Spawn, Poll, Sleep, Kill, Reap, Join,
         WriteLogs, CheckStatus, ReadTrace, ChildOpens, ChildWrites, ChildExits, Reader,
         Tick, Fault
<1> QED
  BY <1>1 DEF sim, Limits, Read, Piped

(* The limits are numbers, and the clock does not go back.                 *)
LEMMA ClockStep ==
  ASSUME TypeOK, [Next]_vars, \E limit \in Limits : now >= limit
  PROVE  (\E limit \in Limits : now >= limit)'
<1>1. PICK limit \in Limits : now >= limit
  OBVIOUS
<1>2. limit \in Nat /\ now \in Nat
  BY <1>1, ConfigFacts, TimeAssumption DEF TypeOK, Limits
<1>3. now' = now \/ now' = now + 1
  BY DEF Next, Executor, Child, vars, Prepare, Spawn, Poll, Sleep, Kill, Reap, Join,
         WriteLogs, CheckStatus, ReadTrace, ChildOpens, ChildWrites, ChildExits, Reader,
         Tick, Fault
<1>4. now' >= limit
  BY <1>1, <1>2, <1>3
<1> QED
  BY <1>1, <1>4, ConfigStep

LEMMA ExpiredLimit ==
  ASSUME TypeOK, Expired
  PROVE  \E limit \in Limits : now >= limit
<1>1. PICK limit \in Limits : IF sim \in Deaf THEN now > limit ELSE now >= limit
  BY DEF Expired
<1>2. limit \in Nat /\ now \in Nat
  BY <1>1, ConfigFacts, TimeAssumption DEF TypeOK, Limits
<1> QED
  BY <1>1, <1>2

LEMMA StagesStep == TypeOK /\ Stages /\ [Next]_vars => Stages'
<1> SUFFICES ASSUME TypeOK, Stages, [Next]_vars PROVE Stages'
  OBVIOUS
<1> DEFINE Late == \E limit \in Limits : now >= limit
<1>0. sim' = sim /\ (Late => Late') /\ (timedOut => Late)
  BY ConfigStep, ClockStep DEF Stages
<1>1. Expired => Late
  BY ExpiredLimit
<1>2. sim \in Simulators /\ (sim \in Threaded => sim # "xiangshan")
  BY ConfigFacts, Kinds DEF TypeOK
<1> HIDE DEF Late
<1>3. (timedOut' => Late') => Stages'
  <2> SUFFICES ASSUME timedOut' => Late' PROVE Stages'
    OBVIOUS
  <2>0. timedOut' => (\E limit \in Limits : now >= limit)'
    BY DEF Late
  <2>1. CASE Prepare
    BY <1>0, <2>0, <2>1 DEF Stages, Prepare, Goto, proc
  <2>2. CASE Spawn
    BY <1>0, <2>0, <2>2 DEF Stages, Spawn, Goto, TypeOK
  <2>3. CASE Poll
    BY <1>0, <2>0, <2>3 DEF Stages, Poll, Goto
  <2>4. CASE Sleep
    BY <1>0, <2>0, <2>4 DEF Stages, Sleep, Goto, proc
  <2>5. CASE Kill
    BY <1>0, <2>0, <2>5 DEF Stages, Kill
  <2>6. CASE Reap
    BY <1>0, <2>0, <2>6 DEF Stages, Reap, Goto, Return
  <2>7. CASE Join
    BY <1>0, <2>0, <2>7 DEF Stages, Join, Goto, proc
  <2>8. CASE WriteLogs
    BY <1>0, <2>0, <2>8 DEF Stages, WriteLogs, Goto, Return, proc
  <2>9. CASE CheckStatus
    BY <1>0, <2>0, <2>9 DEF Stages, CheckStatus, Goto, Return, proc
  <2>10. CASE ReadTrace
    BY <1>0, <2>0, <2>10 DEF Stages, ReadTrace, Return, proc
  <2>11. CASE ChildOpens
    BY <1>0, <2>0, <2>11 DEF Stages, ChildOpens, exec
  <2>12. ASSUME NEW s \in Streams, ChildWrites(s) PROVE Stages'
    BY <1>0, <2>0, <2>12 DEF Stages, ChildWrites, exec
  <2>13. CASE ChildExits
    <3>1. config.exit \in {"success", "failure"}
      BY <2>13, ConfigFacts DEF TypeOK, ChildExits
    <3> QED
      BY <1>0, <2>0, <2>13, <3>1 DEF Stages, ChildExits, exec
  <2>14. ASSUME NEW s \in Streams, Reader(s) PROVE Stages'
    BY <1>0, <2>0, <2>14 DEF Stages, Reader, exec, proc
  <2>15. CASE Tick
    BY <1>0, <2>0, <2>15 DEF Stages, Tick, exec, proc
  <2>16. CASE Fault
    BY <1>0, <2>0, <2>16 DEF Stages, Fault, Return, proc
  <2>17. CASE UNCHANGED vars
    BY <1>0, <2>0, <2>17 DEF Stages, vars, exec, proc
  <2> QED
    BY <2>1, <2>2, <2>3, <2>4, <2>5, <2>6, <2>7, <2>8, <2>9, <2>10, <2>11, <2>12, <2>13,
       <2>14, <2>15, <2>16, <2>17 DEF Next, Executor, Child
<1>4. timedOut' => timedOut \/ Expired
  BY DEF Next, Executor, Child, vars, exec, Goto, Return, Prepare, Spawn, Poll, Sleep, Kill,
         Reap, Join, WriteLogs, CheckStatus, ReadTrace, ChildOpens, ChildWrites, ChildExits,
         Reader, Tick, Fault
<1> QED
  BY <1>0, <1>1, <1>3, <1>4

(* The bytes of a stream are in its pipe or with its thread.               *)
LEMMA FlowStep == TypeOK /\ Stages /\ Flow /\ [Next]_vars => Flow'
<1> SUFFICES ASSUME TypeOK, Stages, Flow, [Next]_vars PROVE Flow'
  OBVIOUS
<1>0. sim' = sim /\ Read' = Read /\ Read \subseteq Streams /\ (Read = {} \/ sim \in Threaded)
  BY ConfigStep DEF Read, Piped
<1>1. Read \subseteq Piped /\ (sim \in Threaded => Read = Piped)
  BY DEF Read
<1> USE DEF Stages, Flow
<1>2. CASE Prepare
  BY <1>0, <1>2 DEF Prepare, Goto, proc
<1>3. CASE Spawn
  BY <1>0, <1>3 DEF Spawn, Goto
<1>4. CASE Poll
  BY <1>0, <1>4 DEF Poll, Goto
<1>5. CASE Sleep
  BY <1>0, <1>5 DEF Sleep, Goto, proc
<1>6. CASE Kill
  BY <1>0, <1>6 DEF Kill
<1>7. CASE Reap
  BY <1>0, <1>7 DEF Reap, Goto, Return
<1>8. CASE Join
  BY <1>0, <1>8 DEF Join, Goto, proc
<1>9. CASE WriteLogs
  BY <1>0, <1>9 DEF WriteLogs, Goto, Return, proc
<1>10. CASE CheckStatus
  BY <1>0, <1>10 DEF CheckStatus, Goto, Return, proc
<1>11. CASE ReadTrace
  BY <1>0, <1>11 DEF ReadTrace, Return, proc
<1>12. CASE ChildOpens
  BY <1>0, <1>12 DEF ChildOpens, exec
<1>13. ASSUME NEW s \in Streams, ChildWrites(s) PROVE Flow'
  BY <1>0, <1>1, <1>13 DEF ChildWrites, exec, TypeOK
<1>14. CASE ChildExits
  BY <1>0, <1>14 DEF ChildExits, exec
<1>15. ASSUME NEW s \in Streams, Reader(s) PROVE Flow'
  BY <1>0, <1>15 DEF Reader, exec, proc, TypeOK
<1>16. CASE Tick
  BY <1>0, <1>16 DEF Tick, exec, proc
<1>17. CASE Fault
  BY <1>0, <1>17 DEF Fault, Return, proc
<1>18. CASE UNCHANGED vars
  BY <1>0, <1>18 DEF vars, exec, proc
<1> QED
  BY <1>2, <1>3, <1>4, <1>5, <1>6, <1>7, <1>8, <1>9, <1>10, <1>11, <1>12, <1>13,
     <1>14, <1>15, <1>16, <1>17, <1>18 DEF Next, Executor, Child

(* Nothing is left when the executor returns.                              *)
LEMMA NothingLeftStep == TypeOK /\ Stages /\ NothingLeft /\ [Next]_vars => NothingLeft'
<1> SUFFICES ASSUME TypeOK, Stages, NothingLeft, [Next]_vars PROVE NothingLeft'
  OBVIOUS
<1>0. sim' = sim /\ (sim \in Threaded => sim # "xiangshan")
  BY ConfigStep, ConfigFacts, Kinds DEF TypeOK
<1> QED
  BY <1>0 DEF Stages, NothingLeft, Next, Executor, Child, vars, exec, proc, Goto, Return,
         Prepare, Spawn, Poll, Sleep, Kill, Reap, Join, WriteLogs, CheckStatus, ReadTrace,
         ChildOpens, ChildWrites, ChildExits, Reader, Tick, Fault

(* Where a trace goes: what is in the pipe's buffer when the threads have  *)
(* ended is all that was written.                                          *)
LEMMA LoggedIsOwn ==
  ASSUME TypeOK, Flow, pc = "logs", sim \in Threaded \ OwnLog
  PROVE  Logged["log"] = Own
<1>1. "log" \in Read /\ "log" \in Streams /\ "log" \in Names
  BY DEF Read, Piped, Streams, Names
<1>2. pipe["log"] = 0 /\ written["log"] = pipe["log"] + taken["log"]
  BY <1>1 DEF Flow
<1>3. written["log"] = taken["log"]
  BY <1>1, <1>2 DEF TypeOK
<1> QED
  BY <1>1, <1>3 DEF Logged, Own, TypeOK

LEMMA PreparedFiles ==
  ASSUME TypeOK, Files, pc = "prepare", child = "none"
  PROVE  /\ sim \in Redirected => Prepared["log"] = Created
         /\ sim \in OwnLog =>
              /\ Prepared \in [Names -> OldFiles]
              /\ config.leftover = [n \in Names |-> Absent] =>
                   Prepared["log"] = Absent /\ Prepared["trace"] = Absent
              /\ sim \in Removing /\ ~config.sticky => Prepared["log"] = Absent
<1>1. sim \in Simulators /\ "log" \in Names /\ "trace" \in Names /\ Absent \in OldFiles
  BY ConfigFacts DEF TypeOK, Names, OldFiles
<1>2. sim \in Redirected => Prepared["log"] = Created
  BY <1>1 DEF Prepared, TypeOK
<1>3. ASSUME sim \in OwnLog
      PROVE  /\ Prepared \in [Names -> OldFiles]
             /\ config.leftover = [n \in Names |-> Absent] =>
                  Prepared["log"] = Absent /\ Prepared["trace"] = Absent
             /\ sim \in Removing /\ ~config.sticky => Prepared["log"] = Absent
  <2>1. sim \notin Redirected /\ disk \in [Names -> OldFiles]
    BY <1>1, <1>3, Kinds DEF Files, Unopened
  <2> QED
    BY <1>1, <1>3, <2>1 DEF Prepared, Files, Unopened, Clean
<1> QED
  BY <1>2, <1>3

LEMMA FilesStep == TypeOK /\ Stages /\ Flow /\ Files /\ [Next]_vars => Files'
<1> SUFFICES ASSUME TypeOK, Stages, Flow, Files, [Next]_vars PROVE Files'
  OBVIOUS
<1>0. sim' = sim /\ config' = config /\ Target' = Target
  BY ConfigStep DEF Target
<1>1. /\ "log" \in Names /\ "trace" \in Names /\ "log" \in Streams /\ Target \in Names
      /\ sim \in Simulators
  BY ConfigFacts DEF Names, Streams, TypeOK, Target
<1>2. ASSUME UNCHANGED <<child, opened, written, disk>>,
             \/ pc' = pc \/ pc' = "done"
             \/ pc \notin {"prepare", "done"} /\ pc' \notin {"prepare", "status", "trace"}
             \/ pc = "status" /\ pc' = "trace"
      PROVE  Files'
  <2>1. Own' = Own
    BY <1>2 DEF Own
  <2>2. (Opened' <=> Opened) /\ (pc # "prepare" => (Unopened' <=> Unopened))
        /\ (pc' = pc => (Unopened' <=> Unopened))
    BY <1>0, <1>2, <2>1 DEF Opened, Unopened, Clean
  <2> QED
    BY <1>0, <1>2, <2>1, <2>2 DEF Files
<1>3. CASE Prepare
  <2>1. ~opened /\ written["log"] = 0 /\ UNCHANGED <<child, opened, written>>
    BY <1>1, <1>3 DEF Prepare, proc, Stages, Flow, Files
  <2>2. Own' = Created
    BY <2>1 DEF Own, Created
  <2>3. sim \in OwnLog => Unopened'
    BY <1>0, <1>3, <2>1, PreparedFiles DEF Prepare, Goto, Unopened, Clean, Stages
  <2> QED
    BY <1>0, <1>1, <1>3, <2>1, <2>2, <2>3, PreparedFiles, Kinds DEF Prepare, Goto, Files, Stages
<1>4. CASE Spawn
  <2>1. UNCHANGED <<opened, written, disk>> /\ pc = "spawn" /\ pc' = "poll" /\ child = "none"
    BY <1>4 DEF Spawn, Goto, Stages
  <2>2. Own' = Own /\ (sim \in OwnLog => ~opened /\ Unopened')
    BY <1>0, <2>1 DEF Own, Files, Unopened, Clean
  <2> QED
    BY <1>0, <2>1, <2>2 DEF Files
<1>5. CASE Poll
  <2>1. /\ UNCHANGED <<opened, written, disk>> /\ pc = "poll" /\ child # "none" /\ child' # "none"
        /\ pc' \in {"deadline", "join", "status"} /\ (pc' = "status" => sim \notin Threaded)
    BY <1>5 DEF Poll, Goto, Stages
  <2>2. Own' = Own /\ (Opened' <=> Opened) /\ (Unopened' <=> Unopened)
    BY <1>0, <2>1 DEF Own, Opened, Unopened, Clean
  <2> QED
    BY <1>0, <2>1, <2>2 DEF Files
<1>6. CASE Sleep
  BY <1>2, <1>6 DEF Sleep, Goto, proc
<1>7. CASE Kill
  <2>1. /\ UNCHANGED <<opened, written, disk>> /\ pc = "deadline" /\ child # "none" /\ child' # "none"
        /\ pc' \in {"done", "reap"}
    BY <1>7 DEF Kill, Stages
  <2>2. Own' = Own /\ (Opened' <=> Opened) /\ (Unopened' <=> Unopened)
    BY <1>0, <2>1 DEF Own, Opened, Unopened, Clean
  <2> QED
    BY <1>0, <2>1, <2>2 DEF Files
<1>8. CASE Reap
  <2>1. /\ UNCHANGED <<opened, written, disk>> /\ pc = "reap" /\ child # "none" /\ child' # "none"
        /\ pc' \in {"done", "join"}
    BY <1>8 DEF Reap, Goto, Return, Stages
  <2>2. Own' = Own /\ (Opened' <=> Opened) /\ (Unopened' <=> Unopened)
    BY <1>0, <2>1 DEF Own, Opened, Unopened, Clean
  <2> QED
    BY <1>0, <2>1, <2>2 DEF Files
<1>9. CASE Join
  BY <1>2, <1>9 DEF Join, Goto, proc
<1>10. CASE WriteLogs
  <2>1. UNCHANGED <<child, opened, written>> /\ pc = "logs" /\ disk' = Logged /\ sim \in Threaded
    BY <1>10 DEF WriteLogs, proc, Stages
  <2>2. Own' = Own /\ sim \notin Redirected
    BY <1>1, <2>1, Kinds DEF Own
  <2>3. CASE sim \in OwnLog
    <3>1. disk' = disk /\ pc' \in {"done", "status"}
      BY <1>10, <2>1, <2>3 DEF Logged, WriteLogs, Goto, Return
    <3>2. (Opened' <=> Opened) /\ (Unopened' <=> Unopened)
      BY <1>0, <2>1, <2>2, <3>1 DEF Opened, Unopened, Clean
    <3> QED
      BY <1>0, <2>1, <2>2, <2>3, <3>1, <3>2 DEF Files
  <2>4. CASE sim \notin OwnLog
    BY <1>0, <2>1, <2>2, <2>4, LoggedIsOwn DEF Files
  <2> QED
    BY <2>3, <2>4
<1>11. CASE CheckStatus
  BY <1>2, <1>11 DEF CheckStatus, Goto, Return, proc
<1>12. CASE ReadTrace
  BY <1>0, <1>12 DEF ReadTrace, Return, proc, Files, Stages
<1>13. CASE ChildOpens
  <2>1. /\ UNCHANGED <<pc, child, written>> /\ opened' /\ child = "running" /\ sim \in OwnLog
        /\ ~opened /\ disk' = [disk EXCEPT ![Target] = Created]
    BY <1>13 DEF ChildOpens, exec, TypeOK
  <2>2. pc \notin {"prepare", "done"} => Opened'
    <3> SUFFICES ASSUME pc \notin {"prepare", "done"} PROVE Opened'
      OBVIOUS
    <3>1. Unopened
      BY <2>1 DEF Files
    <3>2. Own' = Created /\ disk'[Target] = Created
      BY <1>1, <2>1, <3>1 DEF Unopened, Own, Created, TypeOK
    <3>3. sim = "srv32_cov" => disk'["log"] = disk["log"] /\ disk["log"] \in OldFiles
      BY <1>1, <2>1, <3>1 DEF Unopened, Target, TypeOK
    <3> QED
      BY <1>0, <3>1, <3>2, <3>3 DEF Opened, Unopened, Clean
  <2> QED
    BY <1>0, <1>1, <2>1, <2>2, Kinds DEF Files, Stages
<1>14. ASSUME NEW s \in Streams, ChildWrites(s) PROVE Files'
  <2>1. /\ UNCHANGED <<pc, child, opened>> /\ child = "running"
        /\ written' = [written EXCEPT ![s] = @ + 1]
        /\ s = "log" /\ sim \in OwnLog => opened
    BY <1>14 DEF ChildWrites, exec
  <2>2. pc \notin {"prepare", "status", "trace"}
    BY <2>1 DEF Stages
  <2>3. CASE s = "side"
    <3>1. disk' = disk /\ written'["log"] = written["log"]
      BY <1>1, <1>14, <2>1, <2>3 DEF ChildWrites, TypeOK
    <3>2. Own' = Own /\ (Opened' <=> Opened) /\ (Unopened' <=> Unopened)
      BY <1>0, <2>1, <3>1 DEF Own, Opened, Unopened, Clean
    <3> QED
      BY <1>0, <2>1, <2>2, <3>1, <3>2 DEF Files
  <2>4. CASE s = "log"
    <3>1. written'["log"] = written["log"] + 1
      BY <1>1, <2>1, <2>4 DEF TypeOK
    <3>2. Own' = Longer(Own)
      BY <3>1 DEF Own, Longer
    <3>3. CASE sim \in OwnLog \cup Redirected
      <4>1. s \notin Piped
        BY <1>1, <2>4, <3>3, Kinds DEF Piped
      <4>2. disk' = [disk EXCEPT ![Target] = Longer(disk[Target])]
        BY <1>14, <2>4, <4>1 DEF ChildWrites
      <4>3. disk'[Target] = Longer(disk[Target]) /\ (Target # "log" => disk'["log"] = disk["log"])
        BY <1>1, <4>2 DEF TypeOK
      <4>4. sim \in Redirected => Target = "log" /\ sim \notin OwnLog
        BY <1>1, Kinds DEF Target
      <4>5. sim = "srv32_cov" => Target # "log"
        BY DEF Target
      <4>6. CASE sim \in OwnLog
        <5>1. opened /\ opened' /\ (pc # "done" => Opened)
          BY <2>1, <2>4, <4>6 DEF Files
        <5>2. pc # "done" => Opened'
          BY <1>0, <3>2, <4>3, <4>5, <5>1 DEF Opened
        <5> QED
          BY <1>0, <1>1, <2>1, <2>2, <4>6, <5>1, <5>2, Kinds DEF Files
      <4>7. CASE sim \in Redirected
        BY <1>0, <1>1, <2>1, <2>2, <3>2, <4>3, <4>4, <4>7, Kinds DEF Files
      <4> QED
        BY <3>3, <4>6, <4>7
    <3>4. CASE sim \in Threaded \ OwnLog
      BY <1>0, <1>1, <2>1, <2>2, <3>4, Kinds DEF Files
    <3> QED
      BY <1>1, <3>3, <3>4, Kinds
  <2> QED
    BY <2>3, <2>4 DEF Streams
<1>15. CASE ChildExits
  <2>1. UNCHANGED <<pc, opened, written, disk>> /\ child = "running" /\ child' = "zombie"
    BY <1>15 DEF ChildExits, exec
  <2>2. Own' = Own /\ (Opened' <=> Opened) /\ (Unopened' <=> Unopened)
    BY <1>0, <2>1 DEF Own, Opened, Unopened, Clean
  <2> QED
    BY <1>0, <2>1, <2>2 DEF Files
<1>16. ASSUME NEW s \in Streams, Reader(s) PROVE Files'
  BY <1>2, <1>16 DEF Reader, exec, proc
<1>17. CASE Tick
  BY <1>2, <1>17 DEF Tick, exec, proc
<1>18. CASE Fault
  BY <1>0, <1>18 DEF Fault, Return, proc, Files, Stages
<1>19. CASE UNCHANGED vars
  BY <1>2, <1>19 DEF vars, exec, proc
<1> QED
  BY <1>3, <1>4, <1>5, <1>6, <1>7, <1>8, <1>9, <1>10, <1>11, <1>12, <1>13,
     <1>14, <1>15, <1>16, <1>17, <1>18, <1>19 DEF Next, Executor, Child

(* What a trace that is read can be.                                       *)
LEMMA CollectedIs ==
  ASSUME TypeOK, Stages, Files, pc = "trace"
  PROVE  \/ Collected["log"] = Own
         \/ Collected["log"] = Absent /\ written["log"] = 0
         \/ /\ Collected["log"].origin = "earlier" /\ sim \in OwnLog /\ ~Trusted
            /\ sim # "srv32_cov" => ~opened
            /\ sim \in Removing => config.sticky
<1>1. /\ sim \in Simulators /\ "log" \in Names /\ "trace" \in Names /\ Absent.origin = "absent"
      /\ Own.origin = "this" /\ config.sticky \in BOOLEAN
  BY ConfigFacts DEF TypeOK, Names, Absent, Own
<1>2. CASE sim \notin OwnLog
  <2>1. Collected = disk /\ disk["log"] = Own
    BY <1>1, <1>2, Kinds DEF Collected, Files
  <2> QED
    BY <2>1
<1>3. CASE sim \in OwnLog /\ ~opened
  <2>1. Unopened
    BY <1>3 DEF Files
  <2>2. /\ Collected["log"] \in OldFiles
        /\ config.leftover = [n \in Names |-> Absent] => Collected["log"] = Absent
        /\ sim \in Removing /\ ~config.sticky => Collected["log"] = Absent
    <3>1. disk["log"] \in OldFiles /\ disk["trace"] \in OldFiles
      BY <1>1, <2>1 DEF Unopened
    <3>2. sim \in Removing => sim \notin Lenient
      BY <1>1, Kinds
    <3>3. \/ Collected["log"] = disk["log"]
          \/ Collected["log"] = disk["trace"] /\ sim \in Lenient
      BY DEF Collected
    <3> QED
      BY <2>1, <3>1, <3>2, <3>3 DEF Unopened, Clean, Stages
  <2>3. Collected["log"] = Absent \/ Collected["log"].origin = "earlier"
    BY <2>2 DEF OldFiles
  <2>4. CASE Collected["log"] = Absent
    BY <2>1, <2>4 DEF Unopened
  <2>5. CASE Collected["log"].origin = "earlier"
    <3>1. Collected["log"] # Absent
      BY <1>1, <2>5
    <3> QED
      BY <1>1, <1>3, <2>2, <2>5, <3>1 DEF Trusted
  <2> QED
    BY <2>3, <2>4, <2>5
<1>4. CASE sim \in OwnLog /\ opened
  <2>1. Opened
    BY <1>4 DEF Files
  <2>2. CASE sim # "srv32_cov"
    <3>1. disk["log"] = Own /\ Collected = disk
      BY <1>1, <2>1, <2>2 DEF Opened, Target, Collected
    <3> QED
      BY <3>1
  <2>3. CASE sim = "srv32_cov"
    <3>1. sim \in Lenient /\ sim \notin Removing
      BY <1>1, <2>3, Kinds
    <3>2. disk["trace"] = Own
      BY <2>1, <2>3 DEF Opened, Target
    <3>3. CASE disk["log"] = Absent
      BY <1>1, <3>1, <3>2, <3>3 DEF Collected
    <3>4. CASE disk["log"] # Absent
      <4>1. disk["log"].origin = "earlier"
        BY <2>1, <2>3, <3>4 DEF Opened, OldFiles
      <4>2. Collected = disk /\ ~Trusted
        BY <1>3, <1>4, <2>1, <2>3, <3>1, <3>4, <4>1 DEF Collected, Trusted, Opened
      <4> QED
        BY <1>4, <2>3, <3>1, <4>1, <4>2
    <3> QED
      BY <3>3, <3>4
  <2> QED
    BY <2>2, <2>3
<1> QED
  BY <1>2, <1>3, <1>4 DEF TypeOK

LEMMA AnsweredStep == TypeOK /\ Stages /\ Flow /\ Files /\ Answered /\ [Next]_vars => Answered'
<1> SUFFICES ASSUME TypeOK, Stages, Flow, Files, Answered, [Next]_vars PROVE Answered'
  OBVIOUS
<1>0. sim' = sim /\ config' = config /\ Trusted' = Trusted
  BY ConfigStep DEF Trusted
<1>1. CASE ReadTrace
  <2>1. UNCHANGED <<child, opened, written>> /\ child = "gone" /\ pc = "trace"
    BY <1>1 DEF ReadTrace, Stages, proc
  <2>2. CASE result' = "ok"
    <3>1. returned' = Collected["log"] /\ Own' = Own
      BY <1>1, <2>1, <2>2 DEF ReadTrace, Return, Own
    <3> QED
      BY <1>0, <2>1, <2>2, <3>1, CollectedIs DEF Answered
  <2>3. CASE result' # "ok"
    BY <1>1, <2>1, <2>3 DEF ReadTrace, Return, Answered, Stages
  <2> QED
    BY <2>2, <2>3
<1>2. CASE ~ReadTrace
  <2>1. returned' = returned /\ (result' = result \/ (result = "none" /\ result' # "ok"))
    BY <1>2 DEF Next, Executor, Child, vars, exec, Goto, Return, Prepare, Spawn, Poll, Sleep,
         Kill, Reap, Join, WriteLogs, CheckStatus, ChildOpens, ChildWrites, ChildExits,
         Reader, Tick, Fault, Stages
  <2>2. CASE result = "ok"
    <3>1. child = "gone" /\ pc = "done"
      BY <2>2 DEF Answered, Stages, TypeOK
    <3>2. UNCHANGED <<child, opened, written>>
      BY <1>2, <3>1 DEF Next, Executor, Child, vars, proc, Prepare, Spawn, Poll, Sleep,
         Kill, Reap, Join, WriteLogs, CheckStatus, ChildOpens, ChildWrites, ChildExits,
         Reader, Tick, Fault
    <3>3. Own' = Own
      BY <3>2 DEF Own
    <3> QED
      BY <1>0, <2>1, <2>2, <3>2, <3>3 DEF Answered
  <2>3. CASE result # "ok"
    BY <2>1, <2>3 DEF Answered
  <2> QED
    BY <2>2, <2>3
<1> QED
  BY <1>1, <1>2

-----------------------------------------------------------------------------
(* The invariant, and the properties that follow from it.                  *)
LEMMA IInvInit == Init => IInv
<1> SUFFICES ASSUME Init PROVE IInv
  OBVIOUS
<1>1. TypeOK
  BY TypeInit
<1>2. Stages /\ Answered /\ NothingLeft
  BY DEF Init, Stages, Answered, NothingLeft
<1>3. Flow
  BY DEF Init, Flow, Read, Piped, Streams
<1>4. Files
  <2>1. config.leftover \in [Names -> OldFiles]
    BY ConfigFacts DEF Init
  <2>2. written["log"] = 0 /\ disk = config.leftover /\ pc = "prepare" /\ ~opened /\ child = "none"
    BY DEF Init, Streams
  <2>3. Unopened
    BY <2>1, <2>2 DEF Unopened, Clean, Names
  <2> QED
    BY <2>2, <2>3 DEF Files
<1> QED
  BY <1>1, <1>2, <1>3, <1>4 DEF IInv

LEMMA IInvStep == IInv /\ [Next]_vars => IInv'
BY TypeStep, StagesStep, FlowStep, FilesStep, AnsweredStep, NothingLeftStep DEF IInv

LEMMA Invariance == Spec => []IInv
BY IInvInit, IInvStep, PTL DEF Spec

(* A trace that was taken for an answer is complete.                       *)
THEOREM Whole == Spec => []WholeAnswer
<1>1. IInv => WholeAnswer
  BY DEF IInv, Answered, WholeAnswer, Own, Absent
<1> QED
  BY <1>1, Invariance, PTL

(* Where an earlier trace may still be taken for an answer.                *)
THEOREM Fresh == Spec => []FreshAnswer
<1>1. IInv => FreshAnswer
  BY DEF IInv, Answered, FreshAnswer, Own, Absent
<1> QED
  BY <1>1, Invariance, PTL

(* No simulator is killed early, and none that was gives an answer.        *)
THEOREM OnTime == Spec => []TimedOutOnTime
<1>1. IInv => TimedOutOnTime
  BY DEF IInv, Stages, TimedOutOnTime
<1> QED
  BY <1>1, Invariance, PTL

(* An execution leaves no simulator behind.                                *)
THEOREM Reaped == Spec => []NothingLeft
<1>1. IInv => NothingLeft
  BY DEF IInv
<1> QED
  BY <1>1, Invariance, PTL

-----------------------------------------------------------------------------
(* The execution implements the abstract one: a write of the trace is a    *)
(* Produce, the reading of it an Answer, every other return a Refuse.      *)
LEMMA ExecutionInit == Init => E!Init
<1> SUFFICES ASSUME Init PROVE E!Init
  OBVIOUS
<1>1. Trusted \in BOOLEAN
  BY DEF Trusted
<1> QED
  BY <1>1 DEF Init, E!Init, Streams, Absent

LEMMA ExecutionStep == IInv /\ IInv' /\ [Next]_vars => [E!Next]_E!evars
<1> SUFFICES ASSUME IInv, IInv', [Next]_vars PROVE [E!Next]_E!evars
  OBVIOUS
<1>0. Trusted' = Trusted
  BY ConfigStep DEF Trusted
<1>1. TypeOK /\ TypeOK' /\ Stages /\ Stages' /\ Answered /\ Answered'
  BY DEF IInv
<1>2. "log" \in Streams
  BY DEF Streams
<1>3. ASSUME NEW s \in Streams, ChildWrites(s) PROVE [E!Next]_E!evars
  <2>1. UNCHANGED <<result, returned>> /\ result # "ok"
    BY <1>1, <1>3 DEF ChildWrites, exec, Answered
  <2>2. written'["log"] = written["log"] + 1 \/ written'["log"] = written["log"]
    BY <1>1, <1>2, <1>3 DEF ChildWrites, TypeOK
  <2> QED
    BY <1>0, <2>1, <2>2 DEF E!Next, E!Produce, E!evars
<1>4. CASE result' = "ok" /\ result # "ok"
  <2>1. ReadTrace
    BY <1>4 DEF Next, Executor, Child, vars, exec, Goto, Return, Prepare, Spawn, Poll, Sleep,
         Kill, Reap, Join, WriteLogs, CheckStatus, ChildOpens, ChildWrites, ChildExits,
         Reader, Tick, Fault
  <2>2. result = "none" /\ written' = written
    BY <1>1, <2>1 DEF ReadTrace, proc, Stages
  <2>3. returned'.size \in Nat
    BY <1>1 DEF TypeOK, FileType
  <2>4. Trusted => returned'.size = written["log"]
    BY <1>0, <1>1, <1>4, <2>2 DEF Answered, Own, Absent
  <2> QED
    BY <1>0, <1>4, <2>2, <2>3, <2>4 DEF E!Next, E!Answer
<1>5. CASE ~(\E s \in Streams : ChildWrites(s)) /\ ~(result' = "ok" /\ result # "ok")
  <2>1. written' = written
    BY <1>5 DEF Next, Executor, Child, vars, proc, Prepare, Spawn, Poll, Sleep,
         Kill, Reap, Join, WriteLogs, CheckStatus, ReadTrace, ChildOpens, ChildExits,
         Reader, Tick, Fault
  <2>2. result' = result \/ result = "none"
    BY <1>1 DEF Next, Executor, Child, vars, exec, Goto, Return, Prepare, Spawn, Poll, Sleep,
         Kill, Reap, Join, WriteLogs, CheckStatus, ReadTrace, ChildOpens, ChildWrites,
         ChildExits, Reader, Tick, Fault, Stages
  <2>3. CASE result' = result
    <3>1. returned' = returned
      BY <1>1, <2>3 DEF Next, Executor, Child, vars, exec, Goto, Return, Prepare, Spawn, Poll,
         Sleep, Kill, Reap, Join, WriteLogs, CheckStatus, ReadTrace, ChildOpens, ChildWrites,
         ChildExits, Reader, Tick, Fault, Stages
    <3> QED
      BY <1>0, <2>1, <2>3, <3>1 DEF E!evars
  <2>4. CASE result' # result
    <3>1. result = "none" /\ result' # "ok" /\ result' \in {"TimedOut", "Failed", "Empty", "Io"}
      BY <1>1, <1>5, <2>2, <2>4 DEF TypeOK
    <3>2. returned' = returned
      BY <1>1, <3>1 DEF Answered
    <3> QED
      BY <1>0, <2>1, <3>1, <3>2 DEF E!Next, E!Refuse
  <2> QED
    BY <2>3, <2>4
<1> QED
  BY <1>3, <1>4, <1>5

(* An execution is an answer with the whole trace of this execution, or a  *)
(* refusal, wherever the run directory can be trusted.                     *)
THEOREM ExecutionImplemented == Spec => ImplementsExecution
<1>1. Spec => []IInv
  BY Invariance
<1> QED
  BY <1>1, ExecutionInit, ExecutionStep, PTL DEF Spec, ImplementsExecution, E!Spec

(* For any simulators, outputs, limits and interleavings, an answer is the *)
(* whole trace of this execution, or of an earlier one where that can be.  *)
THEOREM AnswerHolds == Spec => []WholeOwnAnswer
BY Whole, Fresh, PTL DEF WholeOwnAnswer

(* Simulators are killed when it is time and are not left behind.          *)
THEOREM KillingHolds == Spec => []KilledAndReaped
BY OnTime, Reaped, PTL DEF KilledAndReaped
=============================================================================

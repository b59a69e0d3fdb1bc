------------------------- MODULE DiffAnalysisProofs -------------------------
(***************************************************************************)
(* Theorems about DiffAnalysis, for every set of implementations, every    *)
(* testcase length, every behaviour of the processors and every option.    *)
(***************************************************************************)
EXTENDS DiffAnalysis, FiniteSetTheorems, SequenceTheorems, TLAPS

(* What TypeOK leaves out: the outputs under examination are those of the  *)
(* current testcase, and the difference being classified is one of them.   *)
Examined ==
  /\ pc \in {"verify", "detect", "classify", "finish"} => outputs \in [testcase -> Row]
  /\ pc = "classify" => target.inst \in testcase

(* The limit is only passed by the first execution.                        *)
BelowLimit ==
  /\ LimitRespected
  /\ pc = "execute" => executed = 0 \/ \A limit \in config.limit : executed < limit

(* The evidence of the removals so far.                                    *)
Kept ==
  /\ EvidenceKept
  /\ Len(removals) = excRounds + wrRounds
  /\ pc \in {"verify", "detect", "classify"} => iteration \in implDirs
  /\ pc \notin {"done"} => rootExists

(* What has been compared so far.                                          *)
Verified == \A g \in Groups : SameInit(g, inits)
Clean    == /\ \A g \in Compared, k \in testcase :
                 /\ ~TriggerMismatch(g, outputs[k])
                 /\ ~WriteMismatch(g, outputs[k])
Checked ==
  /\ pc \in {"detect", "classify", "finish"} \/ status = "Ok" => iteration > 0 \/ Verified
  /\ iteration > 0 => Len(removals) > 0
  /\ pc = "execute" => status = "running"
  /\ pc = "finish" => Clean
  /\ status = "Ok" => Clean /\ outputs \in [testcase -> Row]
  /\ status = "running" <=> pc # "done"

-----------------------------------------------------------------------------
(* Typing.                                                                 *)

TInv == TypeOK /\ Examined

(* Groups and the differences found in them are made of implementations    *)
(* and of instructions of the testcase.                                    *)
LEMMA DiffsTyped ==
  /\ Compared \subseteq SUBSET Impls
  /\ WriteDiffs \subseteq [inst : testcase, group : SUBSET Impls]
  /\ Triggers \subseteq testcase
  <1>1. Compared \subseteq SUBSET Impls
    BY DEF Compared, Groups
  <1>2. WriteDiffs \subseteq [inst : testcase, group : SUBSET Impls]
    BY <1>1 DEF WriteDiffs
  <1>3. Triggers \subseteq testcase
    BY DEF Triggers
  <1>4. QED BY <1>1, <1>2, <1>3

(* An execution of a part of the testcase gives a row per instruction.     *)
LEMMA ExecutionsTyped ==
  ASSUME cpu \in Cpus, testcase \subseteq Insts
  PROVE  Executions(testcase) \subseteq [testcase -> Row]
  <1>1. CASE Deterministic
    <2>1. \A k \in testcase : Prefix(testcase, k) \in SUBSET Insts
      BY DEF Prefix
    <2>2. cpu.test \in [SUBSET Insts -> Row]
      BY CpusAssumption DEF CpuType
    <2>3. [k \in testcase |-> cpu.test[Prefix(testcase, k)]] \in [testcase -> Row]
      BY <2>1, <2>2
    <2>4. QED BY <1>1, <2>3 DEF Executions
  <1>2. CASE ~Deterministic
    BY <1>2, RowsAssumption DEF Executions
  <1>3. QED BY <1>1, <1>2

LEMMA InitializationsTyped ==
  ASSUME cpu \in Cpus PROVE Initializations \subseteq [Impls -> Writes]
  BY CpusAssumption, InitsAssumption DEF Initializations, CpuType

(* Instructions are numbers.                                               *)
LEMMA InstsAreNumbers == Insts \subseteq Nat
  BY NAssumption DEF Insts

(* The instructions a classification blames are some of the testcase.      *)
LEMMA BlamedTyped ==
  ASSUME testcase \subseteq Insts, target.inst \in testcase, NEW cause
  PROVE  Blamed(cause) \subseteq testcase /\ Blamed(cause) # {}
  <1>1. target.inst \in Prefix(testcase, target.inst)
    <2>1. target.inst \in Nat
      BY InstsAreNumbers
    <2>2. target.inst <= target.inst
      BY <2>1
    <2>3. QED BY <2>2 DEF Prefix
  <1>2. QED BY <1>1 DEF Blamed, Prefix

(* A removal leaves a testcase and adds a report of the right type.        *)
LEMMA RemovalTyped ==
  ASSUME TypeOK, NEW kind \in {"exception", "write"}, NEW at \in Nat,
         NEW insts \in SUBSET Insts, WithoutTestIndices(kind, at, insts)
  PROVE  /\ testcase' \subseteq Insts
         /\ removals' \in Seq(RemovalType)
  BY DEF TypeOK, WithoutTestIndices, RemovalType

LEMMA InitTyped == Init => TInv
  <1> SUFFICES ASSUME Init PROVE TInv
    OBVIOUS
  <1>1. \E tc \in SUBSET Insts : outputs \in [tc -> Row]
    <2>1. outputs \in [1..0 -> Row]
      BY EmptySeq, LenProperties DEF Init
    <2>2. 1..0 = {}
      OBVIOUS
    <2>3. QED BY <2>1, <2>2
  <1>2. target \in [inst : 0..N, group : SUBSET Impls]
    BY NAssumption DEF Init, NoTarget
  <1>3. removals \in Seq(RemovalType)
    BY EmptySeq DEF Init
  <1>4. QED
    BY <1>1, <1>2, <1>3 DEF Init, TInv, TypeOK, Examined, Statuses

LEMMA NextTyped == TInv /\ [Next]_vars => TInv'
  <1> SUFFICES ASSUME TInv, [Next]_vars PROVE TInv'
    OBVIOUS
  <1> USE DEF TInv
  <1>1. CASE Execute
    <2>1. outputs' \in [testcase' -> Row] /\ inits' \in [Impls -> Writes]
      BY <1>1, ExecutionsTyped, InitializationsTyped DEF Execute, TypeOK
    <2>2. \E tc \in SUBSET Insts : outputs' \in [tc -> Row]
      BY <1>1, <2>1 DEF Execute, TypeOK
    <2>3. TypeOK'
      BY <1>1, <2>1, <2>2 DEF Execute, TypeOK
    <2>4. QED BY <1>1, <2>1, <2>3 DEF Execute, Examined
  <1>2. CASE VerifyInitialization
    BY <1>2 DEF VerifyInitialization, Return, TypeOK, Statuses, Examined
  <1>3. CASE RemoveExceptions
    <2>1. Triggers \in SUBSET Insts
      BY DiffsTyped DEF TypeOK
    <2>2. testcase' \subseteq Insts /\ removals' \in Seq(RemovalType)
      BY <1>3, <2>1, RemovalTyped DEF RemoveExceptions
    <2>3. TypeOK'
      BY <1>3, <2>2 DEF RemoveExceptions, NextIteration, Return, TypeOK, Statuses
    <2>4. QED BY <1>3, <2>3 DEF RemoveExceptions, NextIteration, Return, Examined
  <1>4. CASE DetectWriteDifference
    <2>1. PICK d \in WriteDiffs : target' = d
      BY <1>4 DEF DetectWriteDifference
    <2>2. d \in [inst : testcase, group : SUBSET Impls]
      BY <2>1, DiffsTyped
    <2>3. target' \in [inst : 0..N, group : SUBSET Impls] /\ target'.inst \in testcase
      <3>1. testcase \subseteq 0..N
        BY NAssumption DEF TypeOK, Insts
      <3>2. QED BY <2>1, <2>2, <3>1
    <2>4. causeReports' \subseteq Nat
      BY <1>4 DEF DetectWriteDifference, ReportCauses, TypeOK
    <2>5. QED BY <1>4, <2>3, <2>4 DEF DetectWriteDifference, TypeOK, Examined
  <1>5. CASE Converge
    <2>1. causeReports' \subseteq Nat /\ implDirs' \subseteq Nat
      BY <1>5 DEF Converge, ReportCauses, TypeOK
    <2>2. QED BY <1>5, <2>1 DEF Converge, TypeOK, Examined
  <1>6. CASE RemoveWriteDifference
    <2>1. PICK cause : WithoutTestIndices("write", target.inst, Blamed(cause))
      BY <1>6 DEF RemoveWriteDifference
    <2>2. testcase \subseteq Insts /\ target.inst \in testcase
      BY <1>6 DEF RemoveWriteDifference, TypeOK, Examined
    <2>3. Blamed(cause) \in SUBSET Insts
      BY <2>2, BlamedTyped
    <2>4. target.inst \in Nat
      BY <2>2, InstsAreNumbers
    <2>5. testcase' \subseteq Insts /\ removals' \in Seq(RemovalType)
      BY <2>1, <2>3, <2>4, RemovalTyped
    <2>6. target' \in [inst : 0..N, group : SUBSET Impls]
      BY <1>6, NAssumption DEF RemoveWriteDifference, NoTarget
    <2>7. TypeOK'
      BY <1>6, <2>5, <2>6 DEF RemoveWriteDifference, NextIteration, Return, TypeOK, Statuses
    <2>8. QED BY <1>6, <2>7 DEF RemoveWriteDifference, NextIteration, Return, Examined
  <1>7. CASE Finish
    BY <1>7 DEF Finish, Return, TypeOK, Statuses, Examined
  <1>8. CASE ExecuteFails
    BY <1>8 DEF ExecuteFails, Return, TypeOK, Statuses, Examined
  <1>9. CASE IoFails
    BY <1>9 DEF IoFails, Return, TypeOK, Statuses, Examined
  <1>10. CASE UNCHANGED vars
    BY <1>10 DEF vars, TypeOK, Examined
  <1>11. QED
    BY <1>1, <1>2, <1>3, <1>4, <1>5, <1>6, <1>7, <1>8, <1>9, <1>10
    DEF Next, Progress, Done

(* The analysis keeps its variables in their types.                        *)
THEOREM TypeCorrect == Spec => []TypeOK
  <1>1. TInv => TypeOK
    BY DEF TInv
  <1>2. QED BY InitTyped, NextTyped, <1>1, PTL DEF Spec

-----------------------------------------------------------------------------
(* The iteration limit.                                                    *)

LEMMA InitBelowLimit == Init => BelowLimit
  <1> SUFFICES ASSUME Init PROVE BelowLimit
    OBVIOUS
  <1>1. config.limit \subseteq Nat /\ executed = 0
    BY ConfigsAssumption DEF Init, ConfigType
  <1>2. QED BY <1>1 DEF BelowLimit, LimitRespected

LEMMA NextBelowLimit == TInv /\ BelowLimit /\ [Next]_vars => BelowLimit'
  <1> SUFFICES ASSUME TInv, BelowLimit, [Next]_vars PROVE BelowLimit'
    OBVIOUS
  <1>1. /\ config.limit \subseteq Nat /\ executed \in Nat
        /\ config' = config
    BY ConfigsAssumption
    DEF TInv, TypeOK, ConfigType, Next, Progress, Execute, VerifyInitialization,
        RemoveExceptions, DetectWriteDifference, Converge, RemoveWriteDifference,
        Finish, ExecuteFails, IoFails, Done, vars
  <1>2. CASE Execute
    <2>1. executed' = executed + 1 /\ pc' # "execute"
      BY <1>2 DEF Execute
    <2>2. \A limit \in config.limit : executed + 1 <= IF limit = 0 THEN 1 ELSE limit
      <3>1. SUFFICES ASSUME NEW limit \in config.limit
                     PROVE  executed + 1 <= IF limit = 0 THEN 1 ELSE limit
        OBVIOUS
      <3>2. limit \in Nat /\ executed \in Nat
        BY <1>1
      <3>3. executed = 0 \/ executed < limit
        BY <1>2 DEF Execute, BelowLimit
      <3>4. QED BY <3>2, <3>3
    <2>3. QED BY <1>1, <2>1, <2>2 DEF BelowLimit, LimitRespected
  <1>3. CASE RemoveExceptions \/ RemoveWriteDifference
    <2>1. executed' = executed /\ NextIteration
      BY <1>3 DEF RemoveExceptions, RemoveWriteDifference
    <2>2. pc' = "execute" => \A limit \in config.limit : executed < limit
      BY <1>1, <2>1 DEF NextIteration, LimitReached, Return
    <2>3. QED BY <1>1, <2>1, <2>2 DEF BelowLimit, LimitRespected
  <1>4. CASE UNCHANGED vars
    BY <1>4 DEF vars, BelowLimit, LimitRespected
  <1>5. CASE VerifyInitialization \/ DetectWriteDifference \/ Converge \/ Finish
             \/ ExecuteFails \/ IoFails
    <2>1. executed' = executed /\ pc' # "execute"
      BY <1>5 DEF VerifyInitialization, DetectWriteDifference, Converge, Finish,
                  ExecuteFails, IoFails, Return
    <2>2. QED BY <1>1, <2>1 DEF BelowLimit, LimitRespected
  <1>6. QED
    BY <1>2, <1>3, <1>4, <1>5 DEF Next, Progress, Done

(* max_iterations bounds the executions of every analysis.                 *)
THEOREM LimitHolds == Spec => []LimitRespected
  <1>1. BelowLimit => LimitRespected
    BY DEF BelowLimit
  <1>2. QED
    BY InitTyped, NextTyped, InitBelowLimit, NextBelowLimit, <1>1, PTL DEF Spec

-----------------------------------------------------------------------------
(* The evidence.                                                           *)

(* A removal takes some instructions away and names just those in one more *)
(* report, of the current iteration; no other step touches either.         *)
Removal(insts) ==
  /\ pc \in {"detect", "classify"}
  /\ insts \subseteq testcase /\ insts # {}
  /\ testcase' = testcase \ insts
  /\ \E r \in RemovalType :
       /\ r.iteration = iteration /\ r.insts = insts
       /\ removals' = Append(removals, r)
  /\ NextIteration

LEMMA RemovalSteps ==
  ASSUME TInv, RemoveExceptions \/ RemoveWriteDifference
  PROVE  \E insts : Removal(insts)
  <1>1. CASE RemoveExceptions
    <2>1. Triggers \subseteq testcase /\ Triggers # {} /\ Triggers \in SUBSET Insts
      BY <1>1, DiffsTyped DEF RemoveExceptions, TInv, TypeOK
    <2>2. DEFINE r == [kind |-> "exception", iteration |-> iteration, at |-> 0,
                       insts |-> Triggers]
    <2>3. r \in RemovalType /\ r.iteration = iteration /\ r.insts = Triggers
      BY <2>1 DEF RemovalType, TInv, TypeOK
    <2>4. removals' = Append(removals, r) /\ testcase' = testcase \ Triggers
      BY <1>1 DEF RemoveExceptions, WithoutTestIndices
    <2>5. Removal(Triggers)
      BY <1>1, <2>1, <2>3, <2>4 DEF RemoveExceptions, Removal
    <2>6. QED BY <2>5
  <1>2. CASE RemoveWriteDifference
    <2>1. PICK cause : WithoutTestIndices("write", target.inst, Blamed(cause))
      BY <1>2 DEF RemoveWriteDifference
    <2>2. testcase \subseteq Insts /\ target.inst \in testcase
      BY <1>2 DEF RemoveWriteDifference, TInv, TypeOK, Examined
    <2>3. Blamed(cause) \subseteq testcase /\ Blamed(cause) # {} /\ target.inst \in Nat
      BY <2>2, BlamedTyped, InstsAreNumbers
    <2>4. DEFINE r == [kind |-> "write", iteration |-> iteration, at |-> target.inst,
                       insts |-> Blamed(cause)]
    <2>5. r \in RemovalType /\ r.iteration = iteration /\ r.insts = Blamed(cause)
      BY <2>2, <2>3 DEF RemovalType, TInv, TypeOK
    <2>6. removals' = Append(removals, r) /\ testcase' = testcase \ Blamed(cause)
      BY <2>1 DEF WithoutTestIndices
    <2>7. Removal(Blamed(cause))
      BY <1>2, <2>3, <2>5, <2>6 DEF RemoveWriteDifference, Removal
    <2>8. QED BY <2>7
  <1>3. QED BY <1>1, <1>2

LEMMA OtherSteps ==
  ASSUME [Next]_vars, ~(RemoveExceptions \/ RemoveWriteDifference)
  PROVE  UNCHANGED <<testcase, removals, iteration>>
  BY DEF Next, Progress, Execute, VerifyInitialization, DetectWriteDifference,
         Converge, Finish, ExecuteFails, IoFails, Done, vars

(* What one more report means for the instructions reported.               *)
LEMMA ReportAdded ==
  ASSUME TypeOK, NEW r \in RemovalType, removals' = Append(removals, r)
  PROVE  /\ Len(removals') = Len(removals) + 1
         /\ DOMAIN removals = 1..Len(removals)
         /\ DOMAIN removals' = 1..(Len(removals) + 1)
         /\ Len(removals) \in Nat
         /\ \A q \in 1..Len(removals) : removals'[q] = removals[q]
         /\ removals'[Len(removals) + 1] = r
         /\ Removed' = Removed \cup r.insts
  <1>1. removals \in Seq(RemovalType)
    BY DEF TypeOK
  <1>2. /\ Len(removals) \in Nat
        /\ DOMAIN removals = 1..Len(removals)
    BY <1>1, LenProperties
  <1>3. /\ removals' \in Seq(RemovalType)
        /\ Len(removals') = Len(removals) + 1
        /\ \A q \in 1..Len(removals) : removals'[q] = removals[q]
        /\ removals'[Len(removals) + 1] = r
    BY <1>1, AppendProperties
  <1>4. DOMAIN removals' = 1..(Len(removals) + 1)
    BY <1>3, LenProperties
  <1>5. 1..(Len(removals) + 1) = 1..Len(removals) \cup {Len(removals) + 1}
    BY <1>2
  <1>6. Removed' = Removed \cup r.insts
    <2>1. {removals'[q].insts : q \in DOMAIN removals'}
            = {removals[q].insts : q \in DOMAIN removals} \cup {r.insts}
      BY <1>2, <1>3, <1>4, <1>5
    <2>2. QED BY <2>1 DEF Removed
  <1>7. QED BY <1>2, <1>3, <1>4, <1>6

LEMMA InitEvidence == Init => EvidenceComplete /\ OneRemovalPerIteration
  <1> SUFFICES ASSUME Init PROVE EvidenceComplete /\ OneRemovalPerIteration
    OBVIOUS
  <1>1. removals = <<>> /\ Len(removals) = 0 /\ DOMAIN removals = {}
    <2>1. removals = <<>> /\ removals \in Seq(RemovalType) /\ Len(removals) = 0
      BY EmptySeq DEF Init
    <2>2. DOMAIN removals = 1..0
      BY <2>1, LenProperties
    <2>3. QED BY <2>1, <2>2
  <1>2. Removed = {}
    BY <1>1 DEF Removed
  <1>3. QED
    BY <1>1, <1>2 DEF Init, EvidenceComplete, OneRemovalPerIteration

LEMMA NextEvidenceComplete == TInv /\ EvidenceComplete /\ [Next]_vars => EvidenceComplete'
  <1> SUFFICES ASSUME TInv, EvidenceComplete, [Next]_vars PROVE EvidenceComplete'
    OBVIOUS
  <1>1. CASE RemoveExceptions \/ RemoveWriteDifference
    <2>1. PICK insts : Removal(insts)
      BY <1>1, RemovalSteps
    <2>2. PICK r \in RemovalType : r.insts = insts /\ removals' = Append(removals, r)
      BY <2>1 DEF Removal
    <2>3. insts \subseteq testcase /\ testcase' = testcase \ insts
      BY <2>1 DEF Removal
    <2>4. Removed' = Removed \cup insts
      BY <2>2, ReportAdded DEF TInv
    <2>5. /\ DOMAIN removals = 1..Len(removals) /\ Len(removals) \in Nat
          /\ DOMAIN removals' = 1..(Len(removals) + 1)
          /\ \A q \in 1..Len(removals) : removals'[q] = removals[q]
          /\ removals'[Len(removals) + 1] = r
      BY <2>2, ReportAdded DEF TInv
    <2>6. Insts = testcase' \cup Removed' /\ testcase' \cap Removed' = {}
      BY <2>3, <2>4 DEF EvidenceComplete
    <2>7. \A q \in DOMAIN removals : removals[q].insts \cap insts = {}
      BY <2>3 DEF EvidenceComplete, Removed
    <2>8. \A p, q \in DOMAIN removals' :
            p # q => removals'[p].insts \cap removals'[q].insts = {}
      <3>1. SUFFICES ASSUME NEW p \in DOMAIN removals', NEW q \in DOMAIN removals', p # q
                     PROVE  removals'[p].insts \cap removals'[q].insts = {}
        OBVIOUS
      <3>2. CASE p \in DOMAIN removals /\ q \in DOMAIN removals
        BY <2>5, <3>1, <3>2 DEF EvidenceComplete
      <3>3. CASE p \in DOMAIN removals /\ q \notin DOMAIN removals
        <4>1. q = Len(removals) + 1
          BY <2>5, <3>3
        <4>2. QED BY <2>2, <2>5, <2>7, <3>3, <4>1
      <3>4. CASE p \notin DOMAIN removals /\ q \in DOMAIN removals
        <4>1. p = Len(removals) + 1
          BY <2>5, <3>4
        <4>2. QED BY <2>2, <2>5, <2>7, <3>4, <4>1
      <3>5. CASE p \notin DOMAIN removals /\ q \notin DOMAIN removals
        BY <2>5, <3>1, <3>5
      <3>6. QED BY <3>2, <3>3, <3>4, <3>5
    <2>9. QED BY <2>6, <2>8 DEF EvidenceComplete
  <1>2. CASE ~(RemoveExceptions \/ RemoveWriteDifference)
    <2>1. UNCHANGED <<testcase, removals>>
      BY <1>2, OtherSteps
    <2>2. QED BY <2>1 DEF EvidenceComplete, Removed
  <1>3. QED BY <1>1, <1>2

(* Every instruction that left the testcase is named by exactly one report.*)
THEOREM EvidenceHolds == Spec => []EvidenceComplete
  <1>1. Init => EvidenceComplete
    BY InitEvidence
  <1>2. QED
    BY InitTyped, NextTyped, <1>1, NextEvidenceComplete, PTL DEF Spec

LEMMA NextOneRemoval ==
  TInv /\ OneRemovalPerIteration /\ [Next]_vars => OneRemovalPerIteration'
  <1> SUFFICES ASSUME TInv, OneRemovalPerIteration, [Next]_vars
               PROVE  OneRemovalPerIteration'
    OBVIOUS
  <1>1. CASE RemoveExceptions \/ RemoveWriteDifference
    <2>1. PICK insts : Removal(insts)
      BY <1>1, RemovalSteps
    <2>2. PICK r \in RemovalType : r.iteration = iteration /\ removals' = Append(removals, r)
      BY <2>1 DEF Removal
    <2>3. /\ Len(removals') = Len(removals) + 1
          /\ DOMAIN removals = 1..Len(removals) /\ Len(removals) \in Nat
          /\ DOMAIN removals' = 1..(Len(removals) + 1)
          /\ \A q \in 1..Len(removals) : removals'[q] = removals[q]
          /\ removals'[Len(removals) + 1] = r
      BY <2>2, ReportAdded DEF TInv
    <2>4. iteration = Len(removals) /\ pc \in {"detect", "classify"}
      BY <2>1 DEF Removal, OneRemovalPerIteration
    <2>5. \A q \in DOMAIN removals' : removals'[q].iteration = q - 1
      <3>1. \A q \in 1..Len(removals) : removals'[q].iteration = q - 1
        BY <2>3 DEF OneRemovalPerIteration
      <3>2. removals'[Len(removals) + 1].iteration = (Len(removals) + 1) - 1
        BY <2>2, <2>3, <2>4
      <3>3. QED BY <2>3, <3>1, <3>2
    <2>6. \/ pc' = "execute" /\ iteration' = Len(removals')
          \/ pc' = "done"
      BY <2>1, <2>3, <2>4 DEF Removal, NextIteration, Return
    <2>7. QED BY <2>5, <2>6 DEF OneRemovalPerIteration
  <1>2. CASE ~(RemoveExceptions \/ RemoveWriteDifference)
    <2>1. UNCHANGED <<removals, iteration>>
      BY <1>2, OtherSteps
    <2>2. \/ pc' \in {"finish", "done"}
          \/ pc \in {"execute", "verify", "detect", "classify"}
      BY <1>2 DEF Next, Progress, Execute, VerifyInitialization, DetectWriteDifference,
         Converge, Finish, ExecuteFails, IoFails, Done, Return, vars, TInv, TypeOK
    <2>3. QED BY <2>1, <2>2 DEF OneRemovalPerIteration
  <1>3. QED BY <1>1, <1>2

(* No iteration is executed into the directory of an earlier one, and each *)
(* holds at most one removal report.                                       *)
THEOREM IterationsHold == Spec => []OneRemovalPerIteration
  <1>1. Init => OneRemovalPerIteration
    BY InitEvidence
  <1>2. QED
    BY InitTyped, NextTyped, <1>1, NextOneRemoval, PTL DEF Spec

LEMMA InitKept == Init => Kept
  <1> SUFFICES ASSUME Init PROVE Kept
    OBVIOUS
  <1>1. removals = <<>> /\ Len(removals) = 0 /\ DOMAIN removals = {}
    <2>1. removals = <<>> /\ removals \in Seq(RemovalType) /\ Len(removals) = 0
      BY EmptySeq DEF Init
    <2>2. DOMAIN removals = 1..0
      BY <2>1, LenProperties
    <2>3. QED BY <2>1, <2>2
  <1>2. QED
    BY <1>1 DEF Init, Kept, EvidenceKept

(* A report lies in an earlier iteration than the one that runs.           *)
LEMMA EarlierReports ==
  ASSUME TInv, OneRemovalPerIteration, pc = "detect"
  PROVE  \A r \in DOMAIN removals : removals[r].iteration # iteration
  <1>1. DOMAIN removals = 1..Len(removals) /\ Len(removals) \in Nat
    BY LenProperties DEF TInv, TypeOK
  <1>2. iteration = Len(removals)
    BY DEF OneRemovalPerIteration
  <1>3. QED BY <1>1, <1>2 DEF OneRemovalPerIteration

LEMMA NextKept == TInv /\ OneRemovalPerIteration /\ Kept /\ [Next]_vars => Kept'
  <1> SUFFICES ASSUME TInv, OneRemovalPerIteration, Kept, [Next]_vars PROVE Kept'
    OBVIOUS
  <1>1. CASE Execute \/ ExecuteFails
    BY <1>1 DEF Execute, ExecuteFails, Return, Kept, EvidenceKept
  <1>2. CASE VerifyInitialization \/ DetectWriteDifference \/ IoFails \/ UNCHANGED vars
    BY <1>2 DEF VerifyInitialization, DetectWriteDifference, IoFails, Return, vars, Kept,
                EvidenceKept
  <1>3. CASE Converge
    <2>1. \A r \in DOMAIN removals : removals[r].iteration # iteration
      BY <1>3, EarlierReports DEF Converge
    <2>2. QED BY <1>3, <2>1 DEF Converge, Kept, EvidenceKept
  <1>4. CASE Finish
    <2>1. excRounds = 0 /\ wrRounds = 0 => removals = <<>>
      <3>1. excRounds = 0 /\ wrRounds = 0 => Len(removals) = 0
        BY DEF Kept
      <3>2. removals \in Seq(RemovalType)
        BY DEF TInv, TypeOK
      <3>3. QED BY <3>1, <3>2, EmptySeq
    <2>2. QED BY <1>4, <2>1 DEF Finish, Return, Kept, EvidenceKept
  <1>5. CASE RemoveExceptions \/ RemoveWriteDifference
    <2>1. PICK insts : Removal(insts)
      BY <1>5, RemovalSteps
    <2>2. PICK r \in RemovalType : r.iteration = iteration /\ removals' = Append(removals, r)
      BY <2>1 DEF Removal
    <2>3. /\ Len(removals') = Len(removals) + 1
          /\ DOMAIN removals = 1..Len(removals) /\ Len(removals) \in Nat
          /\ DOMAIN removals' = 1..(Len(removals) + 1)
          /\ \A q \in 1..Len(removals) : removals'[q] = removals[q]
          /\ removals'[Len(removals) + 1] = r
      BY <2>2, ReportAdded DEF TInv
    <2>4. /\ implDirs' = implDirs /\ rootExists' = rootExists
          /\ iteration \in implDirs /\ rootExists
          /\ pc' \in {"execute", "done"}
      BY <1>5 DEF RemoveExceptions, RemoveWriteDifference, NextIteration, Return, Kept
    <2>5. \A q \in DOMAIN removals' : removals'[q].iteration \in implDirs'
      <3>1. \A q \in 1..Len(removals) : removals'[q].iteration \in implDirs
        BY <2>3 DEF Kept, EvidenceKept
      <3>2. QED BY <2>2, <2>3, <2>4, <3>1
    <2>6. Len(removals') = excRounds' + wrRounds'
      BY <1>5, <2>3 DEF RemoveExceptions, RemoveWriteDifference, Kept, TInv, TypeOK
    <2>7. QED BY <2>4, <2>5, <2>6 DEF Kept, EvidenceKept
  <1>6. QED
    BY <1>1, <1>2, <1>3, <1>4, <1>5 DEF Next, Progress, Done

(* Cleaning up never takes away what a removal report was made from.       *)
THEOREM EvidenceIsKept == Spec => []EvidenceKept
  <1>1. Init => OneRemovalPerIteration
    BY InitEvidence
  <1>2. Kept => EvidenceKept
    BY DEF Kept
  <1>3. QED
    BY InitTyped, NextTyped, <1>1, NextOneRemoval, InitKept, NextKept, <1>2, PTL DEF Spec

-----------------------------------------------------------------------------
(* Convergence.                                                            *)

(* Nothing is lost by comparing nobody in a group of one.                  *)
LEMMA GroupsOfOne ==
  ASSUME NEW g \in Groups, g \notin Compared
  PROVE  \A i, j \in g : i = j
  <1>1. SUFFICES ASSUME NEW i \in g, NEW j \in g, i # j
                 PROVE  g \in Compared
    OBVIOUS
  <1>2. IsFiniteSet(g) /\ {i, j} \subseteq g
    <2>1. g \subseteq Impls
      BY DEF Groups
    <2>2. QED BY <2>1, ImplsAssumption, FS_Subset
  <1>3. Cardinality({i, j}) = 2
    <2>1. IsFiniteSet({i}) /\ Cardinality({i}) = 1
      BY FS_Singleton
    <2>2. Cardinality({i} \cup {j}) = Cardinality({i}) + 1
      BY <1>1, <2>1, FS_AddElement
    <2>3. {i} \cup {j} = {i, j}
      OBVIOUS
    <2>4. QED BY <2>1, <2>2, <2>3
  <1>4. Cardinality({i, j}) <= Cardinality(g) /\ Cardinality(g) \in Nat
    BY <1>2, FS_Subset, FS_CardinalityType
  <1>5. QED BY <1>3, <1>4 DEF Compared

LEMMA NoDifferences ==
  ASSUME Triggers = {}, WriteDiffs = {}
  PROVE  Clean
  <1>1. SUFFICES ASSUME NEW g \in Compared, NEW k \in testcase
                 PROVE  ~TriggerMismatch(g, outputs[k]) /\ ~WriteMismatch(g, outputs[k])
    BY DEF Clean
  <1>2. ~TriggerMismatch(g, outputs[k])
    BY DEF Triggers
  <1>3. ~WriteMismatch(g, outputs[k])
    <2>1. DEFINE d == [inst |-> k, group |-> g]
    <2>2. d \in [inst : testcase, group : Compared] /\ d.inst = k /\ d.group = g
      OBVIOUS
    <2>3. QED BY <2>2 DEF WriteDiffs
  <1>4. QED BY <1>2, <1>3

LEMMA InitChecked == Init => Checked
  BY DEF Init, Checked

LEMMA NextChecked == TInv /\ Checked /\ [Next]_vars => Checked'
  <1> SUFFICES ASSUME TInv, Checked, [Next]_vars PROVE Checked'
    OBVIOUS
  <1>1. ASSUME UNCHANGED <<config, inits>> PROVE Verified' = Verified
    BY <1>1 DEF Verified, Groups, SupportMap
  <1>2. ASSUME UNCHANGED <<config, testcase, outputs>> PROVE Clean' = Clean
    BY <1>2 DEF Clean, Compared, Groups, SupportMap
  <1>3. iteration \in Nat
    BY DEF TInv, TypeOK
  <1>4. CASE Execute
    <2>1. testcase = {} => Clean'
      BY <1>4 DEF Execute, Clean
    <2>2. QED BY <1>3, <1>4, <2>1 DEF Execute, Checked
  <1>5. CASE VerifyInitialization
    <2>1. \/ pc' = "detect" /\ Verified /\ status' = status
          \/ pc' = "done"
      BY <1>5 DEF VerifyInitialization, Verified, Return
    <2>2. status' \in {"running", "InitializationMismatch"}
      BY <1>5 DEF VerifyInitialization, Return, Checked
    <2>3. status' = "running" <=> pc' # "done"
      BY <1>5 DEF VerifyInitialization, Return, Checked
    <2>4. iteration' = iteration /\ removals' = removals /\ Verified' = Verified
      BY <1>1, <1>5 DEF VerifyInitialization
    <2>5. QED BY <2>1, <2>2, <2>3, <2>4 DEF Checked
  <1>6. CASE RemoveExceptions \/ RemoveWriteDifference
    <2>1. NextIteration /\ status = "running" /\ pc \in {"detect", "classify"}
      BY <1>6 DEF RemoveExceptions, RemoveWriteDifference, Checked
    <2>2. PICK r : removals' = Append(removals, r)
      BY <1>6 DEF RemoveExceptions, RemoveWriteDifference, WithoutTestIndices
    <2>3. Len(removals') > 0
      BY <2>2 DEF TInv, TypeOK
    <2>4. QED BY <2>1, <2>3 DEF NextIteration, Return, Checked
  <1>7. CASE DetectWriteDifference
    <2>1. Verified' = Verified
      BY <1>1, <1>7 DEF DetectWriteDifference
    <2>2. QED BY <1>7, <2>1 DEF DetectWriteDifference, Checked
  <1>8. CASE Converge
    <2>1. Clean' /\ Verified' = Verified
      BY <1>1, <1>2, <1>8, NoDifferences DEF Converge
    <2>2. QED BY <1>8, <2>1 DEF Converge, Checked
  <1>9. CASE Finish
    <2>1. Clean' /\ outputs' \in [testcase' -> Row] /\ Verified' = Verified
      BY <1>1, <1>2, <1>9 DEF Finish, Checked, TInv, Examined
    <2>2. QED BY <1>9, <2>1 DEF Finish, Return, Checked
  <1>10. CASE ExecuteFails \/ IoFails
    BY <1>10 DEF ExecuteFails, IoFails, Return, Checked
  <1>11. CASE UNCHANGED vars
    <2>1. Clean' = Clean /\ Verified' = Verified
      BY <1>1, <1>2, <1>11 DEF vars
    <2>2. QED BY <1>11, <2>1 DEF vars, Checked
  <1>12. QED
    BY <1>4, <1>5, <1>6, <1>7, <1>8, <1>9, <1>10, <1>11 DEF Next, Progress, Done

(* An analysis that ends well returns a testcase on whose outputs no two   *)
(* implementations that are to be compared differ, and if these outputs    *)
(* are the first ones, not in those of the initialization either.          *)
THEOREM ConvergenceHolds == Spec => []Converged
  <1>1. Checked => Converged
    <2>1. SUFFICES ASSUME Checked, status = "Ok", NEW g \in Groups
                   PROVE  /\ DOMAIN outputs = testcase
                          /\ removals = <<>> => SameInit(g, inits)
                          /\ \A k \in testcase : /\ ~TriggerMismatch(g, outputs[k])
                                                  /\ ~WriteMismatch(g, outputs[k])
      BY DEF Converged, Checked
    <2>2. DOMAIN outputs = testcase /\ (removals = <<>> => SameInit(g, inits))
      <3>1. removals = <<>> => ~(iteration > 0)
        BY <2>1 DEF Checked
      <3>2. QED BY <2>1, <3>1 DEF Checked, Verified
    <2>3. CASE g \in Compared
      BY <2>1, <2>2, <2>3 DEF Checked, Clean
    <2>4. CASE g \notin Compared
      BY <2>2, <2>4, GroupsOfOne DEF TriggerMismatch, WriteMismatch
    <2>5. QED BY <2>2, <2>3, <2>4
  <1>2. QED
    BY InitTyped, NextTyped, InitChecked, NextChecked, <1>1, PTL DEF Spec

-----------------------------------------------------------------------------
(* The refinement: removals are the abstract Trim, the last step before a  *)
(* verdict is the abstract Conclude, everything else stutters.             *)
THEOREM Refinement == Spec => ImplementsTrimming
  <1>1. Init => Abstract!AInit
    <2>1. Init => Removed = {}
      <3>1. SUFFICES ASSUME Init PROVE Removed = {}
        OBVIOUS
      <3>2. DOMAIN removals = 1..0
        BY <3>1, EmptySeq, LenProperties DEF Init
      <3>3. QED BY <3>2 DEF Removed
    <2>2. QED BY <2>1 DEF Init, Abstract!AInit
  <1>2. TInv /\ Checked /\ [Next]_vars => [Abstract!Trim \/ Abstract!Conclude]_Abstract!avars
    <2> SUFFICES ASSUME TInv, Checked, [Next]_vars
                 PROVE  [Abstract!Trim \/ Abstract!Conclude]_Abstract!avars
      OBVIOUS
    <2>1. CASE RemoveExceptions \/ RemoveWriteDifference
      <3>1. PICK insts : Removal(insts)
        BY <2>1, RemovalSteps
      <3>2. Removed' = Removed \cup insts
        BY <3>1, ReportAdded DEF Removal, TInv
      <3>3. status = "running" /\ status' \in {"running", "IterationLimitReached"}
        BY <3>1 DEF Removal, NextIteration, Return, Checked
      <3>4. QED BY <3>1, <3>2, <3>3 DEF Removal, Abstract!Trim
    <2>2. CASE ~(RemoveExceptions \/ RemoveWriteDifference)
      <3>1. UNCHANGED <<testcase, Removed>>
        BY <2>2, OtherSteps DEF Removed
      <3>2. CASE status' = status
        BY <3>1, <3>2 DEF Abstract!avars
      <3>3. CASE status' # status
        <4>1. pc \in {"execute", "verify", "detect", "classify", "finish"}
          BY <2>2, <3>3 DEF Next, Progress, Execute, VerifyInitialization,
             DetectWriteDifference, Converge, Finish, ExecuteFails, IoFails, Done, vars
        <4>2. status = "running"
          BY <4>1 DEF Checked
        <4>3. status' \in Statuses
          BY NextTyped DEF TInv, TypeOK
        <4>4. QED BY <3>1, <3>3, <4>2, <4>3 DEF Abstract!Conclude
      <3>4. QED BY <3>2, <3>3
    <2>3. QED BY <2>1, <2>2
  <1>3. QED
    BY InitTyped, NextTyped, InitChecked, NextChecked, <1>1, <1>2, PTL
    DEF Spec, ImplementsTrimming, Abstract!ASpec

(* The evidence of every removal is complete, of one iteration each, and   *)
(* kept, for any implementations, processors and options.                  *)
THEOREM EvidenceAlways == Spec => []Evidence
  BY EvidenceHolds, IterationsHold, EvidenceIsKept, PTL DEF Evidence

-----------------------------------------------------------------------------
(* Processors that repeat.                                                 *)

(* What the processors show for an instruction of the current testcase,    *)
(* and that it makes no difference.                                        *)
Shown(k)  == cpu.test[Prefix(testcase, k)]
Agrees(k) == \A g \in Compared : /\ ~TriggerMismatch(g, Shown(k))
                                 /\ ~WriteMismatch(g, Shown(k))

(* The outputs say just that, and the difference that is classified is the *)
(* first one.                                                              *)
Repeated ==
  /\ pc \in {"verify", "detect", "classify"} => outputs = [k \in testcase |-> Shown(k)]
  /\ pc = "classify" => /\ ~Agrees(target.inst)
                        /\ \A k \in testcase : k < target.inst => Agrees(k)

(* Nothing differs any more up to the target of a write removal.           *)
Settled ==
  \A r \in DOMAIN removals : removals[r].kind = "write" =>
    \A k \in testcase : k <= removals[r].at => Agrees(k)

OnlyForward ==
  \A r, q \in DOMAIN removals :
    r < q /\ removals[r].kind = "write" => \A k \in Divergent(q) : k > removals[r].at

ForwardInv == Deterministic => Repeated /\ Settled /\ OnlyForward

LEMMA InitForward == Init => ForwardInv
  <1> SUFFICES ASSUME Init PROVE Repeated /\ Settled /\ OnlyForward
    BY DEF ForwardInv
  <1>1. DOMAIN removals = {}
    <2>1. DOMAIN removals = 1..0
      BY EmptySeq, LenProperties DEF Init
    <2>2. QED BY <2>1
  <1>2. QED BY <1>1 DEF Init, Repeated, Settled, OnlyForward

(* Taking later instructions away changes nothing for an earlier one.      *)
LEMMA EarlierKept ==
  ASSUME testcase \subseteq Nat, NEW insts, NEW k \in Nat, \A j \in insts : ~(j <= k),
         testcase' = testcase \ insts, UNCHANGED <<cpu, config>>
  PROVE  Agrees(k)' = Agrees(k)
  <1>1. Prefix(testcase', k) = Prefix(testcase, k)
    BY DEF Prefix
  <1>2. Compared' = Compared
    BY DEF Compared, Groups
  <1>3. QED BY <1>1, <1>2 DEF Agrees, Shown

(* The first write difference is the first difference if nothing traps     *)
(* where it does not elsewhere.                                            *)
LEMMA FirstDiffers ==
  ASSUME TInv, Repeated, pc = "detect", Triggers = {}, NEW d, FirstWriteDiff(d)
  PROVE  ~Agrees(d.inst) /\ \A k \in testcase : k < d.inst => Agrees(k)
  <1>1. \A k \in testcase : outputs[k] = Shown(k)
    BY DEF Repeated
  <1>2. testcase \subseteq Nat
    BY InstsAreNumbers DEF TInv, TypeOK
  <1>3. /\ d.inst \in testcase /\ d.group \in Compared
        /\ WriteMismatch(d.group, outputs[d.inst])
    BY DEF FirstWriteDiff, WriteDiffs
  <1>4. ~Agrees(d.inst)
    BY <1>1, <1>3 DEF Agrees
  <1>5. ASSUME NEW k \in testcase, k < d.inst PROVE Agrees(k)
    <2>1. SUFFICES ASSUME NEW g \in Compared
                   PROVE  ~TriggerMismatch(g, outputs[k]) /\ ~WriteMismatch(g, outputs[k])
      BY <1>1, <1>5 DEF Agrees
    <2>2. ~TriggerMismatch(g, outputs[k])
      BY <1>5, <2>1 DEF Triggers
    <2>3. ~WriteMismatch(g, outputs[k])
      <3>1. SUFFICES ASSUME WriteMismatch(g, outputs[k]) PROVE FALSE
        OBVIOUS
      <3>2. DEFINE e == [inst |-> k, group |-> g]
      <3>3. e \in WriteDiffs /\ e.inst = k
        BY <1>5, <2>1, <3>1 DEF WriteDiffs
      <3>4. d.inst < k \/ d.inst = k
        BY <3>3 DEF FirstWriteDiff, Earlier
      <3>5. k \in Nat /\ d.inst \in Nat
        BY <1>2, <1>3, <1>5
      <3>6. QED BY <1>5, <3>4, <3>5
    <2>4. QED BY <2>2, <2>3
  <1>6. QED BY <1>4, <1>5

(* The target a report names is a number.                                  *)
LEMMA ReportTyped ==
  ASSUME TypeOK, NEW q \in DOMAIN removals
  PROVE  removals[q].at \in Nat
  <1>1. removals \in Seq(RemovalType) /\ q \in 1..Len(removals)
    BY LenProperties DEF TypeOK
  <1>2. removals[q] \in RemovalType
    BY <1>1, ElementOfSeq
  <1>3. QED BY <1>2 DEF RemovalType

(* What traps lies behind all that is settled.                             *)
LEMMA ForwardAfterExceptions ==
  ASSUME TInv, Repeated, Settled, OnlyForward, RemoveExceptions
  PROVE  Repeated' /\ Settled' /\ OnlyForward'
  <1>1. DEFINE r == [kind |-> "exception", iteration |-> iteration, at |-> 0,
                     insts |-> Triggers]
  <1>2. /\ pc = "detect" /\ removals' = Append(removals, r) /\ testcase' = testcase \ Triggers
        /\ UNCHANGED <<cpu, config>> /\ pc' \in {"execute", "done"}
    BY DEF RemoveExceptions, WithoutTestIndices, NextIteration, Return
  <1>3. /\ r \in RemovalType /\ testcase \subseteq Nat
    BY <1>2, DiffsTyped, InstsAreNumbers DEF RemovalType, TInv, TypeOK
  <1>4. /\ DOMAIN removals = 1..Len(removals) /\ DOMAIN removals' = 1..(Len(removals) + 1)
        /\ Len(removals) \in Nat
        /\ \A q \in 1..Len(removals) : removals'[q] = removals[q]
        /\ removals'[Len(removals) + 1] = r
    BY <1>2, <1>3, ReportAdded DEF TInv
  <1>5. \A q \in DOMAIN removals : removals[q].at \in Nat
    BY <1>4, ReportTyped DEF TInv
  <1>6. \A k \in Triggers : k \in testcase /\ ~Agrees(k)
    BY <1>2 DEF Triggers, Repeated, Agrees
  <1>7. \A q \in DOMAIN removals : removals[q].kind = "write" =>
          \A k \in Triggers : k > removals[q].at
    <2>1. SUFFICES ASSUME NEW q \in DOMAIN removals, removals[q].kind = "write",
                          NEW k \in Triggers
                   PROVE  k > removals[q].at
      OBVIOUS
    <2>2. k \in Nat /\ removals[q].at \in Nat /\ k \in testcase /\ ~Agrees(k)
      BY <1>3, <1>5, <1>6, <2>1
    <2>3. ~(k <= removals[q].at)
      BY <2>1, <2>2 DEF Settled
    <2>4. QED BY <2>2, <2>3
  <1>8. Settled'
    <2>1. SUFFICES ASSUME NEW q \in DOMAIN removals', removals'[q].kind = "write",
                          NEW k \in testcase', k <= removals'[q].at
                   PROVE  Agrees(k)'
      BY DEF Settled
    <2>2. q \in DOMAIN removals /\ removals'[q] = removals[q]
      BY <1>4, <2>1
    <2>3. k \in testcase /\ k \in Nat
      BY <1>2, <1>3, <2>1
    <2>4. \A j \in Triggers : ~(j <= k)
      <3>1. removals[q].at \in Nat /\ k <= removals[q].at
        BY <1>5, <2>1, <2>2
      <3>2. \A j \in Triggers : j \in Nat /\ j > removals[q].at
        BY <1>3, <1>6, <1>7, <2>1, <2>2
      <3>3. QED BY <2>3, <3>1, <3>2
    <2>5. Agrees(k)' = Agrees(k)
      BY <1>2, <1>3, <2>3, <2>4, EarlierKept
    <2>6. Agrees(k)
      BY <2>1, <2>2, <2>3 DEF Settled
    <2>7. QED BY <2>5, <2>6
  <1>9. OnlyForward'
    <2>1. SUFFICES ASSUME NEW p \in DOMAIN removals', NEW q \in DOMAIN removals', p < q,
                          removals'[p].kind = "write", NEW k \in Divergent(q)'
                   PROVE  k > removals'[p].at
      BY DEF OnlyForward
    <2>2. p \in DOMAIN removals /\ removals'[p] = removals[p]
      BY <1>4, <2>1
    <2>3. CASE q \in DOMAIN removals
      <3>1. Divergent(q)' = Divergent(q)
        BY <1>4, <2>3 DEF Divergent
      <3>2. QED BY <2>1, <2>2, <2>3, <3>1 DEF OnlyForward
    <2>4. CASE q = Len(removals) + 1
      <3>1. Divergent(q)' = Triggers
        BY <1>4, <2>4 DEF Divergent
      <3>2. QED BY <1>7, <2>1, <2>2, <3>1
    <2>5. QED BY <1>4, <2>1, <2>3, <2>4
  <1>10. Repeated'
    BY <1>2 DEF Repeated
  <1>11. QED BY <1>8, <1>9, <1>10

(* So does a write difference, and everything before it is settled then.   *)
LEMMA ForwardAfterWrite ==
  ASSUME TInv, Repeated, Settled, OnlyForward, RemoveWriteDifference
  PROVE  Repeated' /\ Settled' /\ OnlyForward'
  <1>1. PICK cause \in {"SingleInstruction", "DependsOnHistory"} :
          WithoutTestIndices("write", target.inst, Blamed(cause))
    BY DEF RemoveWriteDifference
  <1>2. DEFINE t == target.inst
               insts == Blamed(cause)
               r == [kind |-> "write", iteration |-> iteration, at |-> t, insts |-> insts]
  <1>3. /\ pc = "classify" /\ removals' = Append(removals, r) /\ testcase' = testcase \ insts
        /\ UNCHANGED <<cpu, config>> /\ pc' \in {"execute", "done"}
    BY <1>1 DEF RemoveWriteDifference, WithoutTestIndices, NextIteration, Return
  <1>4. testcase \subseteq Nat /\ testcase \subseteq Insts /\ t \in testcase
    BY <1>3, InstsAreNumbers DEF TInv, TypeOK, Examined
  <1>5. r \in RemovalType
    <2>1. insts \subseteq testcase
      BY <1>4, BlamedTyped
    <2>2. QED BY <1>4, <2>1 DEF RemovalType, TInv, TypeOK
  <1>6. /\ DOMAIN removals = 1..Len(removals) /\ DOMAIN removals' = 1..(Len(removals) + 1)
        /\ Len(removals) \in Nat
        /\ \A q \in 1..Len(removals) : removals'[q] = removals[q]
        /\ removals'[Len(removals) + 1] = r
    BY <1>3, <1>5, ReportAdded DEF TInv
  <1>7. \A q \in DOMAIN removals : removals[q].at \in Nat
    BY <1>6, ReportTyped DEF TInv
  <1>8. ~Agrees(t) /\ \A k \in testcase : k < t => Agrees(k)
    BY <1>3 DEF Repeated
  <1>9. \A q \in DOMAIN removals : removals[q].kind = "write" => t > removals[q].at
    <2>1. SUFFICES ASSUME NEW q \in DOMAIN removals, removals[q].kind = "write"
                   PROVE  t > removals[q].at
      OBVIOUS
    <2>2. t \in Nat /\ removals[q].at \in Nat
      BY <1>4, <1>7, <2>1
    <2>3. ~(t <= removals[q].at)
      BY <1>4, <1>8, <2>1 DEF Settled
    <2>4. QED BY <2>2, <2>3
  <1>10. ASSUME NEW k \in testcase', k <= t
         PROVE  Agrees(k)'
    <2>1. k \in testcase /\ k \in Nat /\ k \notin insts
      BY <1>3, <1>4, <1>10
    <2>2. insts = {t}
      BY <1>10, <2>1 DEF Blamed, Prefix
    <2>3. t \in Nat /\ k # t
      BY <1>4, <2>1, <2>2
    <2>4. k < t
      BY <1>10, <2>1, <2>3
    <2>5. \A j \in insts : ~(j <= k)
      BY <2>1, <2>2, <2>3, <2>4
    <2>6. Agrees(k)' = Agrees(k)
      BY <1>3, <1>4, <2>1, <2>5, EarlierKept
    <2>7. QED BY <1>8, <2>1, <2>4, <2>6
  <1>11. Settled'
    <2>1. SUFFICES ASSUME NEW q \in DOMAIN removals', removals'[q].kind = "write",
                          NEW k \in testcase', k <= removals'[q].at
                   PROVE  Agrees(k)'
      BY DEF Settled
    <2>2. k \in Nat /\ t \in Nat
      BY <1>3, <1>4, <2>1
    <2>3. CASE q \in DOMAIN removals
      <3>1. removals[q].at \in Nat /\ t > removals[q].at /\ k <= removals[q].at
        BY <1>6, <1>7, <1>9, <2>1, <2>3
      <3>2. QED BY <1>10, <2>1, <2>2, <3>1
    <2>4. CASE q = Len(removals) + 1
      BY <1>6, <1>10, <2>1, <2>4
    <2>5. QED BY <1>6, <2>1, <2>3, <2>4
  <1>12. OnlyForward'
    <2>1. SUFFICES ASSUME NEW p \in DOMAIN removals', NEW q \in DOMAIN removals', p < q,
                          removals'[p].kind = "write", NEW k \in Divergent(q)'
                   PROVE  k > removals'[p].at
      BY DEF OnlyForward
    <2>2. p \in DOMAIN removals /\ removals'[p] = removals[p]
      BY <1>6, <2>1
    <2>3. CASE q \in DOMAIN removals
      <3>1. Divergent(q)' = Divergent(q)
        BY <1>6, <2>3 DEF Divergent
      <3>2. QED BY <2>1, <2>2, <2>3, <3>1 DEF OnlyForward
    <2>4. CASE q = Len(removals) + 1
      <3>1. Divergent(q)' = {t}
        BY <1>6, <2>4 DEF Divergent
      <3>2. QED BY <1>9, <2>1, <2>2, <3>1
    <2>5. QED BY <1>6, <2>1, <2>3, <2>4
  <1>13. Repeated'
    BY <1>3 DEF Repeated
  <1>14. QED BY <1>11, <1>12, <1>13

LEMMA NextForward == TInv /\ ForwardInv /\ [Next]_vars => ForwardInv'
  <1> SUFFICES ASSUME TInv, Deterministic, Repeated, Settled, OnlyForward, [Next]_vars
               PROVE  Repeated' /\ Settled' /\ OnlyForward'
    BY DEF ForwardInv
  <1>1. CASE RemoveExceptions
    BY <1>1, ForwardAfterExceptions
  <1>2. CASE RemoveWriteDifference
    BY <1>2, ForwardAfterWrite
  <1>3. CASE ~(RemoveExceptions \/ RemoveWriteDifference)
    <2>1. UNCHANGED <<testcase, removals, cpu, config>>
      BY <1>3 DEF Next, Progress, Execute, VerifyInitialization, DetectWriteDifference,
         Converge, Finish, ExecuteFails, IoFails, Done, vars
    <2>2. /\ \A k : Shown(k)' = Shown(k)
          /\ Compared' = Compared
      BY <2>1 DEF Shown, Compared, Groups
    <2>3. \A k : Agrees(k)' = Agrees(k)
      BY <2>2 DEF Agrees
    <2>4. Settled' /\ OnlyForward'
      BY <2>1, <2>3 DEF Settled, OnlyForward, Divergent
    <2>5. Repeated'
      <3>1. CASE Execute
        <4>1. outputs' = [k \in testcase |-> Shown(k)]
          BY <3>1 DEF Execute, Executions, Shown
        <4>2. pc' # "classify"
          BY <3>1 DEF Execute
        <4>3. QED BY <2>1, <2>2, <4>1, <4>2 DEF Repeated
      <3>2. CASE VerifyInitialization
        <4>1. pc = "verify" /\ pc' # "classify" /\ outputs' = outputs
          BY <3>2 DEF VerifyInitialization, Return
        <4>2. QED BY <2>1, <2>2, <4>1 DEF Repeated
      <3>3. CASE DetectWriteDifference
        <4>1. pc = "detect" /\ Triggers = {} /\ outputs' = outputs /\ FirstWriteDiff(target')
          BY <3>3 DEF DetectWriteDifference
        <4>2. ~Agrees(target'.inst) /\ \A k \in testcase : k < target'.inst => Agrees(k)
          BY <4>1, FirstDiffers
        <4>3. QED BY <2>1, <2>2, <2>3, <4>1, <4>2 DEF Repeated
      <3>4. CASE Converge \/ Finish \/ ExecuteFails \/ IoFails
        BY <3>4 DEF Repeated, Converge, Finish, ExecuteFails, IoFails, Return
      <3>5. CASE pc' = pc /\ outputs' = outputs /\ target' = target
        BY <2>1, <2>2, <2>3, <3>5 DEF Repeated
      <3>6. QED
        BY <1>3, <3>1, <3>2, <3>3, <3>4, <3>5 DEF Next, Progress, Done, vars
    <2>6. QED BY <2>4, <2>5
  <1>4. QED BY <1>1, <1>2, <1>3

(* With processors that repeat, once a write difference is removed no      *)
(* later round acts on anything before it, for testcases of any length.    *)
THEOREM NeverGoesBackHolds == Spec => []NeverGoesBack
  <1>1. ForwardInv => NeverGoesBack
    BY DEF ForwardInv, OnlyForward, NeverGoesBack
  <1>2. QED BY InitTyped, NextTyped, InitForward, NextForward, <1>1, PTL DEF Spec
=============================================================================

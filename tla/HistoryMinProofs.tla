-------------------------- MODULE HistoryMinProofs --------------------------
(***************************************************************************)
(* Theorems about HistoryMin, for every length of the history and every    *)
(* way the candidates may run.                                             *)
(***************************************************************************)
EXTENDS HistoryMin, FiniteSetTheorems, SequenceTheorems, WellFoundedInduction, TLAPS

(* An evaluation whose status agrees with its difference.                  *)
Showing == {"TargetHasDifference"} \cup Stopping
Sound(e) == /\ e \in Evaluation
            /\ e.status \in Showing => e.difference
            /\ e.status = "TargetNoDifference" => ~e.difference

(* Nothing is evaluated before the search.                                 *)
Fresh ==
  /\ pc \in {"replay", "minimize"} =>
       /\ DOMAIN cache = {} /\ cands = {}
       /\ good = 0 /\ bad = target + 1 /\ best = 0
  /\ pc \in {"replay", "minimize", "search", "searched", "conclude"} => final = {}
  /\ pc \in {"replay", "minimize", "search", "searched", "conclude"} => minimized = "none"

Evaluated == /\ \A s \in DOMAIN cache : Sound(cache[s])
             /\ pc \in {"search", "searched", "conclude"} => DOMAIN cache \subseteq cands

(* What is about to be concluded.                                          *)
Minimal(s) == s = target \/ (s + 1 \in DOMAIN cache /\ ~cache[s + 1].difference)
Conclusive ==
  pc \in {"searched", "conclude"} => /\ Reproduces(best) /\ best <= target
                                     /\ CutShort \/ Minimal(best)

IInv == /\ TypeOK /\ Fresh /\ Evaluated /\ Bracket /\ Conclusive
        /\ FinalReproduces /\ LocallyMinimal

-----------------------------------------------------------------------------
LEMMA TargetTyped ==
  ASSUME config \in Configs
  PROVE  target \in Indices /\ target \in Nat /\ config.len \in Nat
  <1>1. config \in ConfigType
    BY ConfigsAssumption
  <1>2. target \in Indices /\ config.len \in Nat
    BY <1>1 DEF ConfigType, target
  <1>3. QED BY <1>2, MaxTargetAssumption DEF Indices

(* What evaluate_history_candidate answers is sound.                       *)
LEMMA EvaluateSound ==
  ASSUME NEW rows, NEW last
  PROVE  Sound(Evaluate(rows, last))
  BY DEF Sound, Evaluate, StatusOf, Evaluation, Status, Showing, Stopping, WriteMismatch

LEMMA EvaluationsSound ==
  ASSUME Evaluated, NEW start, NEW e \in Evaluations(start)
  PROVE  Sound(e)
  <1>1. CASE start \in DOMAIN cache
    BY <1>1 DEF Evaluations, Evaluated
  <1>2. CASE start \notin DOMAIN cache
    BY <1>2, EvaluateSound DEF Evaluations
  <1>3. QED BY <1>1, <1>2

(* The effect of the cache update.                                         *)
LEMMA Recorded ==
  ASSUME NEW start, NEW e, Record(start, e)
  PROVE  /\ DOMAIN cache' = DOMAIN cache \cup {start}
         /\ cache'[start] = e
         /\ \A s \in DOMAIN cache : s # start => cache'[s] = cache[s]
         /\ cands' = cands \cup {start}
  BY DEF Record

(* The middle lies strictly inside the bracket.                            *)
LEMMA MidInside ==
  ASSUME good \in Nat, bad \in Nat, MoreToTry
  PROVE  mid \in Nat /\ good < mid /\ mid < bad
  BY DEF mid, MoreToTry

LEMMA InitIInv == Init => IInv
  <1> SUFFICES ASSUME Init PROVE IInv
    OBVIOUS
  <1>1. DOMAIN cache = {}
    <2>1. DOMAIN cache = 1..0
      BY EmptySeq, LenProperties DEF Init
    <2>2. QED BY <2>1
  <1>2. target \in Indices /\ target \in Nat
    BY TargetTyped DEF Init
  <1>3. bad = target + 1 /\ bad \in 0..MaxTarget + 1 /\ 0 \in Indices
    BY <1>2, MaxTargetAssumption DEF Init, InitialBad, target, Indices
  <1>4. TypeOK
    BY <1>1, <1>3 DEF Init, TypeOK, CauseType
  <1>5. Fresh /\ Evaluated /\ Bracket /\ Conclusive /\ FinalReproduces /\ LocallyMinimal
    BY <1>1, <1>3 DEF Init, Fresh, Evaluated, Bracket, Conclusive, FinalReproduces,
                      LocallyMinimal
  <1>6. QED BY <1>4, <1>5 DEF IInv

(* A step that evaluates no candidate and concludes nothing.               *)
Quiet == UNCHANGED <<config, cache, good, bad, best, cands, final>>

LEMMA QuietSteps ==
  ASSUME IInv, ReplayFails \/ Replay \/ SkipMinimization \/ Report \/ IoFails \/ UNCHANGED vars
  PROVE  IInv'
  <1>1. Quiet
    BY DEF Quiet, ReplayFails, Replay, SkipMinimization, Report, IoFails, vars
  <1>2. TypeOK'
    BY <1>1 DEF Quiet, IInv, TypeOK, CauseType, Return, ReplayFails, Replay,
                SkipMinimization, Report, IoFails, vars
  <1>3. /\ pc' \in {"search", "searched", "conclude"} => pc' = pc
        /\ pc' \in {"replay", "minimize"} => pc \in {"replay", "minimize"}
        /\ pc' \in {"replay", "minimize", "search", "searched", "conclude"} => minimized' = minimized
        /\ minimized' \in {minimized, "skipped"}
    BY DEF Return, ReplayFails, Replay, SkipMinimization, Report, IoFails, vars
  <1>4. Fresh' /\ Evaluated'
    BY <1>1, <1>3 DEF Quiet, IInv, Fresh, Evaluated, target, Sound
  <1>5. Bracket' /\ FinalReproduces'
    BY <1>1, <1>3 DEF Quiet, IInv, Bracket, Shows, FinalReproduces, Reproduces, target
  <1>6. CutShort' = CutShort
    BY <1>1 DEF Quiet, CutShort
  <1>7. Conclusive'
    BY <1>1, <1>3, <1>6 DEF Quiet, IInv, Conclusive, Minimal, Reproduces, target
  <1>8. LocallyMinimal'
    BY <1>1, <1>3, <1>6 DEF Quiet, IInv, LocallyMinimal, target
  <1>9. QED BY <1>2, <1>4, <1>5, <1>7, <1>8 DEF IInv

LEMMA StartStep ==
  ASSUME IInv, EvaluateStart
  PROVE  IInv'
  <1>1. PICK e \in Evaluations(0) :
          /\ Record(0, e)
          /\ \/ e.status = "TargetHasDifference" /\ pc' = "search" /\ UNCHANGED <<cause, minimized>>
             \/ e.status \in Stopping /\ pc' = "conclude" /\ UNCHANGED <<cause, minimized>>
             \/ e.status = "TargetNoDifference" /\ GiveUp("startLost")
             \/ e.status \in NonTarget /\ GiveUp("failed")
    BY DEF EvaluateStart
  <1>2. /\ pc = "minimize" /\ UNCHANGED <<config, result, good, bad, best, final>>
        /\ DOMAIN cache = {} /\ cands = {} /\ final = {} /\ minimized = "none"
        /\ good = 0 /\ bad = target + 1 /\ best = 0
    BY DEF EvaluateStart, IInv, Fresh
  <1>3. Sound(e)
    BY <1>1, EvaluationsSound DEF IInv
  <1>4. /\ DOMAIN cache' = {0} /\ cache'[0] = e /\ cands' = {0}
    BY <1>1, <1>2, Recorded
  <1>5. /\ target \in Indices /\ target \in Nat /\ target' = target
        /\ 0 \in Indices
    BY <1>2, TargetTyped, MaxTargetAssumption DEF IInv, TypeOK, target, Indices
  <1>6. pc' \in {"search", "conclude", "report"} /\ (pc' # "report" => minimized' = "none")
    BY <1>1, <1>2 DEF GiveUp
  <1>7. TypeOK'
    BY <1>1, <1>2, <1>3, <1>4, <1>5 DEF IInv, TypeOK, GiveUp, Sound, CauseType
  <1>8. Fresh' /\ Evaluated'
    BY <1>2, <1>3, <1>4, <1>6 DEF Fresh, Evaluated, Sound
  <1>9. Bracket'
    BY <1>1, <1>2, <1>4, <1>5 DEF Bracket, Shows, GiveUp, Stopping, target
  <1>10. Conclusive'
    <2>1. SUFFICES ASSUME pc' \in {"searched", "conclude"}
                   PROVE  Reproduces(best)' /\ best' <= target' /\ CutShort'
      BY DEF Conclusive
    <2>2. e.status \in Stopping
      BY <1>1, <2>1 DEF GiveUp
    <2>3. CutShort'
      BY <1>4, <2>2 DEF CutShort
    <2>4. Reproduces(best)'
      BY <1>2, <1>3, <1>4, <2>2 DEF Reproduces, Sound, Showing
    <2>5. QED BY <1>2, <1>5, <2>3, <2>4
  <1>11. FinalReproduces' /\ LocallyMinimal'
    BY <1>1, <1>2 DEF FinalReproduces, LocallyMinimal, GiveUp
  <1>12. QED BY <1>7, <1>8, <1>9, <1>10, <1>11 DEF IInv

LEMMA SearchSteps ==
  ASSUME IInv, SearchStep
  PROVE  IInv' /\ best' >= best
  <1>1. PICK e \in Evaluations(mid) :
          /\ Record(mid, e)
          /\ \/ Narrow(e.status) /\ UNCHANGED <<pc, minimized, cause>>
             \/ /\ e.status \in Stopping
                /\ best' = IF e.difference THEN mid ELSE best
                /\ pc' = "searched" /\ UNCHANGED <<good, bad, minimized, cause>>
             \/ /\ e.status \in NonTarget
                /\ IF cache[best].difference
                   THEN pc' = "conclude" /\ UNCHANGED <<minimized, cause>>
                   ELSE GiveUp("failed")
                /\ UNCHANGED <<good, bad, best>>
    BY DEF SearchStep
  <1>2. /\ pc = "search" /\ MoreToTry /\ UNCHANGED <<config, result, final>>
        /\ final = {} /\ minimized = "none"
    BY DEF SearchStep, IInv, Fresh
  <1>3. Sound(e)
    BY <1>1, EvaluationsSound DEF IInv
  <1>4. /\ target \in Indices /\ target \in Nat /\ target' = target
        /\ Indices = 0..MaxTarget /\ MaxTarget \in Nat
    BY <1>2, TargetTyped, MaxTargetAssumption DEF IInv, TypeOK, target, Indices
  <1>5. /\ good \in Nat /\ bad \in Nat /\ good < bad /\ bad <= target + 1
        /\ Shows(good) /\ best = good
        /\ bad <= target => bad \in DOMAIN cache /\ cache[bad].status = "TargetNoDifference"
        /\ \A s \in DOMAIN cache : s <= good \/ s >= bad
    BY <1>2, <1>4 DEF IInv, Bracket, TypeOK
  <1>6. /\ mid \in Nat /\ good < mid /\ mid < bad /\ mid \in Indices
        /\ mid \notin DOMAIN cache /\ mid <= target
    <2>1. mid \in Nat /\ good < mid /\ mid < bad
      BY <1>2, <1>5, MidInside
    <2>2. mid <= target /\ mid \in Indices
      BY <1>4, <1>5, <2>1
    <2>3. mid \notin DOMAIN cache
      BY <1>5, <2>1
    <2>4. QED BY <2>1, <2>2, <2>3
  <1>7. /\ DOMAIN cache' = DOMAIN cache \cup {mid} /\ cache'[mid] = e
        /\ \A s \in DOMAIN cache : cache'[s] = cache[s]
        /\ cands' = cands \cup {mid}
    BY <1>1, <1>6, Recorded
  <1>8. /\ good' \in {good, mid} /\ bad' \in {bad, mid} /\ best' \in {best, mid}
        /\ pc' \in {"search", "searched", "conclude", "report"}
        /\ pc' # "report" => minimized' = "none"
        /\ minimized' \in {"none", "failed"}
        /\ cause' \in {cause, "SingleInstruction"}
    BY <1>1, <1>2 DEF Narrow, GiveUp
  <1>9. TypeOK'
    <2>1. DOMAIN cache' \subseteq Indices /\ cands' \subseteq Indices
      BY <1>6, <1>7 DEF IInv, TypeOK
    <2>2. \A s \in DOMAIN cache' : cache'[s] \in Evaluation
      BY <1>3, <1>7 DEF IInv, TypeOK, Sound
    <2>3. good' \in Indices /\ bad' \in 0..MaxTarget + 1 /\ best' \in Indices
      BY <1>4, <1>6, <1>8 DEF IInv, TypeOK
    <2>4. QED BY <1>2, <1>8, <2>1, <2>2, <2>3 DEF IInv, TypeOK, CauseType
  <1>10. Fresh'
    BY <1>2, <1>8 DEF Fresh
  <1>11. Evaluated'
    BY <1>2, <1>3, <1>7 DEF IInv, Evaluated, Sound
  <1>12. Bracket'
    <2>1. SUFFICES ASSUME pc' = "search"
                   PROVE  /\ good' < bad' /\ bad' <= target + 1
                          /\ Shows(good)' /\ best' = good'
                          /\ bad' <= target => /\ bad' \in DOMAIN cache'
                                               /\ cache'[bad'].status = "TargetNoDifference"
                          /\ \A s \in DOMAIN cache' : s <= good' \/ s >= bad'
      BY <1>4 DEF Bracket
    <2>2. Narrow(e.status)
      BY <1>1, <2>1 DEF GiveUp
    <2>3. CASE e.status = "TargetHasDifference" /\ good' = mid /\ best' = mid /\ bad' = bad
      <3>1. Shows(good)'
        BY <1>7, <2>3 DEF Shows
      <3>2. \A s \in DOMAIN cache' : s <= good' \/ s >= bad'
        <4>1. SUFFICES ASSUME NEW s \in DOMAIN cache' PROVE s <= good' \/ s >= bad'
          OBVIOUS
        <4>2. CASE s = mid
          BY <1>6, <2>3, <4>2
        <4>3. CASE s \in DOMAIN cache
          <5>1. s \in Nat /\ (s <= good \/ s >= bad)
            BY <1>4, <1>5, <4>3 DEF IInv, TypeOK
          <5>2. QED BY <1>5, <1>6, <2>3, <5>1
        <4>4. QED BY <1>7, <4>2, <4>3
      <3>3. bad' <= target => bad' \in DOMAIN cache' /\ cache'[bad'].status = "TargetNoDifference"
        BY <1>5, <1>7, <2>3
      <3>4. QED BY <1>5, <1>6, <2>3, <3>1, <3>2, <3>3
    <2>4. CASE e.status = "TargetNoDifference" /\ bad' = mid /\ UNCHANGED <<good, best>>
      <3>1. Shows(good)'
        BY <1>5, <1>7, <2>4 DEF Shows
      <3>2. \A s \in DOMAIN cache' : s <= good' \/ s >= bad'
        <4>1. SUFFICES ASSUME NEW s \in DOMAIN cache' PROVE s <= good' \/ s >= bad'
          OBVIOUS
        <4>2. CASE s = mid
          BY <1>6, <2>4, <4>2
        <4>3. CASE s \in DOMAIN cache
          <5>1. s \in Nat /\ (s <= good \/ s >= bad)
            BY <1>4, <1>5, <4>3 DEF IInv, TypeOK
          <5>2. QED BY <1>5, <1>6, <2>4, <5>1
        <4>4. QED BY <1>7, <4>2, <4>3
      <3>3. mid \in DOMAIN cache' /\ cache'[mid].status = "TargetNoDifference"
        BY <1>7, <2>4
      <3>4. QED BY <1>4, <1>5, <1>6, <2>4, <3>1, <3>2, <3>3
    <2>5. QED BY <2>2, <2>3, <2>4 DEF Narrow
  <1>13. Conclusive'
    <2>1. SUFFICES ASSUME pc' \in {"searched", "conclude"}
                   PROVE  Reproduces(best)' /\ best' <= target' /\ CutShort'
      BY DEF Conclusive
    <2>2. e.status \in Stopping \cup NonTarget
      BY <1>1, <1>2, <2>1 DEF GiveUp
    <2>3. CutShort'
      BY <1>7, <2>2 DEF CutShort
    <2>4. best' <= target'
      BY <1>4, <1>5, <1>6, <1>8
    <2>5. CASE e.status \in Stopping
      <3>1. e.difference
        BY <1>3, <2>5 DEF Sound, Showing
      <3>2. best' = mid
        BY <1>1, <1>2, <2>1, <2>5, <3>1 DEF NonTarget, Stopping, Narrow
      <3>3. QED BY <1>7, <2>3, <2>4, <2>5, <3>1, <3>2 DEF Reproduces
    <2>6. CASE e.status \in NonTarget
      <3>1. best' = best /\ best \in DOMAIN cache /\ cache[best].status = "TargetHasDifference"
        BY <1>1, <1>2, <1>5, <2>1, <2>6 DEF NonTarget, Stopping, Narrow, Shows
      <3>2. cache[best].difference
        BY <3>1 DEF IInv, Evaluated, Sound, Showing
      <3>3. QED BY <1>7, <2>3, <2>4, <3>1, <3>2 DEF Reproduces
    <2>7. QED BY <2>2, <2>5, <2>6
  <1>14. FinalReproduces' /\ LocallyMinimal'
    BY <1>2, <1>8 DEF FinalReproduces, LocallyMinimal
  <1>15. best' >= best
    BY <1>5, <1>6, <1>8
  <1>16. QED BY <1>9, <1>10, <1>11, <1>12, <1>13, <1>14, <1>15 DEF IInv

(* The bracket has closed: its upper end lost the difference.              *)
LEMMA SearchEnding ==
  ASSUME IInv, SearchEnds
  PROVE  IInv'
  <1>1. /\ pc = "search" /\ ~MoreToTry /\ pc' = "searched"
        /\ UNCHANGED <<config, cause, result, minimized, cache, good, bad, best,
                       cands, final>>
    BY DEF SearchEnds
  <1>2. /\ target \in Nat /\ good \in Nat /\ bad \in Nat
        /\ good < bad /\ bad <= target + 1 /\ Shows(good) /\ best = good
        /\ bad <= target => bad \in DOMAIN cache /\ cache[bad].status = "TargetNoDifference"
    BY <1>1, TargetTyped, MaxTargetAssumption DEF IInv, TypeOK, Bracket, Indices
  <1>3. bad = good + 1
    BY <1>1, <1>2 DEF MoreToTry
  <1>4. Minimal(best)
    BY <1>2, <1>3 DEF Minimal, IInv, Evaluated, Sound
  <1>5. Reproduces(best) /\ best <= target
    BY <1>2, <1>3 DEF Reproduces, Shows, IInv, Evaluated, Sound, Showing
  <1>6. TypeOK' /\ Fresh' /\ Evaluated' /\ Bracket'
    BY <1>1 DEF IInv, TypeOK, Fresh, Evaluated, Bracket, target, Sound
  <1>7. Conclusive'
    BY <1>1, <1>4, <1>5 DEF Conclusive, Minimal, Reproduces, target
  <1>8. FinalReproduces' /\ LocallyMinimal'
    BY <1>1 DEF IInv, Fresh, FinalReproduces, LocallyMinimal
  <1>9. QED BY <1>6, <1>7, <1>8 DEF IInv

(* The check after the loop always passes.                                 *)
LEMMA SearchedStep ==
  ASSUME IInv, Searched
  PROVE  IInv'
  <1>1. Reproduces(best) /\ pc = "searched"
    BY DEF IInv, Conclusive, Searched
  <1>2. /\ pc' = "conclude"
        /\ UNCHANGED <<config, cause, result, minimized, cache, good, bad, best,
                       cands, final>>
    BY <1>1 DEF Searched, Reproduces
  <1>3. TypeOK' /\ Fresh' /\ Evaluated' /\ Bracket'
    BY <1>1, <1>2 DEF IInv, TypeOK, Fresh, Evaluated, Bracket, target, Sound
  <1>4. Conclusive'
    BY <1>1, <1>2 DEF IInv, Conclusive, CutShort, Minimal, Reproduces, target
  <1>5. FinalReproduces' /\ LocallyMinimal'
    BY <1>1, <1>2 DEF IInv, Fresh, FinalReproduces, LocallyMinimal
  <1>6. QED BY <1>3, <1>4, <1>5 DEF IInv

(* A candidate that cannot be evaluated ends the search, nothing else.     *)
LEMMA CandidateFailing ==
  ASSUME IInv, CandidateFails
  PROVE  IInv'
  <1>1. /\ pc \in {"minimize", "search"} /\ pc' = "report" /\ minimized' = "failed"
        /\ cause' = cause
        /\ UNCHANGED <<config, result, cache, good, bad, best, final>>
        /\ \E start \in Indices : cands' \in {cands, cands \cup {start}}
    BY DEF CandidateFails, GiveUp
  <1>2. cands' \subseteq Indices
    BY <1>1 DEF IInv, TypeOK
  <1>3. TypeOK'
    BY <1>1, <1>2 DEF IInv, TypeOK
  <1>4. Fresh' /\ Evaluated' /\ Bracket' /\ Conclusive' /\ FinalReproduces' /\ LocallyMinimal'
    BY <1>1 DEF IInv, Fresh, Evaluated, Bracket, Conclusive, FinalReproduces,
                LocallyMinimal, Sound
  <1>5. QED BY <1>3, <1>4 DEF IInv

(* Concluding keeps the best candidate, whatever goes wrong on the way.    *)
LEMMA Concluding ==
  ASSUME IInv, Conclude \/ ConcludeFails
  PROVE  IInv'
  <1>1. /\ pc = "conclude" /\ pc' = "report"
        /\ minimized' \in {"concluded", "failed"} /\ cause' = cause
        /\ UNCHANGED <<config, result, cache, good, bad, best>>
        /\ final' \in {{}, {best}}
        /\ \E gone \in SUBSET Discarded : cands' = cands \ gone
    BY DEF Conclude, ConcludeFails, GiveUp
  <1>2. /\ Reproduces(best) /\ best <= target
        /\ CutShort \/ Minimal(best)
        /\ best \in cands
    BY <1>1 DEF IInv, Conclusive, Reproduces, Evaluated
  <1>3. best \in cands' /\ cands' \subseteq cands
    BY <1>1, <1>2 DEF Discarded
  <1>4. TypeOK'
    BY <1>1, <1>3 DEF IInv, TypeOK
  <1>5. Fresh' /\ Evaluated' /\ Bracket' /\ Conclusive'
    BY <1>1 DEF IInv, Fresh, Evaluated, Bracket, Conclusive, Sound
  <1>6. FinalReproduces'
    BY <1>1, <1>2, <1>3 DEF FinalReproduces, Reproduces, target
  <1>7. LocallyMinimal'
    BY <1>1, <1>2 DEF LocallyMinimal, CutShort, Minimal, target
  <1>8. QED BY <1>4, <1>5, <1>6, <1>7 DEF IInv

LEMMA NextIInv == IInv /\ [Next]_vars => IInv'
  <1> SUFFICES ASSUME IInv, [Next]_vars PROVE IInv'
    OBVIOUS
  <1>1. CASE ReplayFails \/ Replay \/ SkipMinimization \/ Report \/ IoFails \/ UNCHANGED vars
    BY <1>1, QuietSteps
  <1>2. CASE EvaluateStart
    BY <1>2, StartStep
  <1>3. CASE SearchStep
    BY <1>3, SearchSteps
  <1>4. CASE SearchEnds
    BY <1>4, SearchEnding
  <1>5. CASE CandidateFails
    BY <1>5, CandidateFailing
  <1>6. CASE Conclude \/ ConcludeFails
    BY <1>6, Concluding
  <1>7. CASE Searched
    BY <1>7, SearchedStep
  <1>8. QED
    BY <1>1, <1>2, <1>3, <1>4, <1>5, <1>6, <1>7 DEF Next, Progress, Failure, Done

LEMMA Invariance == Spec => []IInv
  BY InitIInv, NextIInv, PTL DEF Spec

(* The classification keeps its variables in their types.                  *)
THEOREM TypeCorrect == Spec => []TypeOK
  BY Invariance, PTL DEF IInv

(* The search is a binary search: no candidate is run twice, and the best  *)
(* start so far shows the difference.                                      *)
THEOREM BracketHolds == Spec => []Bracket
  BY Invariance, PTL DEF IInv

(* The reproducer handed out was run and did show the difference; its      *)
(* candidate survives the cleanup.                                         *)
THEOREM ReproducerHolds == Spec => []FinalReproduces
  BY Invariance, PTL DEF IInv

(* A search that is not cut short ends where one instruction less of       *)
(* history loses the difference.                                           *)
THEOREM MinimalityHolds == Spec => []LocallyMinimal
  BY Invariance, PTL DEF IInv

(* The best start never moves back.                                        *)
THEOREM BestImproves == Spec => BestOnlyImproves
  <1>1. IInv /\ [Next]_vars => [best' >= best]_best
    <2> SUFFICES ASSUME IInv, [Next]_vars, best' # best PROVE best' >= best
      OBVIOUS
    <2>1. SearchStep
      BY DEF Next, Progress, Failure, Done, vars, ReplayFails, Replay, SkipMinimization,
         Report, IoFails, EvaluateStart, SearchEnds, Searched, CandidateFails, Conclude, ConcludeFails,
         GiveUp
    <2>2. QED BY <2>1, SearchSteps
  <1>2. QED BY Invariance, <1>1, PTL DEF Spec, BestOnlyImproves

(* Whatever the candidates show, a reproducer that is handed out was run,  *)
(* reproduced and is minimal, by a search that keeps its bracket.          *)
THEOREM MinimalReproducerHolds == Spec => []MinimalReproducer
  BY BracketHolds, ReproducerHolds, MinimalityHolds, PTL DEF MinimalReproducer

-----------------------------------------------------------------------------
(* Processors that repeat.                                                 *)

(* What is in the cache is what the processor shows.                       *)
Truthful ==
  \A s \in DOMAIN cache :
    s <= target /\ \A cpu \in config.cpu : cache[s] = Evaluate(WindowOf(cpu, s), target)

LEMMA InitTruthful == Init => Truthful
  <1> SUFFICES ASSUME Init PROVE Truthful
    OBVIOUS
  <1>1. DOMAIN cache = 1..0
    BY EmptySeq, LenProperties DEF Init
  <1>2. QED BY <1>1 DEF Truthful

LEMMA RecordsTruth ==
  ASSUME IInv, Truthful, NEW start \in Nat, start <= target, NEW e \in Evaluations(start),
         Record(start, e), config' = config
  PROVE  Truthful'
  <1>1. \A p, q \in config.cpu : p = q
    BY ConfigsAssumption DEF IInv, TypeOK
  <1>2. \A cpu \in config.cpu : e = Evaluate(WindowOf(cpu, start), target)
    <2>1. CASE start \in DOMAIN cache
      BY <2>1 DEF Evaluations, Truthful
    <2>2. CASE start \notin DOMAIN cache
      <3>1. SUFFICES ASSUME NEW cpu \in config.cpu
                     PROVE  e = Evaluate(WindowOf(cpu, start), target)
        OBVIOUS
      <3>2. e \in { Evaluate(rows, target) : rows \in Windows(start) }
        BY <2>2 DEF Evaluations
      <3>3. Windows(start) = { WindowOf(p, start) : p \in config.cpu }
        BY <3>1 DEF Windows
      <3>4. PICK p \in config.cpu : e = Evaluate(WindowOf(p, start), target)
        BY <3>2, <3>3
      <3>5. QED BY <1>1, <3>1, <3>4
    <2>3. QED BY <2>1, <2>2
  <1>3. /\ DOMAIN cache' = DOMAIN cache \cup {start} /\ cache'[start] = e
        /\ \A s \in DOMAIN cache : s # start => cache'[s] = cache[s]
    BY Recorded
  <1>4. target' = target /\ \A cpu, s : WindowOf(cpu, s)' = WindowOf(cpu, s)
    BY DEF target, WindowOf
  <1>5. SUFFICES ASSUME NEW s \in DOMAIN cache', NEW cpu \in config.cpu
                 PROVE  cache'[s] = Evaluate(WindowOf(cpu, s), target)
    <2>1. \A s \in DOMAIN cache' : s <= target
      BY <1>3 DEF Truthful
    <2>2. QED BY <1>4, <1>5, <2>1 DEF Truthful
  <1>6. QED BY <1>2, <1>3, <1>5 DEF Truthful

LEMMA NextTruthful == IInv /\ Truthful /\ [Next]_vars => Truthful'
  <1> SUFFICES ASSUME IInv, Truthful, [Next]_vars PROVE Truthful'
    OBVIOUS
  <1>1. CASE EvaluateStart
    <2>1. PICK e \in Evaluations(0) : Record(0, e)
      BY <1>1 DEF EvaluateStart
    <2>2. config' = config /\ 0 <= target
      BY <1>1, TargetTyped DEF EvaluateStart, IInv, TypeOK
    <2>3. QED BY <2>1, <2>2, RecordsTruth
  <1>2. CASE SearchStep
    <2>1. PICK e \in Evaluations(mid) : Record(mid, e)
      BY <1>2 DEF SearchStep
    <2>2. config' = config /\ pc = "search" /\ MoreToTry
      BY <1>2 DEF SearchStep
    <2>3. good \in Nat /\ bad \in Nat /\ target \in Nat /\ bad <= target + 1
      BY <2>2, TargetTyped, MaxTargetAssumption DEF IInv, TypeOK, Bracket, Indices
    <2>4. mid \in Nat /\ mid <= target
      BY <2>2, <2>3, MidInside
    <2>5. QED BY <2>1, <2>2, <2>4, RecordsTruth
  <1>3. CASE config' = config /\ cache' = cache
    BY <1>3 DEF Truthful, target, WindowOf
  <1>4. QED
    BY <1>1, <1>2, <1>3 DEF Next, Progress, Failure, Done, vars, ReplayFails, Replay,
       SkipMinimization, Report, IoFails, SearchEnds, Searched, CandidateFails, Conclude,
       ConcludeFails, GiveUp

(* On a processor that repeats, and on which the difference is lost for    *)
(* good from some start on, the binary search ends at the last start that  *)
(* shows it, for testcases of any length.                                  *)
THEOREM LastStartFound == Spec => []FindsTheLast
  <1>1. IInv /\ Truthful => FindsTheLast
    <2>1. SUFFICES ASSUME IInv, Truthful, NEW cpu \in config.cpu,
                          minimized = "concluded", Monotone(cpu), NEW s \in final, s # target
                   PROVE  ~ShowsFrom(cpu, s + 1)
      BY DEF FindsTheLast
    <2>2. \A k \in DOMAIN cache :
            k \in 0..target /\ cache[k].status = StatusOf(WindowOf(cpu, k), target)
            /\ cache[k].difference = WriteMismatch(Group, WindowOf(cpu, k)[target])
      <3>1. \A k \in DOMAIN cache : k \in 0..target
        BY <2>1, TargetTyped, MaxTargetAssumption DEF IInv, TypeOK, Truthful, Indices
      <3>2. QED BY <2>1, <3>1 DEF Truthful, Evaluate
    <2>3. ~CutShort
      BY <2>1, <2>2 DEF CutShort, Monotone, Stopping, NonTarget
    <2>4. s + 1 \in DOMAIN cache /\ ~cache[s + 1].difference
      BY <2>1, <2>3 DEF IInv, LocallyMinimal
    <2>5. ~WriteMismatch(Group, WindowOf(cpu, s + 1)[target])
      BY <2>2, <2>4
    <2>6. StatusOf(WindowOf(cpu, s + 1), target) # "TargetHasDifference"
      BY <2>5 DEF StatusOf
    <2>7. QED BY <2>6 DEF ShowsFrom
  <1>2. QED BY InitTruthful, NextTruthful, Invariance, <1>1, PTL DEF Spec

-----------------------------------------------------------------------------
(* The number of candidates.                                               *)

(* Sets of natural numbers have a least element.                           *)
LEMMA LeastNumber ==
  ASSUME NEW T \in SUBSET Nat, T # {}
  PROVE  \E x \in T : \A y \in T : x <= y
  <1> DEFINE R == OpToRel(<, Nat)
  <1>1. IsWellFoundedOn(R, Nat)
    BY NatLessThanWellFounded
  <1>2. PICK x \in T : \A y \in T : ~(<<y, x>> \in R)
    <2> HIDE DEF R
    <2>1. QED BY <1>1, WFMin
  <1>3. \A y \in T : ~(y < x)
    BY <1>2 DEF OpToRel
  <1>4. QED BY <1>3

(* A set with 0 and the successors of its numbers holds all numbers.       *)
LEMMA Induction ==
  ASSUME NEW T, 0 \in T, \A n \in Nat : n \in T => n + 1 \in T
  PROVE  \A n \in Nat : n \in T
  <1> DEFINE Missing == Nat \ T
  <1> SUFFICES ASSUME Missing # {} PROVE FALSE
    OBVIOUS
  <1>1. PICK x \in Missing : \A y \in Missing : x <= y
    <2>1. Missing \in SUBSET Nat
      OBVIOUS
    <2> HIDE DEF Missing
    <2>2. QED BY <2>1, LeastNumber
  <1>2. x \in Nat /\ x \notin T
    OBVIOUS
  <1>3. x # 0
    BY <1>2
  <1>4. x - 1 \in Nat /\ ~(x <= x - 1)
    BY <1>2, <1>3
  <1>5. x - 1 \in T
    BY <1>1, <1>4
  <1>6. (x - 1) + 1 \in T
    BY <1>4, <1>5
  <1>7. QED BY <1>2, <1>6

(* The recursion of PowerOfTwo has a solution.                             *)
LEMMA PowerExists ==
  ASSUME NEW n \in Nat
  PROVE  \E f : f = [k \in 0..n |-> IF k = 0 THEN 1 ELSE 2 * f[k - 1]]
  <1> DEFINE Solved(m) == \E f : f = [k \in 0..m |-> IF k = 0 THEN 1 ELSE 2 * f[k - 1]]
             T         == {m \in Nat : Solved(m)}
  <1>1. 0 \in T
    <2>1. [k \in 0..0 |-> 1]
            = [k \in 0..0 |-> IF k = 0 THEN 1 ELSE 2 * [i \in 0..0 |-> 1][k - 1]]
      OBVIOUS
    <2>2. QED BY <2>1
  <1>2. ASSUME NEW m \in Nat, m \in T PROVE m + 1 \in T
    <2>1. PICK f : f = [k \in 0..m |-> IF k = 0 THEN 1 ELSE 2 * f[k - 1]]
      BY <1>2
    <2> DEFINE g == [k \in 0..m |-> IF k = 0 THEN 1 ELSE 2 * f[k - 1]]
               u == [k \in 0..m + 1 |-> IF k = 0 THEN 1 ELSE 2 * f[k - 1]]
    <2>2. \A k \in 0..m : u[k] = g[k]
      OBVIOUS
    <2>3. \A k \in 0..m : u[k] = f[k]
      <3> HIDE DEF u
      <3>1. QED BY <2>1, <2>2
    <2>4. \A k \in 0..m + 1 : u[k] = IF k = 0 THEN 1 ELSE 2 * u[k - 1]
      <3> SUFFICES ASSUME NEW k \in 0..m + 1, k # 0 PROVE u[k] = 2 * u[k - 1]
        OBVIOUS
      <3>1. k - 1 \in 0..m
        OBVIOUS
      <3>2. u[k] = 2 * f[k - 1]
        OBVIOUS
      <3> HIDE DEF u
      <3>3. QED BY <2>3, <3>1, <3>2
    <2>5. u = [k \in 0..m + 1 |-> u[k]]
      OBVIOUS
    <2> HIDE DEF u
    <2>6. u = [k \in 0..m + 1 |-> IF k = 0 THEN 1 ELSE 2 * u[k - 1]]
      BY <2>4, <2>5
    <2>7. Solved(m + 1)
      BY <2>6
    <2> HIDE DEF Solved
    <2>8. QED BY <2>7
  <1> HIDE DEF T
  <1>3. n \in T
    BY <1>1, <1>2, Induction
  <1>4. QED BY <1>3 DEF T

(* What the proofs use of it.                                              *)
LEMMA PowerDoubles ==
  /\ PowerOfTwo[0] = 1
  /\ \A k \in Indices : k # 0 => k - 1 \in Indices /\ PowerOfTwo[k] = 2 * PowerOfTwo[k - 1]
  /\ \A k \in Indices : PowerOfTwo[k] \in Nat
  <1>1. MaxTarget \in Nat /\ Indices = 0..MaxTarget
    BY MaxTargetAssumption DEF Indices
  <1>2. PowerOfTwo = [k \in Indices |-> IF k = 0 THEN 1 ELSE 2 * PowerOfTwo[k - 1]]
    <2>1. \E f : f = [k \in Indices |-> IF k = 0 THEN 1 ELSE 2 * f[k - 1]]
      BY <1>1, PowerExists
    <2>2. QED BY <2>1 DEF PowerOfTwo
  <1>3. PowerOfTwo[0] = 1
    BY <1>1, <1>2
  <1>4. \A k \in Indices : k # 0 => k - 1 \in Indices /\ PowerOfTwo[k] = 2 * PowerOfTwo[k - 1]
    BY <1>1, <1>2
  <1> DEFINE T == {k \in Nat : k \in Indices => PowerOfTwo[k] \in Nat}
  <1>5. 0 \in T
    BY <1>3
  <1>6. ASSUME NEW k \in Nat, k \in T PROVE k + 1 \in T
    <2>1. CASE k + 1 \in Indices
      <3>1. k \in Indices /\ k + 1 # 0 /\ (k + 1) - 1 = k
        BY <1>1, <1>6, <2>1
      <3>2. PowerOfTwo[k] \in Nat /\ PowerOfTwo[k + 1] = 2 * PowerOfTwo[k]
        BY <1>4, <1>6, <2>1, <3>1
      <3>3. QED BY <1>6, <3>2
    <2>2. QED BY <1>6, <2>1
  <1>7. \A k \in Nat : k \in T
    <2> HIDE DEF T
    <2>1. QED BY <1>5, <1>6, Induction
  <1>8. \A k \in Indices : PowerOfTwo[k] \in Nat
    BY <1>1, <1>7
  <1>9. QED BY <1>3, <1>4, <1>8

Runs  == Cardinality(DOMAIN cache)
Width == bad - good - 1

(* Every candidate run so far has halved what is left between the bounds.  *)
Halving ==
  /\ pc = "search" => Runs >= 1 /\ PowerOfTwo[Runs - 1] * Width <= target
  /\ Logarithmic

LEMMA RunsCounted ==
  ASSUME NEW D \in SUBSET Indices
  PROVE  /\ IsFiniteSet(D) /\ Cardinality(D) \in Nat
         /\ Cardinality(D) >= 1 => Cardinality(D) - 1 \in Indices
  <1>1. MaxTarget \in Nat /\ Indices = 0..MaxTarget
    BY MaxTargetAssumption DEF Indices
  <1>2. IsFiniteSet(Indices) /\ Cardinality(Indices) = MaxTarget + 1
    BY <1>1, FS_Interval
  <1>3. IsFiniteSet(D) /\ Cardinality(D) <= MaxTarget + 1 /\ Cardinality(D) \in Nat
    BY <1>2, FS_Subset, FS_CardinalityType
  <1>4. QED BY <1>1, <1>3

(* Half of what was left is left on either side of the middle.             *)
LEMMA Halves ==
  ASSUME good \in Nat, bad \in Nat, MoreToTry
  PROVE  2 * (mid - good - 1) <= Width /\ 2 * (bad - mid - 1) <= Width
  BY DEF mid, MoreToTry, Width

LEMMA ProductMonotone ==
  ASSUME NEW p \in Nat, NEW a \in Nat, NEW b \in Nat, a <= b
  PROVE  p * a <= p * b
  <1>1. b - a \in Nat
    OBVIOUS
  <1>2. p * (b - a) \in Nat
    BY <1>1
  <1>3. p * (b - a) = p * b - p * a
    OBVIOUS
  <1>4. p * a \in Nat /\ p * b \in Nat
    OBVIOUS
  <1>5. QED BY <1>2, <1>3, <1>4

LEMMA ProductHalved ==
  ASSUME NEW p \in Nat, NEW a \in Nat, NEW b \in Nat, NEW t \in Nat, 2 * a <= b, p * b <= t
  PROVE  (2 * p) * a <= t
  <1>1. 2 * a \in Nat /\ p * (2 * a) <= p * b
    BY ProductMonotone
  <1>2. (2 * p) * a = p * (2 * a)
    OBVIOUS
  <1>3. p * (2 * a) \in Nat /\ p * b \in Nat
    BY <1>1
  <1>4. QED BY <1>1, <1>2, <1>3

LEMMA InitHalving == Init => Halving
  <1> SUFFICES ASSUME Init PROVE Halving
    OBVIOUS
  <1>1. DOMAIN cache = {}
    BY InitIInv DEF IInv, Fresh, Init
  <1>2. Cardinality(DOMAIN cache) = 0
    BY <1>1, FS_EmptySet
  <1>3. pc = "replay"
    BY DEF Init
  <1>4. QED BY <1>2, <1>3 DEF Halving, Logarithmic

LEMMA NextHalving == IInv /\ Halving /\ [Next]_vars => Halving'
  <1> SUFFICES ASSUME IInv, Halving, [Next]_vars PROVE Halving'
    OBVIOUS
  <1>0. target \in Nat
    BY TargetTyped DEF IInv, TypeOK
  <1>1. CASE EvaluateStart
    <2>1. PICK e \in Evaluations(0) : Record(0, e)
      BY <1>1 DEF EvaluateStart
    <2>2. /\ config' = config /\ good' = good /\ bad' = bad
          /\ DOMAIN cache = {} /\ good = 0 /\ bad = target + 1
      BY <1>1 DEF EvaluateStart, IInv, Fresh
    <2>3. DOMAIN cache' = {0}
      BY <2>1, <2>2, Recorded
    <2>4. Cardinality({0}) = 1
      BY FS_Singleton, Zenon
    <2>5. Runs' = 1 /\ Width' = target /\ target' = target
      BY <1>0, <2>2, <2>3, <2>4 DEF Runs, Width, target
    <2>6. PowerOfTwo[Runs' - 1] = 1
      BY <2>5, PowerDoubles
    <2>7. PowerOfTwo[Runs' - 1] * Width' <= target'
      BY <1>0, <2>5, <2>6
    <2>8. Logarithmic'
      BY <1>0, <2>5, <2>6 DEF Logarithmic, Runs
    <2>9. QED BY <2>5, <2>7, <2>8 DEF Halving
  <1>2. CASE SearchStep
    <2>1. PICK e \in Evaluations(mid) :
            /\ Record(mid, e)
            /\ pc' = "search" => \/ good' = mid /\ bad' = bad
                                 \/ bad' = mid /\ good' = good
      BY <1>2 DEF SearchStep, Narrow, GiveUp
    <2>2. pc = "search" /\ MoreToTry /\ config' = config
      BY <1>2 DEF SearchStep
    <2>3. /\ good \in Nat /\ bad \in Nat /\ good < bad
          /\ \A s \in DOMAIN cache : s <= good \/ s >= bad
      BY <2>2, MaxTargetAssumption DEF IInv, TypeOK, Bracket, Indices
    <2>4. mid \in Nat /\ good < mid /\ mid < bad
      BY <2>2, <2>3, MidInside
    <2>5. mid \notin DOMAIN cache
      BY <2>3, <2>4
    <2>6. DOMAIN cache' = DOMAIN cache \cup {mid} /\ target' = target
      BY <2>1, <2>2, Recorded DEF target
    <2>7. IsFiniteSet(DOMAIN cache) /\ Runs \in Nat /\ Runs >= 1 /\ Runs - 1 \in Indices
      BY <2>2, RunsCounted DEF IInv, TypeOK, Halving, Runs
    <2>8. Runs' = Runs + 1
      BY <2>5, <2>6, <2>7, FS_AddElement DEF Runs
    <2>9. Runs \in Indices
      <3>1. DOMAIN cache' \in SUBSET Indices
        BY <1>2, SearchSteps DEF IInv, TypeOK
      <3>2. Runs' >= 1 => Runs' - 1 \in Indices
        BY <3>1, RunsCounted DEF Runs
      <3>3. QED BY <2>7, <2>8, <3>2
    <2> DEFINE p == PowerOfTwo[Runs - 1]
    <2>10. p \in Nat /\ PowerOfTwo[Runs' - 1] = 2 * p
      <3>1. Runs # 0 /\ (Runs + 1) - 1 = Runs
        BY <2>7
      <3>2. QED BY <2>7, <2>8, <2>9, <3>1, PowerDoubles
    <2>11. p * Width <= target
      BY <2>2 DEF Halving
    <2> HIDE DEF p
    <2>12. Width \in Nat /\ 1 <= Width
      BY <2>2, <2>3 DEF Width, MoreToTry
    <2>13. p * 1 <= p * Width
      BY <2>10, <2>12, ProductMonotone
    <2>14. p <= target
      <3>1. p * 1 = p /\ p * Width \in Nat
        BY <2>10, <2>12
      <3>2. QED BY <1>0, <2>10, <2>11, <2>13, <3>1
    <2>15. Logarithmic'
      <3>1. 2 * p < 2 * (target + 1)
        BY <1>0, <2>10, <2>14
      <3>2. QED BY <2>6, <2>10, <3>1 DEF Logarithmic, Runs
    <2>16. ASSUME pc' = "search"
           PROVE  Runs' >= 1 /\ PowerOfTwo[Runs' - 1] * Width' <= target'
      <3>1. Width' \in Nat /\ 2 * Width' <= Width
        <4>1. 2 * (mid - good - 1) <= Width /\ 2 * (bad - mid - 1) <= Width
          BY <2>2, <2>3, Halves
        <4>2. Width' = bad - mid - 1 \/ Width' = mid - good - 1
          BY <2>1, <2>16 DEF Width
        <4>3. bad - mid - 1 \in Nat /\ mid - good - 1 \in Nat
          BY <2>3, <2>4
        <4>4. QED BY <4>1, <4>2, <4>3
      <3>2. (2 * p) * Width' <= target
        BY <1>0, <2>10, <2>11, <2>12, <3>1, ProductHalved
      <3>3. QED BY <2>6, <2>7, <2>8, <2>10, <3>2
    <2>17. QED BY <2>15, <2>16 DEF Halving
  <1>3. CASE /\ config' = config /\ cache' = cache
             /\ pc' = "search" => pc = "search" /\ good' = good /\ bad' = bad
    <2>1. Runs' = Runs /\ target' = target
      BY <1>3 DEF Runs, target
    <2>2. Logarithmic'
      BY <1>3 DEF Halving, Logarithmic, target
    <2>3. pc' = "search" => Width' = Width
      BY <1>3 DEF Width
    <2>4. QED BY <1>3, <2>1, <2>2, <2>3 DEF Halving
  <1>4. QED
    BY <1>1, <1>2, <1>3 DEF Next, Progress, Failure, Done, vars, ReplayFails, Replay,
       SkipMinimization, Report, IoFails, SearchEnds, Searched, CandidateFails, Conclude,
       ConcludeFails, GiveUp, Return

(* The candidates run after the first are at most log2 of the length of    *)
(* the range, and the start found is the last that reproduces: the binary  *)
(* search of minimize_history_write_difference is one.                     *)
THEOREM BisectsHolds == Spec => []Bisects
  <1>1. Halving => Logarithmic
    BY DEF Halving
  <1>2. QED
    BY InitHalving, NextHalving, Invariance, LastStartFound, <1>1, PTL DEF Spec, Bisects
=============================================================================

------------------------------ MODULE Guidance ------------------------------
(***************************************************************************)
(* The feedback shared by the workers of a fuzzing campaign: GuidanceState *)
(* in transition_guidance.rs.  Testcases whose analysis shows items        *)
(* (transitions, or modes) never seen before become seeds; seeds are       *)
(* handed out in turn.  Every method runs under the Mutex around the       *)
(* state, so a method is one step.                                         *)
(*                                                                         *)
(* A testcase is the set of items its analysis shows, which tells the      *)
(* seeds of a pool apart: each showed something none before it had.        *)
(***************************************************************************)
EXTENDS Naturals, FiniteSets, SequencesExt

CONSTANTS Keys,      \* the feedback items, GuidanceKey
          PoolLimit, \* seed_pool_limit
          IndexWidth \* values of next_seed_index, a usize

Testcase == SUBSET Keys

(* GuidanceState::new raises a limit of 0 to 1.                            *)
ASSUME PoolLimitAssumption  == PoolLimit \in Nat \ {0}
ASSUME IndexWidthAssumption == IndexWidth \in Nat /\ IndexWidth > PoolLimit
ASSUME KeysAssumption       == IsFiniteSet(Keys)

VARIABLES visited,  \* items seen so far
          seedPool, \* seed_pool, the oldest seed first
          nextSeed, \* next_seed_index
          selected  \* what select_seed returned last: no seed or one

gvars == <<visited, seedPool, nextSeed, selected>>

SeedType == [testcase : Testcase, newItemCount : Nat]

GInit == visited = {} /\ seedPool = <<>> /\ nextSeed = 0 /\ selected = {}

(* Mutants: the turn is not advanced; it restarts with every seed added.   *)
NextIndexStuck == nextSeed

NextIndex == (nextSeed + 1) % IndexWidth

SelectSeed ==
  IF seedPool = <<>>
  THEN selected' = {} /\ UNCHANGED <<visited, seedPool, nextSeed>>
  ELSE /\ selected' = {seedPool[(nextSeed % Len(seedPool)) + 1].testcase}
       /\ nextSeed' = NextIndex
       /\ UNCHANGED <<visited, seedPool>>

(* min_by_key: the first of the seeds with the fewest new items.           *)
LeastInteresting(pool) ==
  CHOOSE i \in DOMAIN pool :
    \A j \in DOMAIN pool :
      \/ pool[i].newItemCount < pool[j].newItemCount
      \/ pool[i].newItemCount = pool[j].newItemCount /\ i <= j

(* Mutants: the oldest seed is dropped; the limit is off by one.           *)
TrimOldest(pool)  == IF Len(pool) > PoolLimit THEN Tail(pool) ELSE pool
TrimTooLate(pool) == IF Len(pool) > PoolLimit + 1
                     THEN RemoveAt(pool, LeastInteresting(pool)) ELSE pool

(* The pool is trimmed after every addition, so one removal is enough to   *)
(* end the loop.                                                           *)
TrimSeedPool(pool) == IF Len(pool) > PoolLimit
                      THEN RemoveAt(pool, LeastInteresting(pool)) ELSE pool

(* Mutant: all items of a testcase count as new.                           *)
AllItems(testcase) == testcase

NewItems(testcase) == testcase \ visited

RecordAnalysis(testcase) ==
  /\ visited' = visited \cup testcase
  /\ seedPool' = IF NewItems(testcase) = {} THEN seedPool
                 ELSE TrimSeedPool(Append(seedPool,
                        [testcase     |-> testcase,
                         newItemCount |-> Cardinality(NewItems(testcase))]))
  /\ UNCHANGED <<nextSeed, selected>>

GNext == SelectSeed \/ \E testcase \in Testcase : RecordAnalysis(testcase)

(* Workers select as long as the campaign runs.                            *)
GSpec == GInit /\ [][GNext]_gvars /\ WF_gvars(SelectSeed)

-----------------------------------------------------------------------------
(* Properties.                                                             *)

GTypeOK ==
  /\ visited \subseteq Keys
  /\ seedPool \in Seq(SeedType) /\ Len(seedPool) <= PoolLimit
  /\ nextSeed \in 0..IndexWidth - 1
  /\ selected \subseteq Testcase /\ Cardinality(selected) <= 1

(* An item makes one testcase new, whichever workers report it: the new    *)
(* items of all seeds add up to no more than the items seen.               *)
CountedOnce ==
  FoldSeq(LAMBDA seed, sum : seed.newItemCount + sum, 0, seedPool) <= Cardinality(visited)

InPool(t) == \E i \in DOMAIN seedPool : seedPool[i].testcase = t

(* A seed only leaves the pool to seeds at least as interesting.           *)
KeepsInteresting ==
  [][\A i \in DOMAIN seedPool :
       \/ \E j \in DOMAIN seedPool' : seedPool'[j] = seedPool[i]
       \/ \A j \in DOMAIN seedPool' :
            seedPool'[j].newItemCount >= seedPool[i].newItemCount]_gvars

(* Each seed has its turn or is dropped, whatever is added and dropped     *)
(* around it and wherever the index wraps.                                 *)
EverySeedUsed == \A t \in Testcase : InPool(t) ~> (selected = {t} \/ ~InPool(t))
=============================================================================

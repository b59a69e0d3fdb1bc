--------------------------- MODULE WorkerPoolProofs -------------------------
(***************************************************************************)
(* Theorems about Guidance, for every set of items, pool limit and width   *)
(* of the index, and about WorkerPool, which is made of it, for every      *)
(* number of workers, every run limit and every width of the run counter.  *)
(*                                                                         *)
(* The inductive invariant of WorkerPool has four parts. Stages says how   *)
(* far the workers are when the main thread starts, joins or has joined    *)
(* them; Errors that the error kept is the one of the first dead worker;   *)
(* Stopping why the flag is down and that a worker only exits when it is;  *)
(* Claims, of a limited campaign, which worker is at which run.            *)
(***************************************************************************)
EXTENDS WorkerPool, FiniteSetTheorems, SequenceTheorems, WellFoundedInduction, TLAPS

(* Sets of natural numbers have a least element.                           *)
LEMMA LeastNumber ==
  ASSUME NEW T \in SUBSET Nat, T # {}
  PROVE  \E x \in T : \A y \in T : x <= y
  <1> DEFINE R == OpToRel(<, Nat)
  <1>1. IsWellFoundedOn(R, Nat)
    BY NatLessThanWellFounded
  <1>2. PICK x \in T : \A y \in T : ~(<<y, x>> \in R)
    <2> HIDE DEF R
    <2> QED BY <1>1, WFMin
  <1>3. \A y \in T : ~(y < x)
    BY <1>2 DEF OpToRel
  <1>4. QED BY <1>3

(* A set with 0 and the successors of its numbers holds all numbers.       *)
LEMMA Induction ==
  ASSUME NEW T, 0 \in T, \A n \in Nat : n \in T => n + 1 \in T
  PROVE  \A n \in Nat : n \in T
  <1> DEFINE Missing == Nat \ T
  <1> SUFFICES ASSUME Missing # {} PROVE FALSE
    OBVIOUS
  <1>1. PICK x \in Missing : \A y \in Missing : x <= y
    <2>1. Missing \in SUBSET Nat
      OBVIOUS
    <2> HIDE DEF Missing
    <2>2. QED BY <2>1, LeastNumber
  <1>2. x \in Nat /\ x \notin T
    OBVIOUS
  <1>3. x # 0
    BY <1>2
  <1>4. x - 1 \in Nat /\ ~(x <= x - 1)
    BY <1>2, <1>3
  <1>5. x - 1 \in T
    BY <1>1, <1>4
  <1>6. (x - 1) + 1 \in T
    BY <1>4, <1>5
  <1>7. QED BY <1>2, <1>6

(* The seed that is dropped is one of the pool with the fewest new items.  *)
LEMMA LeastInterestingFound ==
  ASSUME NEW pool \in Seq(SeedType), Len(pool) > 0
  PROVE  /\ LeastInteresting(pool) \in 1..Len(pool)
         /\ \A j \in 1..Len(pool) :
              pool[LeastInteresting(pool)].newItemCount <= pool[j].newItemCount
  <1> DEFINE Counts == {pool[i].newItemCount : i \in 1..Len(pool)}
  <1>1. \A i \in 1..Len(pool) : pool[i].newItemCount \in Nat
    <2>1. \A i \in 1..Len(pool) : pool[i] \in SeedType
      OBVIOUS
    <2>2. QED BY <2>1 DEF SeedType
  <1>2. PICK n \in Counts : \A m \in Counts : n <= m
    <2>1. Counts \in SUBSET Nat /\ Counts # {}
      BY <1>1
    <2> HIDE DEF Counts
    <2>2. QED BY <2>1, LeastNumber
  <1> DEFINE Places == {i \in 1..Len(pool) : pool[i].newItemCount = n}
  <1>3. PICK i \in Places : \A j \in Places : i <= j
    <2>1. Places \in SUBSET Nat /\ Places # {}
      BY <1>2
    <2> HIDE DEF Places
    <2>2. QED BY <2>1, LeastNumber
  <1>4. \A j \in 1..Len(pool) :
          \/ pool[i].newItemCount < pool[j].newItemCount
          \/ pool[i].newItemCount = pool[j].newItemCount /\ i <= j
    <2> SUFFICES ASSUME NEW j \in 1..Len(pool)
                 PROVE  \/ pool[i].newItemCount < pool[j].newItemCount
                        \/ pool[i].newItemCount = pool[j].newItemCount /\ i <= j
      OBVIOUS
    <2>1. pool[i].newItemCount = n /\ n \in Nat
      BY <1>1, <1>3
    <2>2. pool[j].newItemCount \in Nat /\ n <= pool[j].newItemCount
      BY <1>1, <1>2
    <2>3. pool[j].newItemCount = n => i <= j
      BY <1>3
    <2> HIDE DEF Counts, Places
    <2>4. QED BY <2>1, <2>2, <2>3
  <1>5. /\ LeastInteresting(pool) \in DOMAIN pool
        /\ \A j \in DOMAIN pool :
             \/ pool[LeastInteresting(pool)].newItemCount < pool[j].newItemCount
             \/ /\ pool[LeastInteresting(pool)].newItemCount = pool[j].newItemCount
                /\ LeastInteresting(pool) <= j
    BY <1>3, <1>4, LenProperties DEF LeastInteresting
  <1>6. QED BY <1>1, <1>5, LenProperties

(* What is left of a sequence when one entry is removed.                   *)
LEMMA RemoveAtProperties ==
  ASSUME NEW S, NEW s \in Seq(S), NEW i \in 1..Len(s)
  PROVE  /\ RemoveAt(s, i) \in Seq(S)
         /\ Len(RemoveAt(s, i)) = Len(s) - 1
         /\ \A j \in 1..Len(s) - 1 :
              RemoveAt(s, i)[j] = IF j < i THEN s[j] ELSE s[j + 1]
  <1>1. /\ SubSeq(s, 1, i - 1) \in Seq(S)
        /\ Len(SubSeq(s, 1, i - 1)) = i - 1
        /\ \A j \in 1..i - 1 : SubSeq(s, 1, i - 1)[j] = s[j]
    OBVIOUS
  <1>2. /\ SubSeq(s, i + 1, Len(s)) \in Seq(S)
        /\ Len(SubSeq(s, i + 1, Len(s))) = Len(s) - i
        /\ \A j \in 1..Len(s) - i : SubSeq(s, i + 1, Len(s))[j] = s[i + j]
    OBVIOUS
  <1> DEFINE front == SubSeq(s, 1, i - 1)
             back  == SubSeq(s, i + 1, Len(s))
  <1>3. RemoveAt(s, i) = front \o back
    BY DEF RemoveAt
  <1>4. Len(s) \in Nat /\ i \in 1..Len(s)
    BY LenProperties
  <1> HIDE DEF front, back
  <1>5. /\ front \o back \in Seq(S)
        /\ Len(front \o back) = Len(front) + Len(back)
        /\ \A j \in 1..Len(front) + Len(back) :
             (front \o back)[j] = IF j <= Len(front) THEN front[j] ELSE back[j - Len(front)]
    BY <1>1, <1>2, ConcatProperties DEF front, back
  <1>6. Len(front) = i - 1 /\ Len(back) = Len(s) - i
    BY <1>1, <1>2 DEF front, back
  <1>7. ASSUME NEW j \in 1..Len(s) - 1
        PROVE  (front \o back)[j] = IF j < i THEN s[j] ELSE s[j + 1]
    <2>1. CASE j < i
      <3>1. j \in 1..i - 1
        BY <1>4, <2>1
      <3>2. front[j] = s[j]
        BY <1>1, <3>1 DEF front
      <3>3. QED BY <1>4, <1>5, <1>6, <2>1, <3>1, <3>2
    <2>2. CASE ~(j < i)
      <3>1. j - (i - 1) \in 1..Len(s) - i /\ i + (j - (i - 1)) = j + 1
        BY <1>4, <2>2
      <3>2. back[j - (i - 1)] = s[j + 1]
        BY <1>2, <3>1 DEF back
      <3>3. QED BY <1>4, <1>5, <1>6, <2>2, <3>2
    <2>3. QED BY <2>1, <2>2
  <1>8. QED BY <1>3, <1>4, <1>5, <1>6, <1>7

(* The pool after a seed was added: typed, within the limit, and what it   *)
(* lost, if anything, was no more interesting than what it holds.          *)
LEMMA Trimmed ==
  ASSUME NEW pool \in Seq(SeedType), Len(pool) <= PoolLimit, NEW fresh \in SeedType
  PROVE  LET trimmed == TrimSeedPool(Append(pool, fresh)) IN
         /\ trimmed \in Seq(SeedType)
         /\ Len(trimmed) <= PoolLimit
         /\ \A i \in DOMAIN pool :
              \/ \E j \in DOMAIN trimmed : trimmed[j] = pool[i]
              \/ \A j \in DOMAIN trimmed : trimmed[j].newItemCount >= pool[i].newItemCount
  <1> DEFINE longer  == Append(pool, fresh)
             out     == LeastInteresting(longer)
             trimmed == TrimSeedPool(longer)
  <1>1. /\ longer \in Seq(SeedType)
        /\ Len(longer) = Len(pool) + 1
        /\ \A i \in 1..Len(pool) : longer[i] = pool[i]
    OBVIOUS
  <1>2. Len(pool) \in Nat /\ DOMAIN pool = 1..Len(pool)
    BY LenProperties
  <1>3. CASE Len(longer) <= PoolLimit
    <2>1. trimmed = longer
      BY <1>1, <1>2, <1>3, PoolLimitAssumption DEF TrimSeedPool
    <2>2. DOMAIN longer = 1..Len(longer)
      BY <1>1, LenProperties
    <2> HIDE DEF longer, trimmed
    <2>3. \A i \in 1..Len(pool) : i \in DOMAIN trimmed /\ trimmed[i] = pool[i]
      BY <1>1, <1>2, <2>1, <2>2
    <2>4. trimmed \in Seq(SeedType) /\ Len(trimmed) <= PoolLimit
      BY <1>1, <1>3, <2>1
    <2>5. QED BY <1>2, <2>3, <2>4 DEF trimmed, longer
  <1>4. CASE Len(longer) > PoolLimit
    <2>1. trimmed = RemoveAt(longer, out)
      BY <1>4 DEF TrimSeedPool
    <2> HIDE DEF longer
    <2>2. /\ out \in 1..Len(longer)
          /\ \A j \in 1..Len(longer) : longer[out].newItemCount <= longer[j].newItemCount
      BY <1>1, <1>2, LeastInterestingFound
    <2> HIDE DEF out, trimmed
    <2>3. /\ trimmed \in Seq(SeedType)
          /\ Len(trimmed) = Len(pool)
          /\ \A j \in 1..Len(pool) :
               trimmed[j] = IF j < out THEN longer[j] ELSE longer[j + 1]
      <3>1. Len(longer) - 1 = Len(pool)
        BY <1>1, <1>2
      <3>2. QED BY <1>1, <2>1, <2>2, <3>1, RemoveAtProperties
    <2>4. DOMAIN trimmed = 1..Len(pool)
      BY <2>3, LenProperties
    <2>5. ASSUME NEW i \in 1..Len(pool)
          PROVE  \/ \E j \in DOMAIN trimmed : trimmed[j] = pool[i]
                 \/ \A j \in DOMAIN trimmed : trimmed[j].newItemCount >= pool[i].newItemCount
      <3>1. CASE i < out
        BY <1>1, <2>3, <2>4, <3>1
      <3>2. CASE i > out
        <4>1. i - 1 \in 1..Len(pool) /\ ~(i - 1 < out) /\ (i - 1) + 1 = i
          BY <1>2, <2>2, <3>2
        <4>2. trimmed[i - 1] = pool[i]
          BY <1>1, <2>3, <4>1
        <4>3. QED BY <2>4, <4>1, <4>2
      <3>3. CASE i = out
        <4>1. pool[i] = longer[out]
          BY <1>1, <3>3
        <4>2. ASSUME NEW j \in 1..Len(pool)
              PROVE  trimmed[j].newItemCount >= pool[i].newItemCount
          <5>1. \E k \in 1..Len(longer) : trimmed[j] = longer[k]
            BY <1>1, <1>2, <2>3
          <5>2. PICK k \in 1..Len(longer) : trimmed[j] = longer[k]
            BY <5>1
          <5>3. longer[k].newItemCount \in Nat /\ longer[out].newItemCount \in Nat
            <6>1. longer[k] \in SeedType /\ longer[out] \in SeedType
              BY <1>1, <2>2
            <6>2. QED BY <6>1 DEF SeedType
          <5>4. QED BY <2>2, <4>1, <5>2, <5>3
        <4>3. QED BY <2>4, <4>2
      <3>4. QED BY <1>2, <2>2, <3>1, <3>2, <3>3
    <2>6. Len(trimmed) <= PoolLimit
      BY <2>3
    <2>7. QED BY <1>2, <2>3, <2>5, <2>6 DEF trimmed, longer
  <1>5. QED BY <1>1, <1>2, <1>3, <1>4, PoolLimitAssumption

(* The seed made of a testcase that shows something new.                   *)
LEMMA SeedTyped ==
  ASSUME NEW testcase \in Testcase
  PROVE  [testcase |-> testcase, newItemCount |-> Cardinality(NewItems(testcase))] \in SeedType
  <1>1. IsFiniteSet(NewItems(testcase))
    BY KeysAssumption, FS_Subset DEF NewItems, Testcase
  <1>2. QED BY <1>1, FS_CardinalityType DEF SeedType

-----------------------------------------------------------------------------
LEMMA GInitTyped == GInit => GTypeOK
  <1> SUFFICES ASSUME GInit PROVE GTypeOK
    OBVIOUS
  <1>1. seedPool \in Seq(SeedType) /\ Len(seedPool) = 0
    BY EmptySeq DEF GInit
  <1>2. Cardinality(selected) = 0
    BY FS_EmptySet DEF GInit
  <1>3. QED BY <1>1, <1>2, PoolLimitAssumption, IndexWidthAssumption DEF GInit, GTypeOK

LEMMA SelectTyped == GTypeOK /\ SelectSeed => GTypeOK'
  <1> SUFFICES ASSUME GTypeOK, SelectSeed PROVE GTypeOK'
    OBVIOUS
  <1>1. CASE seedPool = <<>>
    <2>1. selected' = {} /\ UNCHANGED <<visited, seedPool, nextSeed>>
      BY <1>1 DEF SelectSeed
    <2>2. Cardinality(selected') = 0
      BY <2>1, FS_EmptySet
    <2>3. QED BY <2>1, <2>2 DEF GTypeOK
  <1>2. CASE seedPool # <<>>
    <2> DEFINE i == (nextSeed % Len(seedPool)) + 1
    <2>1. Len(seedPool) \in Nat \ {0}
      BY <1>2, EmptySeq, LenProperties DEF GTypeOK
    <2>2. i \in 1..Len(seedPool)
      BY <2>1 DEF GTypeOK
    <2>3. seedPool[i].testcase \in Testcase
      <3> HIDE DEF i
      <3>1. seedPool[i] \in SeedType
        BY <2>2 DEF GTypeOK
      <3>2. QED BY <3>1 DEF SeedType
    <2>4. selected' = {seedPool[i].testcase}
      BY <1>2 DEF SelectSeed
    <2>5. nextSeed' \in 0..IndexWidth - 1
      BY <1>2, IndexWidthAssumption, PoolLimitAssumption DEF SelectSeed, NextIndex, GTypeOK
    <2> HIDE DEF i
    <2>6. Cardinality(selected') <= 1
      BY <2>4, FS_Singleton
    <2>7. UNCHANGED <<visited, seedPool>>
      BY <1>2 DEF SelectSeed
    <2>8. QED BY <2>3, <2>4, <2>5, <2>6, <2>7 DEF GTypeOK
  <1>3. QED BY <1>1, <1>2

LEMMA RecordTyped ==
  ASSUME GTypeOK, NEW testcase \in Testcase, RecordAnalysis(testcase)
  PROVE  GTypeOK'
  <1>1. seedPool' \in Seq(SeedType) /\ Len(seedPool') <= PoolLimit
    BY SeedTyped, Trimmed DEF RecordAnalysis, GTypeOK
  <1>2. QED BY <1>1 DEF RecordAnalysis, GTypeOK, Testcase

(* The guidance state keeps its type and the pool its limit.               *)
THEOREM GuidanceTyped == GSpec => []GTypeOK
  <1>1. GTypeOK /\ [GNext]_gvars => GTypeOK'
    <2> SUFFICES ASSUME GTypeOK, [GNext]_gvars PROVE GTypeOK'
      OBVIOUS
    <2>1. CASE UNCHANGED gvars
      BY <2>1 DEF gvars, GTypeOK
    <2>2. QED BY <2>1, SelectTyped, RecordTyped DEF GNext
  <1>2. QED BY <1>1, GInitTyped, PTL DEF GSpec

(* A seed only leaves the pool to seeds at least as interesting.           *)
THEOREM InterestingKept == GSpec => KeepsInteresting
  <1> DEFINE Kept(i) == \/ \E j \in DOMAIN seedPool' : seedPool'[j] = seedPool[i]
                        \/ \A j \in DOMAIN seedPool' :
                             seedPool'[j].newItemCount >= seedPool[i].newItemCount
  <1>1. GTypeOK /\ [GNext]_gvars => [\A i \in DOMAIN seedPool : Kept(i)]_gvars
    <2> SUFFICES ASSUME GTypeOK, GNext, NEW i \in DOMAIN seedPool PROVE Kept(i)
      BY DEF GNext
    <2>1. CASE SelectSeed
      BY <2>1 DEF SelectSeed
    <2>2. ASSUME NEW testcase \in Testcase, RecordAnalysis(testcase)
          PROVE  Kept(i)
      BY <2>2, SeedTyped, Trimmed DEF RecordAnalysis, GTypeOK
    <2>3. QED BY <2>1, <2>2 DEF GNext
  <1>2. QED BY <1>1, GuidanceTyped, PTL DEF GSpec, KeepsInteresting

-----------------------------------------------------------------------------
(* What the seeds count. CountedOnce says it with a fold, a recursion over *)
(* sets of places; what it computes is proved by induction on their size.  *)

(* The fold of CountedOnce over a set of the pool's places.                *)
Picked(s) == CHOOSE x \in s : TRUE
IsTotal(sum, D, pool) ==
  sum = [s \in D |-> IF s = {} THEN 0 ELSE pool[Picked(s)].newItemCount + sum[s \ {Picked(s)}]]

(* Its recursion has a solution: every step takes a place away.            *)
LEMMA TotalExists ==
  ASSUME NEW D, IsFiniteSet(D), NEW pool
  PROVE  \E sum : IsTotal(sum, SUBSET D, pool)
  <1> DEFINE UpTo(n) == {s \in SUBSET D : Cardinality(s) <= n}
             T == {n \in Nat : \E sum : IsTotal(sum, UpTo(n), pool)}
  <1>1. \A s \in SUBSET D : IsFiniteSet(s) /\ Cardinality(s) \in Nat /\ (Cardinality(s) = 0 <=> s = {})
    BY FS_Subset, FS_CardinalityType, FS_EmptySet
  <1>2. \A s \in SUBSET D : s # {} =>
          /\ Picked(s) \in s /\ s \ {Picked(s)} \in SUBSET D
          /\ Cardinality(s \ {Picked(s)}) = Cardinality(s) - 1
    BY <1>1, FS_RemoveElement DEF Picked
  <1>3. 0 \in T
    <2>1. UpTo(0) = {{}}
      BY <1>1
    <2> DEFINE sum == [s \in UpTo(0) |-> 0]
    <2>2. IsTotal(sum, UpTo(0), pool)
      BY <2>1 DEF IsTotal
    <2>3. QED BY <2>2
  <1>4. ASSUME NEW n \in Nat, n \in T PROVE n + 1 \in T
    <2>1. PICK sum : IsTotal(sum, UpTo(n), pool)
      BY <1>4
    <2> DEFINE more == [s \in UpTo(n + 1) |->
                          IF s = {} THEN 0 ELSE pool[Picked(s)].newItemCount + sum[s \ {Picked(s)}]]
    <2>2. UpTo(n) \subseteq UpTo(n + 1)
      BY <1>1
    <2>3. ASSUME NEW s \in UpTo(n + 1), s # {}
          PROVE  s \ {Picked(s)} \in UpTo(n)
      BY <1>1, <1>2, <2>3
    <2>4. \A s \in UpTo(n) : more[s] = sum[s]
      <3> HIDE DEF UpTo
      <3> DEFINE same == [s \in UpTo(n) |->
                           IF s = {} THEN 0 ELSE pool[Picked(s)].newItemCount + sum[s \ {Picked(s)}]]
      <3>1. sum = same
        BY <2>1 DEF IsTotal
      <3>2. \A s \in UpTo(n) : more[s] = same[s]
        BY <2>2
      <3> HIDE DEF more, same
      <3>3. QED BY <3>1, <3>2
    <2> HIDE DEF UpTo
    <2>5. \A s \in UpTo(n + 1) :
            more[s] = IF s = {} THEN 0 ELSE pool[Picked(s)].newItemCount + more[s \ {Picked(s)}]
      BY <2>3, <2>4
    <2>6. more = [s \in UpTo(n + 1) |-> more[s]]
      OBVIOUS
    <2> HIDE DEF more
    <2>7. IsTotal(more, UpTo(n + 1), pool)
      BY <2>5, <2>6 DEF IsTotal
    <2>8. QED BY <2>7
  <1>5. Cardinality(D) \in T
    <2>1. Cardinality(D) \in Nat
      BY FS_CardinalityType
    <2> HIDE DEF T
    <2>2. QED BY <1>3, <1>4, <2>1, Induction
  <1>6. UpTo(Cardinality(D)) = SUBSET D
    BY FS_Subset
  <1>7. QED BY <1>5, <1>6

Sum(pool) == FoldSeq(LAMBDA entry, sum : entry.newItemCount + sum, 0, pool)

LEMMA SumUnfolds ==
  ASSUME NEW pool, IsFiniteSet(DOMAIN pool)
  PROVE  \E sum : IsTotal(sum, SUBSET DOMAIN pool, pool) /\ Sum(pool) = sum[DOMAIN pool]
  <1> DEFINE sum == CHOOSE f : IsTotal(f, SUBSET DOMAIN pool, pool)
  <1>1. IsTotal(sum, SUBSET DOMAIN pool, pool)
    BY TotalExists
  <1>2. Sum(pool) = sum[DOMAIN pool]
    BY DEF Sum, IsTotal, Picked, FoldSeq, FoldFunction, FoldFunctionOnSet, MapThenFoldSet
  <1> HIDE DEF sum
  <1>3. QED BY <1>1, <1>2

(* Who was first: disjoint shares of what was seen, as large as the seeds  *)
(* count.                                                                  *)
Shares(F, pool, seen) ==
  /\ F \in [DOMAIN pool -> SUBSET seen]
  /\ \A i, j \in DOMAIN pool : i # j => F[i] \cap F[j] = {}
  /\ \A i \in DOMAIN pool : Cardinality(F[i]) = pool[i].newItemCount

(* Disjoint shares add up to the size of their union.                      *)
LEMMA SharesAddUp ==
  ASSUME NEW pool \in Seq(SeedType), NEW seen, IsFiniteSet(seen), NEW F, Shares(F, pool, seen)
  PROVE  Sum(pool) <= Cardinality(seen)
  <1> DEFINE D == DOMAIN pool
             Joint(s) == UNION {F[i] : i \in s}
  <1>1. D = 1 .. Len(pool) /\ Len(pool) \in Nat /\ IsFiniteSet(D)
    BY LenProperties, FS_Interval
  <1>2. PICK sum : IsTotal(sum, SUBSET D, pool) /\ Sum(pool) = sum[D]
    BY <1>1, SumUnfolds
  <1> HIDE DEF D
  <1>3. \A s \in SUBSET D : IsFiniteSet(Joint(s)) /\ Joint(s) \subseteq seen
    <2> SUFFICES ASSUME NEW s \in SUBSET D PROVE IsFiniteSet(Joint(s)) /\ Joint(s) \subseteq seen
      OBVIOUS
    <2>1. Joint(s) \subseteq seen
      BY DEF Shares, D
    <2> HIDE DEF Joint
    <2>2. QED BY <2>1, FS_Subset
  <1>4. \A s \in SUBSET D : s # {} =>
          /\ Picked(s) \in s /\ s \ {Picked(s)} \in SUBSET D /\ IsFiniteSet(s) /\ Cardinality(s) \in Nat
          /\ Cardinality(s \ {Picked(s)}) = Cardinality(s) - 1
    BY <1>1, FS_Subset, FS_RemoveElement, FS_CardinalityType DEF Picked
  <1> DEFINE T == {n \in Nat : \A s \in SUBSET D : Cardinality(s) = n => sum[s] = Cardinality(Joint(s))}
  <1>5. 0 \in T
    <2> SUFFICES ASSUME NEW s \in SUBSET D, Cardinality(s) = 0 PROVE sum[s] = Cardinality(Joint(s))
      OBVIOUS
    <2>1. s = {}
      BY <1>1, FS_Subset, FS_EmptySet
    <2>2. Joint(s) = {}
      BY <2>1
    <2>3. sum[s] = 0
      BY <1>2, <2>1 DEF IsTotal
    <2>4. QED BY <2>2, <2>3, FS_EmptySet
  <1>6. ASSUME NEW n \in Nat, n \in T PROVE n + 1 \in T
    <2> SUFFICES ASSUME NEW s \in SUBSET D, Cardinality(s) = n + 1
                 PROVE  sum[s] = Cardinality(Joint(s))
      OBVIOUS
    <2> DEFINE x == Picked(s)
               r == s \ {x}
    <2>1. s # {}
      <3>1. s = {} => Cardinality(s) = 0
        BY FS_EmptySet
      <3>2. n + 1 # 0
        OBVIOUS
      <3>3. QED BY <3>1, <3>2
    <2>2. x \in s /\ r \in SUBSET D /\ Cardinality(r) = n
      BY <1>4, <2>1
    <2>3. sum[s] = pool[x].newItemCount + sum[r]
      BY <1>2, <2>1 DEF IsTotal
    <2>4. sum[r] = Cardinality(Joint(r))
      BY <1>6, <2>2
    <2>5. x \in D /\ pool[x].newItemCount = Cardinality(F[x]) /\ F[x] \subseteq seen
      BY <2>2 DEF Shares, D
    <2>6. Joint(s) = F[x] \cup Joint(r)
      BY <2>2
    <2>7. F[x] \cap Joint(r) = {}
      <3>1. \A i \in r : F[x] \cap F[i] = {}
        BY <2>2, <2>5 DEF Shares, D
      <3>2. QED BY <3>1
    <2>8. IsFiniteSet(F[x]) /\ IsFiniteSet(Joint(r))
      BY <1>3, <2>2, <2>5, FS_Subset
    <2> HIDE DEF Joint, x, r
    <2>9. Cardinality(Joint(s)) = Cardinality(F[x]) + Cardinality(Joint(r))
      <3>1. Cardinality(F[x] \cup Joint(r)) =
              Cardinality(F[x]) + Cardinality(Joint(r)) - Cardinality(F[x] \cap Joint(r))
        BY <2>8, FS_Union
      <3>2. Cardinality(F[x] \cap Joint(r)) = 0
        BY <2>7, FS_EmptySet
      <3>3. Cardinality(F[x]) \in Nat /\ Cardinality(Joint(r)) \in Nat
        BY <2>8, FS_CardinalityType
      <3>4. QED BY <2>6, <3>1, <3>2, <3>3
    <2>10. QED BY <2>3, <2>4, <2>5, <2>9
  <1>7. sum[D] = Cardinality(Joint(D))
    <2>1. Cardinality(D) \in Nat
      BY <1>1, FS_CardinalityType
    <2>2. Cardinality(D) \in T
      <3> HIDE DEF T
      <3>1. QED BY <1>5, <1>6, <2>1, Induction
    <2>3. QED BY <2>2
  <1>8. Cardinality(Joint(D)) <= Cardinality(seen)
    <2>1. Joint(D) \subseteq seen
      BY <1>3
    <2> HIDE DEF Joint
    <2>2. QED BY <2>1, FS_Subset
  <1>9. QED BY <1>2, <1>7, <1>8

Attributed == \E F : Shares(F, seedPool, visited)

LEMMA AttributedSuffices == GTypeOK /\ Attributed => CountedOnce
  <1> SUFFICES ASSUME GTypeOK, NEW F, Shares(F, seedPool, visited) PROVE CountedOnce
    BY DEF Attributed
  <1>1. IsFiniteSet(visited) /\ seedPool \in Seq(SeedType)
    BY KeysAssumption, FS_Subset DEF GTypeOK
  <1>2. Sum(seedPool) <= Cardinality(visited)
    BY <1>1, SharesAddUp
  <1>3. QED BY <1>2 DEF CountedOnce, Sum

(* A new seed gets what was not seen before it as its share.               *)
LEMMA SharesAppend ==
  ASSUME NEW pool \in Seq(SeedType), NEW seen, NEW F, Shares(F, pool, seen),
         NEW items, NEW fresh, fresh.newItemCount = Cardinality(items \ seen)
  PROVE  \E G : Shares(G, Append(pool, fresh), seen \cup items)
  <1> DEFINE n == Len(pool)
             G == [i \in 1 .. n + 1 |-> IF i = n + 1 THEN items \ seen ELSE F[i]]
  <1>1. /\ n \in Nat /\ DOMAIN pool = 1 .. n
        /\ DOMAIN Append(pool, fresh) = 1 .. n + 1
        /\ \A i \in 1 .. n : Append(pool, fresh)[i] = pool[i]
        /\ Append(pool, fresh)[n + 1] = fresh
    BY LenProperties
  <1> HIDE DEF n
  <1>2. \A i \in 1 .. n + 1 : i \in 1 .. n \/ i = n + 1
    BY <1>1
  <1>3. \A i \in 1 .. n : G[i] = F[i] /\ F[i] \subseteq seen
    BY <1>1 DEF Shares
  <1>4. G[n + 1] = items \ seen
    BY <1>1
  <1>5. DOMAIN G = 1 .. n + 1 /\ G \in [1 .. n + 1 -> SUBSET (seen \cup items)]
    BY <1>2, <1>3, <1>4
  <1> HIDE DEF G
  <1>6. ASSUME NEW i \in 1 .. n + 1, NEW j \in 1 .. n + 1, i # j PROVE G[i] \cap G[j] = {}
    <2>1. CASE i \in 1 .. n /\ j \in 1 .. n
      BY <1>1, <1>3, <1>6, <2>1 DEF Shares
    <2>2. CASE i = n + 1 /\ j \in 1 .. n
      BY <1>3, <1>4, <2>2
    <2>3. CASE j = n + 1 /\ i \in 1 .. n
      BY <1>3, <1>4, <2>3
    <2>4. QED BY <1>2, <1>6, <2>1, <2>2, <2>3
  <1>7. ASSUME NEW i \in 1 .. n + 1 PROVE Cardinality(G[i]) = Append(pool, fresh)[i].newItemCount
    <2>1. CASE i \in 1 .. n
      BY <1>1, <1>3, <2>1 DEF Shares
    <2>2. CASE i = n + 1
      BY <1>1, <1>4, <2>2
    <2>3. QED BY <1>2, <2>1, <2>2
  <1>8. QED BY <1>1, <1>5, <1>6, <1>7 DEF Shares

(* A seed that is dropped takes its share with it.                         *)
LEMMA SharesRemove ==
  ASSUME NEW pool \in Seq(SeedType), NEW seen, NEW F, Shares(F, pool, seen), NEW out \in 1 .. Len(pool)
  PROVE  \E G : Shares(G, RemoveAt(pool, out), seen)
  <1> DEFINE n == Len(pool)
             p == RemoveAt(pool, out)
             old(i) == IF i < out THEN i ELSE i + 1
             G == [i \in 1 .. n - 1 |-> F[old(i)]]
  <1>1. n \in Nat /\ DOMAIN pool = 1 .. n
    BY LenProperties
  <1>2. DOMAIN p = 1 .. n - 1 /\ \A i \in 1 .. n - 1 : p[i] = pool[old(i)]
    BY RemoveAtProperties, LenProperties
  <1>3. /\ \A i \in 1 .. n - 1 : old(i) \in 1 .. n
        /\ \A i, j \in 1 .. n - 1 : i # j => old(i) # old(j)
    BY <1>1
  <1> HIDE DEF n, p, old
  <1>4. G \in [1 .. n - 1 -> SUBSET seen] /\ \A i \in 1 .. n - 1 : G[i] = F[old(i)]
    BY <1>1, <1>3 DEF Shares
  <1> HIDE DEF G
  <1>5. \A i, j \in 1 .. n - 1 : i # j => G[i] \cap G[j] = {}
    BY <1>1, <1>3, <1>4 DEF Shares
  <1>6. \A i \in 1 .. n - 1 : Cardinality(G[i]) = p[i].newItemCount
    BY <1>1, <1>2, <1>3, <1>4 DEF Shares
  <1>7. Shares(G, p, seen)
    BY <1>2, <1>4, <1>5, <1>6 DEF Shares
  <1>8. QED BY <1>7 DEF p

LEMMA AttributedInit == GInit => Attributed
  <1> SUFFICES ASSUME GInit PROVE Attributed
    OBVIOUS
  <1>1. Shares([i \in {} |-> {}], <<>>, {})
    BY DEF Shares
  <1>2. QED BY <1>1 DEF GInit, Attributed

LEMMA AttributedRecord ==
  ASSUME GTypeOK, Attributed, NEW testcase \in Testcase, RecordAnalysis(testcase)
  PROVE  Attributed'
  <1>1. PICK F : Shares(F, seedPool, visited)
    BY DEF Attributed
  <1> DEFINE fresh == [testcase |-> testcase, newItemCount |-> Cardinality(NewItems(testcase))]
  <1>2. visited' = visited \cup testcase
    BY DEF RecordAnalysis
  <1>3. CASE NewItems(testcase) = {}
    <2>1. seedPool' = seedPool
      BY <1>3 DEF RecordAnalysis
    <2>2. Shares(F, seedPool', visited')
      BY <1>1, <1>2, <2>1 DEF Shares
    <2>3. QED BY <2>2 DEF Attributed
  <1>4. CASE NewItems(testcase) # {}
    <2> DEFINE longer == Append(seedPool, fresh)
    <2>1. seedPool' = TrimSeedPool(longer)
      BY <1>4 DEF RecordAnalysis
    <2>2. fresh.newItemCount = Cardinality(testcase \ visited) /\ fresh \in SeedType
      BY SeedTyped DEF NewItems
    <2>3. longer \in Seq(SeedType) /\ seedPool \in Seq(SeedType) /\ Len(longer) \in Nat
      BY <2>2, AppendProperties, LenProperties DEF GTypeOK
    <2> HIDE DEF fresh
    <2>4. PICK G : Shares(G, longer, visited')
      BY <1>1, <1>2, <2>2, <2>3, SharesAppend
    <2> HIDE DEF longer
    <2>5. CASE Len(longer) > PoolLimit
      <3>1. LeastInteresting(longer) \in 1 .. Len(longer)
        BY <2>3, <2>5, PoolLimitAssumption, LeastInterestingFound
      <3>2. \E H : Shares(H, RemoveAt(longer, LeastInteresting(longer)), visited')
        BY <2>3, <2>4, <3>1, SharesRemove
      <3>3. QED BY <2>1, <2>5, <3>2 DEF TrimSeedPool, Attributed
    <2>6. CASE ~(Len(longer) > PoolLimit)
      BY <2>1, <2>4, <2>6 DEF TrimSeedPool, Attributed
    <2>7. QED BY <2>5, <2>6
  <1>5. QED BY <1>3, <1>4

(* The workers' reports never count an item for two seeds.                 *)
THEOREM CountedOnceHolds == GSpec => []CountedOnce
  <1>1. GTypeOK /\ Attributed /\ [GNext]_gvars => Attributed'
    <2> SUFFICES ASSUME GTypeOK, Attributed, [GNext]_gvars PROVE Attributed'
      OBVIOUS
    <2>1. CASE UNCHANGED gvars \/ SelectSeed
      BY <2>1 DEF gvars, SelectSeed, Attributed
    <2>2. QED BY <2>1, AttributedRecord DEF GNext
  <1>2. QED BY <1>1, AttributedInit, AttributedSuffices, GuidanceTyped, PTL DEF GSpec

-----------------------------------------------------------------------------
(* WorkerPool.                                                             *)

Active == {"check", "claim", "prepare", "select", "analyze", "completed"}
Over   == {"exited"} \cup Dead
Unborn == \A w \in WorkerIds : pc[w] = "unborn"

Stages ==
  /\ outcome = "none" <=> main # "done"
  /\ main = "start" => handle = 0 /\ Unborn
  /\ main \in {"spawn", "join"} => handle \in Workers
  /\ main = "spawn" => \A w \in WorkerIds : pc[w] = "unborn" <=> w >= handle
  /\ main = "join" => \A w \in Workers : /\ pc[w] # "unborn"
                                         /\ w < handle => pc[w] \in Over
  /\ main = "done" => \/ Workers # {} /\ \A w \in Workers : pc[w] \in Over
                      \/ Unborn /\ (outcome = "Ok" => config.maxRuns = {0})

FirstDead(e) ==
  /\ firstError = {e}
  /\ pc[e] \in Dead
  /\ main = "join" => e < handle
  /\ \A v \in Workers : pc[v] \in Dead => e <= v

Errors ==
  /\ main \in {"start", "spawn"} => firstError = {}
  /\ outcome = "Error" <=> main = "done" /\ firstError # {}
  /\ firstError = {} => /\ main = "join" => \A w \in Workers : w < handle => pc[w] = "exited"
                        /\ main = "done" => \A w \in Workers : pc[w] \in {"exited", "unborn"}
  /\ firstError # {} => \E e \in Workers : FirstDead(e)

Stopping ==
  /\ running = FALSE => firstError # {} \/ LimitReached
  /\ \A w \in Workers : pc[w] = "exited" => running = FALSE

(* The runs that were claimed are those below the counter, and a claimed   *)
(* run is done, or its worker is at it, or died of it.                     *)
Claims ==
  /\ \A m \in config.maxRuns : counter <= m
  /\ \A r \in RunIds : runs[r] = "new" <=> r >= counter
  /\ \A w \in Workers : pc[w] \in Busy => runs[run[w]] = "started"
  /\ \A v, w \in Workers : pc[v] \in Busy /\ pc[w] \in Busy /\ run[v] = run[w] => v = w
  /\ \A r \in RunIds : runs[r] = "started" => \E w \in Workers : pc[w] \in Busy /\ run[w] = r
  /\ \A r \in RunIds : runs[r] = "lost" => \E w \in Workers : pc[w] \in Dead /\ run[w] = r

IInv == TypeOK /\ Stages /\ Errors /\ Stopping /\ (Limited => Claims)

-----------------------------------------------------------------------------
(* What the options of a campaign are.                                     *)
LEMMA ConfigFacts ==
  ASSUME config \in Configs
  PROVE  /\ config.concurrency \in Nat /\ config.maxRuns \subseteq RunIds
         /\ WorkerIds \subseteq Nat /\ RunIds \subseteq Nat /\ 0 \in WorkerIds
         /\ Workers \subseteq WorkerIds
         /\ \A w \in Nat : w \in Workers <=> w < config.concurrency
         /\ \A m, n \in config.maxRuns : m = n
  <1>1. config \in ConfigType /\ config.concurrency <= MaxWorkers
    BY ConfigsAssumption
  <1>2. /\ config.concurrency \in Nat /\ config.maxRuns \subseteq Nat
        /\ \A m \in config.maxRuns : m < CounterWidth
    BY <1>1, ConfigsAssumption DEF ConfigType
  <1>3. config.maxRuns \subseteq RunIds
    BY <1>2, WidthAssumption DEF RunIds
  <1>4. ASSUME NEW m \in config.maxRuns PROVE config.maxRuns = {m}
    <2>1. IsFiniteSet(config.maxRuns)
      <3>1. IsFiniteSet(RunIds)
        BY WidthAssumption, FS_Interval DEF RunIds
      <3>2. QED BY <1>3, <3>1, FS_Subset
    <2>2. /\ IsFiniteSet(config.maxRuns \ {m})
          /\ Cardinality(config.maxRuns \ {m}) = Cardinality(config.maxRuns) - 1
      BY <2>1, FS_RemoveElement
    <2>3. Cardinality(config.maxRuns) <= 1
      BY ConfigsAssumption
    <2>4. Cardinality(config.maxRuns) \in Nat /\ Cardinality(config.maxRuns \ {m}) \in Nat
      BY <2>1, <2>2, FS_CardinalityType
    <2>5. Cardinality(config.maxRuns \ {m}) = 0
      BY <2>2, <2>3, <2>4
    <2>6. config.maxRuns \ {m} = {}
      BY <2>2, <2>5, FS_EmptySet
    <2>7. QED BY <2>6
  <1>5. Workers \subseteq WorkerIds /\ \A w \in Nat : w \in Workers <=> w < config.concurrency
    BY <1>1, <1>2, WidthAssumption DEF Workers, WorkerIds
  <1>6. WorkerIds \subseteq Nat /\ RunIds \subseteq Nat /\ 0 \in WorkerIds
    BY WidthAssumption DEF WorkerIds, RunIds
  <1>7. QED BY <1>2, <1>3, <1>4, <1>5, <1>6

(* What a worker may do to itself, and that it does nothing to the main    *)
(* thread or to another worker.                                            *)
LEMMA WorkerStep ==
  ASSUME TypeOK, NEW w \in Workers, Work(w) \/ Die(w)
  PROVE  /\ UNCHANGED <<config, main, handle, outcome, firstError>>
         /\ pc[w] \in Active /\ pc' = [pc EXCEPT ![w] = pc'[w]]
         /\ pc'[w] \in Active \cup Over
  <1>1. w \in WorkerIds
    BY ConfigFacts DEF TypeOK
  <1>2. CASE Check(w)
    BY <1>1, <1>2 DEF Check, Goto, TypeOK, Active, Over
  <1>3. CASE Claim(w)
    BY <1>1, <1>3 DEF Claim, Goto, TypeOK, Active, Over
  <1>4. CASE NoMoreRuns(w)
    BY <1>1, <1>4 DEF NoMoreRuns, Goto, TypeOK, Active, Over
  <1>5. CASE Prepare(w)
    BY <1>1, <1>5 DEF Prepare, Goto, TypeOK, Active, Over
  <1>6. CASE Select(w)
    BY <1>1, <1>6 DEF Select, Goto, TypeOK, Active, Over
  <1>7. CASE Complete(w)
    BY <1>1, <1>7 DEF Complete, Goto, TypeOK, Active, Over
  <1>8. CASE AnalysisFails(w)
    BY <1>1, <1>8 DEF AnalysisFails, Goto, TypeOK, Active, Over
  <1>9. CASE Die(w)
    BY <1>1, <1>9 DEF Die, Goto, TypeOK, Active, Over, Dead
  <1>10. QED BY <1>2, <1>3, <1>4, <1>5, <1>6, <1>7, <1>8, <1>9 DEF Work

(* How a worker's step changes the claims: it claims a run, goes on with   *)
(* it, is through with it, or was and is at none.                          *)
Idles(w) ==
  /\ pc[w] \notin Busy /\ pc'[w] \notin Busy \cup Dead
  /\ UNCHANGED <<counter, run, runs>>

ClaimsRun(w) ==
  /\ ~LimitReached /\ pc'[w] = "prepare" /\ pc[w] \notin Busy
  /\ counter' = (counter + 1) % CounterWidth
  /\ run' = [run EXCEPT ![w] = counter]
  /\ runs' = [runs EXCEPT ![counter] = "started"]

Continues(w) ==
  /\ pc[w] \in Busy /\ pc'[w] \in Busy
  /\ UNCHANGED <<counter, run, runs>>

Finishes(w) ==
  /\ pc[w] \in Busy /\ pc'[w] \notin Busy
  /\ UNCHANGED <<counter, run>>
  /\ \E how \in {"completed", "failed", "lost"} :
       /\ runs' = [runs EXCEPT ![run[w]] = how]
       /\ how = "lost" <=> pc'[w] \in Dead

LEMMA RunStep ==
  ASSUME TypeOK, NEW w \in Workers, Work(w) \/ Die(w)
  PROVE  Idles(w) \/ ClaimsRun(w) \/ Continues(w) \/ Finishes(w)
  <1>1. w \in WorkerIds
    BY ConfigFacts DEF TypeOK
  <1>2. CASE Check(w)
    <2>1. Idles(w)
      BY <1>1, <1>2 DEF Check, Goto, TypeOK, Idles, Busy, Dead
    <2>2. QED BY <2>1
  <1>3. CASE Claim(w)
    <2>1. ClaimsRun(w)
      BY <1>1, <1>3 DEF Claim, Goto, TypeOK, ClaimsRun, Busy
    <2>2. QED BY <2>1
  <1>4. CASE NoMoreRuns(w)
    <2>1. Idles(w)
      BY <1>1, <1>4 DEF NoMoreRuns, Goto, TypeOK, Idles, Busy, Dead
    <2>2. QED BY <2>1
  <1>5. CASE Prepare(w)
    <2>1. Continues(w)
      BY <1>1, <1>5 DEF Prepare, Goto, TypeOK, Continues, Busy
    <2>2. QED BY <2>1
  <1>6. CASE Select(w)
    <2>1. Continues(w)
      BY <1>1, <1>6 DEF Select, Goto, TypeOK, Continues, Busy
    <2>2. QED BY <2>1
  <1>7. CASE Complete(w)
    <2>1. Finishes(w)
      BY <1>1, <1>7 DEF Complete, Goto, TypeOK, Finishes, Finished, Busy, Dead
    <2>2. QED BY <2>1
  <1>8. CASE AnalysisFails(w)
    <2>1. Finishes(w)
      BY <1>1, <1>8 DEF AnalysisFails, Goto, TypeOK, Finishes, Finished, Busy, Dead
    <2>2. QED BY <2>1
  <1>9. CASE Die(w)
    <2>1. Finishes(w)
      BY <1>1, <1>9 DEF Die, Goto, TypeOK, Finishes, Finished, Busy, Dead
    <2>2. QED BY <2>1
  <1>10. QED BY <1>2, <1>3, <1>4, <1>5, <1>6, <1>7, <1>8, <1>9 DEF Work

(* The flag is lowered by a worker that finds the limit reached; a worker  *)
(* that exits leaves it down.                                              *)
LEMMA FlagStep ==
  ASSUME TypeOK, NEW w \in Workers, Work(w) \/ Die(w)
  PROVE  /\ running' = FALSE => running = FALSE \/ LimitReached
         /\ running = FALSE => running' = FALSE
         /\ pc'[w] = "exited" => running' = FALSE
  <1>1. w \in WorkerIds
    BY ConfigFacts DEF TypeOK
  <1>2. CASE Check(w)
    BY <1>1, <1>2 DEF Check, Goto, TypeOK
  <1>3. CASE NoMoreRuns(w)
    BY <1>1, <1>3 DEF NoMoreRuns
  <1>4. CASE Claim(w)
    BY <1>1, <1>4 DEF Claim, Goto, TypeOK
  <1>5. CASE Prepare(w)
    BY <1>1, <1>5 DEF Prepare, Goto, TypeOK
  <1>6. CASE Select(w)
    BY <1>1, <1>6 DEF Select, Goto, TypeOK
  <1>7. CASE Complete(w)
    BY <1>1, <1>7 DEF Complete, Goto, TypeOK
  <1>8. CASE AnalysisFails(w)
    BY <1>1, <1>8 DEF AnalysisFails, Goto, TypeOK
  <1>9. CASE Die(w)
    BY <1>1, <1>9 DEF Die, Goto, TypeOK
  <1>10. QED BY <1>2, <1>3, <1>4, <1>5, <1>6, <1>7, <1>8, <1>9 DEF Work

-----------------------------------------------------------------------------
(* Types.                                                                  *)
LEMMA InitTyped == Init => TypeOK
  <1> SUFFICES ASSUME Init PROVE TypeOK
    OBVIOUS
  <1>1. GTypeOK
    BY GInitTyped DEF Init
  <1>2. 0 \in WorkerIds /\ 0 \in RunIds
    BY WidthAssumption DEF WorkerIds, RunIds
  <1>3. QED BY <1>1, <1>2 DEF Init, TypeOK

LEMMA MainTyped == TypeOK /\ Main => TypeOK'
  <1> SUFFICES ASSUME TypeOK, Main PROVE TypeOK'
    OBVIOUS
  <1>1. UNCHANGED gvars
    BY DEF Main, Start, Spawn, Join
  <1>2. GTypeOK'
    BY <1>1 DEF TypeOK, GTypeOK, gvars
  <1>3. /\ \A w \in Workers : w \in WorkerIds
        /\ 0 \in WorkerIds
    BY ConfigFacts DEF TypeOK
  <1>4. CASE Start
    BY <1>2, <1>4 DEF Start, Return, TypeOK
  <1>5. CASE Spawn
    BY <1>2, <1>3, <1>5 DEF Spawn, TypeOK
  <1>6. CASE Join
    BY <1>2, <1>3, <1>6 DEF Join, Return, FirstError, TypeOK
  <1>7. QED BY <1>4, <1>5, <1>6 DEF Main

(* The steps of a worker keep the guidance typed: those that touch it are  *)
(* its methods.                                                            *)
LEMMA WorkerKeepsGuidance ==
  ASSUME TypeOK, NEW w \in Workers, Work(w) \/ Die(w)
  PROVE  GTypeOK'
  <1>1. GTypeOK
    BY DEF TypeOK
  <1>2. UNCHANGED gvars => GTypeOK'
    BY <1>1 DEF GTypeOK, gvars
  <1>3. ASSUME NEW testcase \in Tests, RecordAnalysis(testcase) PROVE GTypeOK'
    BY <1>1, <1>3, RecordTyped, TestsAssumption
  <1>4. SelectSeed => GTypeOK'
    BY <1>1, SelectTyped
  <1>5. Complete(w) => GTypeOK'
    BY <1>2, <1>3 DEF Complete
  <1>6. Select(w) => GTypeOK'
    BY <1>4 DEF Select
  <1>7. Check(w) \/ Claim(w) \/ NoMoreRuns(w) \/ Prepare(w) \/ AnalysisFails(w) \/ Die(w)
          => UNCHANGED gvars
    BY DEF Check, Claim, NoMoreRuns, Prepare, AnalysisFails, Die
  <1>8. QED BY <1>2, <1>5, <1>6, <1>7 DEF Work

LEMMA WorkerTyped ==
  ASSUME TypeOK, NEW w \in Workers, Work(w) \/ Die(w)
  PROVE  TypeOK'
  <1>1. GTypeOK' /\ w \in WorkerIds
    BY WorkerKeepsGuidance, ConfigFacts DEF TypeOK
  <1>2. /\ config' \in Configs
        /\ main' \in {"start", "spawn", "join", "done"} /\ handle' \in WorkerIds
        /\ outcome' \in {"none", "Ok", "BadOptions", "Io", "Error"}
        /\ firstError' \subseteq WorkerIds
    BY WorkerStep DEF TypeOK
  <1>3. pc' \in [WorkerIds -> {"unborn", "check", "claim", "prepare", "select", "analyze",
                               "completed", "exited"} \cup Dead]
    BY <1>1, WorkerStep DEF TypeOK, Active, Over
  <1>4. run' \in [WorkerIds -> RunIds] /\ counter' \in RunIds
    <2>1. CASE ClaimsRun(w)
      <3>1. counter \in RunIds
        BY DEF TypeOK
      <3>2. (counter + 1) % CounterWidth \in RunIds
        BY <3>1, WidthAssumption DEF RunIds
      <3>3. QED BY <1>1, <2>1, <3>1, <3>2 DEF ClaimsRun, TypeOK
    <2>2. QED BY <1>1, <2>1, RunStep DEF TypeOK, Idles, Continues, Finishes
  <1>5. runs' \in [RunIds -> {"new", "started", "completed", "failed", "lost"}]
    BY <1>1, RunStep DEF TypeOK, Idles, ClaimsRun, Continues, Finishes
  <1>6. running' \in BOOLEAN
    <2>1. CASE NoMoreRuns(w)
      BY <2>1 DEF NoMoreRuns
    <2>2. CASE ~NoMoreRuns(w)
      <3>1. UNCHANGED running
        BY <2>2 DEF Work, Check, Claim, Prepare, Select, Complete, AnalysisFails, Die
      <3>2. QED BY <3>1 DEF TypeOK
    <2>3. QED BY <2>1, <2>2
  <1>7. seed' \in [WorkerIds -> SUBSET Testcase]
    <2>1. CASE Prepare(w)
      BY <1>1, <2>1 DEF Prepare, TypeOK
    <2>2. CASE Select(w)
      BY <1>1, <2>2 DEF Select, TypeOK, GTypeOK
    <2>3. CASE Check(w) \/ Claim(w) \/ NoMoreRuns(w) \/ Complete(w) \/ AnalysisFails(w) \/ Die(w)
      BY <2>3 DEF Check, Claim, NoMoreRuns, Complete, AnalysisFails, Die, TypeOK
    <2>4. QED BY <2>1, <2>2, <2>3 DEF Work
  <1>8. QED BY <1>1, <1>2, <1>3, <1>4, <1>5, <1>6, <1>7 DEF TypeOK

(* Campaign and guidance keep their types.                                 *)
THEOREM TypeCorrect == Spec => []TypeOK
  <1>1. TypeOK /\ [Next]_vars => TypeOK'
    <2> SUFFICES ASSUME TypeOK, [Next]_vars PROVE TypeOK'
      OBVIOUS
    <2>1. CASE UNCHANGED vars
      BY <2>1 DEF vars, wvars, gvars, TypeOK, GTypeOK
    <2>2. QED BY <2>1, MainTyped, WorkerTyped DEF Next, Ended
  <1>2. QED BY <1>1, InitTyped, PTL DEF Spec

-----------------------------------------------------------------------------
(* The invariant.                                                          *)
LEMMA InitInv == Init => IInv
  <1> SUFFICES ASSUME Init PROVE IInv
    OBVIOUS
  <1>1. TypeOK
    BY InitTyped
  <1>2. /\ Workers \subseteq WorkerIds /\ WorkerIds \subseteq Nat /\ RunIds \subseteq Nat
        /\ config.maxRuns \subseteq RunIds
    BY <1>1, ConfigFacts DEF TypeOK
  <1>3. Stages
    BY <1>2 DEF Init, Stages, Unborn
  <1>4. Errors
    BY DEF Init, Errors
  <1>5. Stopping
    BY <1>2 DEF Init, Stopping
  <1>6. Claims
    <2>1. /\ \A w \in Workers : pc[w] \notin Busy
          /\ \A r \in RunIds : runs[r] = "new"
      BY <1>2 DEF Init, Busy
    <2>2. /\ \A m \in config.maxRuns : counter <= m
          /\ \A r \in RunIds : r >= counter
      <3>1. counter = 0
        BY DEF Init
      <3>2. \A r \in RunIds : r >= 0 /\ 0 <= r
        BY <1>2
      <3>3. QED BY <1>2, <3>1, <3>2
    <2>3. QED BY <2>1, <2>2 DEF Claims
  <1>7. QED BY <1>1, <1>3, <1>4, <1>5, <1>6 DEF IInv

(* A step that leaves counter and runs alone and frees or kills no worker. *)
LEMMA ClaimsStay ==
  ASSUME Claims, UNCHANGED <<config, counter, run, runs>>, Workers' = Workers,
         \A w \in Workers : (pc'[w] \in Busy <=> pc[w] \in Busy)
                         /\ (pc'[w] \in Dead <=> pc[w] \in Dead)
  PROVE  Claims'
  BY DEF Claims

(* Steps of the main thread.                                               *)
LEMMA StartInv == IInv /\ Start => Stages' /\ Errors' /\ Stopping' /\ (Limited => Claims)'
  <1> SUFFICES ASSUME IInv, Start
               PROVE  Stages' /\ Errors' /\ Stopping' /\ (Limited => Claims)'
    OBVIOUS
  <1>1. /\ Workers \subseteq WorkerIds /\ WorkerIds \subseteq Nat /\ 0 \in WorkerIds
        /\ config.concurrency \in Nat
        /\ \A w \in Nat : w \in Workers <=> w < config.concurrency
    BY ConfigFacts DEF IInv, TypeOK
  <1>2. /\ UNCHANGED <<config, handle, firstError, running, counter, pc, run, runs>>
        /\ Workers' = Workers
    BY DEF Start, Workers
  <1>3. main = "start" /\ handle = 0 /\ Unborn /\ firstError = {}
    BY DEF Start, IInv, Stages, Errors
  <1>4. Stages'
    <2>1. \A w \in WorkerIds : pc'[w] = "unborn"
      BY <1>2, <1>3 DEF Unborn
    <2>2. CASE config.concurrency = 0 \/ config.maxRuns = {0} \/ outcome' = "Io"
      <3>1. /\ main' = "done" /\ outcome' # "none"
            /\ outcome' = "Ok" => config.maxRuns = {0}
        BY <1>3, <2>2 DEF Start, Return, IInv, Stages
      <3>2. QED BY <1>2, <2>1, <3>1 DEF Stages, Unborn
    <2>3. CASE ~(config.concurrency = 0 \/ config.maxRuns = {0} \/ outcome' = "Io")
      <3>1. main' = "spawn" /\ outcome' = "none"
        BY <1>3, <2>3 DEF Start, Return, IInv, Stages
      <3>2. 0 \in Workers /\ \A w \in WorkerIds : w >= 0
        BY <1>1, <2>3
      <3>3. QED BY <1>2, <1>3, <2>1, <3>1, <3>2 DEF Stages
    <2>4. QED BY <2>2, <2>3
  <1>5. Errors'
    BY <1>1, <1>2, <1>3 DEF Start, Return, IInv, Errors, Unborn
  <1>6. Stopping'
    BY <1>2 DEF IInv, Stopping, LimitReached
  <1>7. (Limited => Claims)'
    BY <1>2 DEF IInv, Claims, Limited, Busy
  <1>8. QED BY <1>4, <1>5, <1>6, <1>7

LEMMA SpawnInv == IInv /\ Spawn => Stages' /\ Errors' /\ Stopping' /\ (Limited => Claims)'
  <1> SUFFICES ASSUME IInv, Spawn
               PROVE  Stages' /\ Errors' /\ Stopping' /\ (Limited => Claims)'
    OBVIOUS
  <1>1. /\ Workers \subseteq WorkerIds /\ WorkerIds \subseteq Nat /\ 0 \in WorkerIds
        /\ config.concurrency \in Nat
        /\ \A w \in Nat : w \in Workers <=> w < config.concurrency
    BY ConfigFacts DEF IInv, TypeOK
  <1>2. /\ UNCHANGED <<config, outcome, firstError, running, counter, run, runs>>
        /\ Workers' = Workers
    BY DEF Spawn, Workers
  <1>3. /\ main = "spawn" /\ handle \in Workers /\ outcome = "none" /\ firstError = {}
        /\ \A w \in WorkerIds : pc[w] = "unborn" <=> w >= handle
    BY DEF Spawn, IInv, Stages, Errors
  <1>4. /\ \A w \in WorkerIds : pc'[w] = IF w = handle THEN "check" ELSE pc[w]
        /\ pc[handle] = "unborn"
    BY <1>1, <1>3 DEF Spawn, IInv, TypeOK
  <1>5. \/ main' = "spawn" /\ handle' = handle + 1
        \/ main' = "join" /\ handle' = 0
    BY <1>3 DEF Spawn
  <1>6. Stages'
    <2>1. CASE handle + 1 \in Workers
      <3>1. main' = "spawn" /\ handle' = handle + 1
        BY <2>1, <1>3 DEF Spawn
      <3>2. \A w \in WorkerIds : pc'[w] = "unborn" <=> w >= handle + 1
        BY <1>1, <1>3, <1>4
      <3>3. QED BY <1>2, <1>3, <2>1, <3>1, <3>2 DEF Stages
    <2>2. CASE handle + 1 \notin Workers
      <3>1. main' = "join" /\ handle' = 0
        BY <2>2 DEF Spawn
      <3>2. 0 \in Workers /\ \A w \in Workers : w <= handle /\ ~(w < 0)
        BY <1>1, <1>3, <2>2
      <3>3. \A w \in Workers : pc'[w] # "unborn"
        BY <1>1, <1>3, <1>4, <3>2
      <3>4. QED BY <1>2, <1>3, <3>1, <3>2, <3>3 DEF Stages
    <2>3. QED BY <2>1, <2>2
  <1>7. Errors'
    BY <1>1, <1>2, <1>3, <1>5 DEF IInv, Errors
  <1>8. Stopping'
    BY <1>1, <1>2, <1>4 DEF IInv, Stopping, LimitReached
  <1>9. (Limited => Claims)'
    <2>1. \A w \in Workers : /\ pc'[w] \in Busy <=> pc[w] \in Busy
                             /\ pc'[w] \in Dead <=> pc[w] \in Dead
      BY <1>1, <1>4 DEF Busy, Dead
    <2>2. QED BY <1>2, <2>1, ClaimsStay DEF IInv, Limited
  <1>10. QED BY <1>6, <1>7, <1>8, <1>9

LEMMA JoinInv == IInv /\ Join => Stages' /\ Errors' /\ Stopping' /\ (Limited => Claims)'
  <1> SUFFICES ASSUME IInv, Join
               PROVE  Stages' /\ Errors' /\ Stopping' /\ (Limited => Claims)'
    OBVIOUS
  <1>1. /\ Workers \subseteq WorkerIds /\ WorkerIds \subseteq Nat
        /\ config.concurrency \in Nat
        /\ \A w \in Nat : w \in Workers <=> w < config.concurrency
    BY ConfigFacts DEF IInv, TypeOK
  <1>2. UNCHANGED <<config, counter, pc, run, runs>> /\ Workers' = Workers
    BY DEF Join, Workers
  <1>3. /\ main = "join" /\ handle \in Workers /\ outcome = "none"
        /\ \A w \in Workers : pc[w] # "unborn" /\ (w < handle => pc[w] \in Over)
    BY DEF Join, IInv, Stages
  <1>4. \/ pc[handle] \in Dead /\ running' = FALSE /\ firstError' = FirstError
        \/ pc[handle] = "exited" /\ UNCHANGED <<running, firstError>>
    BY DEF Join
  <1>5. \/ handle + 1 \in Workers /\ main' = "join" /\ handle' = handle + 1 /\ outcome' = "none"
        \/ /\ handle + 1 \notin Workers /\ main' = "done" /\ handle' = handle
           /\ outcome' = IF firstError' = {} THEN "Ok" ELSE "Error"
    BY <1>3 DEF Join, Return
  <1>6. /\ \A w \in Workers : w < handle + 1 => w < handle \/ w = handle
        /\ handle + 1 \notin Workers => \A w \in Workers : w < handle + 1
        /\ handle < handle + 1 /\ \A e \in Workers : e < handle => e < handle + 1
    BY <1>1, <1>3
  <1>7. \A w \in Workers : w < handle + 1 => pc[w] \in Over
    BY <1>3, <1>4, <1>6 DEF Over
  <1>8. Stages'
    <2>1. CASE handle + 1 \in Workers
      BY <1>2, <1>3, <1>5, <1>7, <2>1 DEF Stages
    <2>2. CASE handle + 1 \notin Workers
      BY <1>2, <1>3, <1>5, <1>6, <1>7, <2>2 DEF Stages
    <2>3. QED BY <2>1, <2>2
  (* An error already kept is of a worker joined before; the first one kept *)
  (* is of this one, and all that were joined before had exited.            *)
  <1>9. firstError' # {} => \E e \in Workers : FirstDead(e)'
    <2>1. CASE firstError # {}
      <3>1. PICK e \in Workers : FirstDead(e)
        BY <2>1 DEF IInv, Errors
      <3>2. firstError' = firstError
        BY <1>4, <2>1 DEF FirstError
      <3>3. e < handle + 1
        BY <1>3, <1>6, <3>1 DEF FirstDead
      <3>4. FirstDead(e)'
        BY <1>2, <1>5, <3>1, <3>2, <3>3 DEF FirstDead
      <3>5. QED BY <3>4
    <2>2. CASE firstError = {} /\ pc[handle] \in Dead
      <3>1. firstError' = {handle}
        BY <1>4, <2>2 DEF FirstError, Dead
      <3>2. \A v \in Workers : v < handle => pc[v] = "exited"
        BY <1>3, <2>2 DEF IInv, Errors
      <3>3. \A v \in Workers : pc[v] \in Dead => ~(v < handle)
        BY <3>2 DEF Dead
      <3>4. \A v \in Workers : pc[v] \in Dead => handle <= v
        BY <1>1, <1>3, <3>3
      <3>5. PICK e \in Workers : e = handle
        BY <1>3
      <3>6. main' = "join" => e < handle'
        BY <1>5, <1>6, <3>5
      <3>7. FirstDead(e)'
        BY <1>2, <2>2, <3>1, <3>4, <3>5, <3>6 DEF FirstDead
      <3>8. QED BY <3>7
    <2>3. CASE firstError = {} /\ pc[handle] = "exited"
      BY <1>4, <2>3 DEF Dead
    <2>4. QED BY <1>4, <2>1, <2>2, <2>3
  <1>10. firstError' = {} => \A w \in Workers : w < handle + 1 => pc'[w] = "exited"
    <2>1. ASSUME firstError' = {} PROVE firstError = {} /\ pc[handle] = "exited"
      BY <1>4, <2>1 DEF FirstError
    <2>2. QED BY <1>2, <1>3, <1>6, <2>1 DEF IInv, Errors
  <1>11. Errors'
    BY <1>2, <1>5, <1>6, <1>9, <1>10 DEF Errors
  <1>12. Stopping'
    <2>1. running' = FALSE => firstError' # {} \/ LimitReached'
      <3>1. LimitReached' <=> LimitReached
        BY <1>2 DEF LimitReached
      <3>2. firstError # {} => firstError' # {}
        BY <1>4 DEF FirstError
      <3>3. QED BY <1>4, <3>1, <3>2 DEF IInv, Stopping, FirstError
    <2>2. \A w \in Workers : pc[w] = "exited" => running' = FALSE
      BY <1>4 DEF IInv, Stopping
    <2>3. QED BY <1>2, <2>1, <2>2 DEF Stopping
  <1>13. (Limited => Claims)'
    BY <1>2 DEF IInv, Claims, Limited, Busy
  <1>14. QED BY <1>8, <1>11, <1>12, <1>13

(* Steps of a worker.                                                      *)
LEMMA WorkerInv ==
  ASSUME IInv, NEW w \in Workers, Work(w) \/ Die(w)
  PROVE  Stages' /\ Errors' /\ Stopping' /\ (Limited => Claims)'
  <1>1. /\ Workers \subseteq WorkerIds /\ WorkerIds \subseteq Nat /\ RunIds \subseteq Nat
        /\ config.concurrency \in Nat /\ config.maxRuns \subseteq RunIds
        /\ TypeOK
    BY ConfigFacts DEF IInv, TypeOK
  <1>2. /\ UNCHANGED <<config, main, handle, outcome, firstError>>
        /\ Workers' = Workers
    BY <1>1, WorkerStep DEF Workers
  <1>3. /\ pc[w] \in Active /\ pc'[w] \in Active \cup Over
        /\ \A v \in WorkerIds : v # w => pc'[v] = pc[v]
    BY <1>1, WorkerStep DEF TypeOK
  <1>4. /\ pc[w] \notin Over /\ pc[w] # "unborn" /\ pc'[w] # "unborn"
        /\ w \in WorkerIds
    BY <1>1, <1>3 DEF Active, Over, Dead
  <1>5. /\ main \notin {"start", "done"}
        /\ main = "join" => ~(w < handle)
    BY <1>1, <1>4 DEF IInv, TypeOK, Stages, Unborn
  <1>6. Stages'
    <2>1. \A v \in WorkerIds : pc'[v] = "unborn" <=> pc[v] = "unborn"
      BY <1>3, <1>4
    <2>2. \A v \in Workers : main = "join" /\ v < handle => pc'[v] = pc[v]
      BY <1>1, <1>3, <1>5
    <2>3. QED BY <1>1, <1>2, <1>5, <2>1, <2>2 DEF IInv, Stages
  <1>7. Errors'
    <2>1. CASE firstError = {}
      <3>1. \A v \in Workers : main = "join" /\ v < handle => pc'[v] = "exited"
        BY <1>1, <1>3, <1>5, <2>1 DEF IInv, Errors
      <3>2. QED BY <1>2, <1>5, <2>1, <3>1 DEF IInv, Errors
    <2>2. CASE firstError # {}
      <3>1. PICK e \in Workers : FirstDead(e)
        BY <2>2 DEF IInv, Errors
      <3>2. main = "join"
        BY <1>1, <1>5, <2>2 DEF IInv, TypeOK, Errors
      <3>3. e < handle /\ e # w /\ e <= w
        <4>1. handle \in Nat
          BY <1>1 DEF TypeOK
        <4>2. QED BY <1>1, <1>5, <3>1, <3>2, <4>1 DEF FirstDead
      <3>4. FirstDead(e)'
        BY <1>1, <1>2, <1>3, <3>1, <3>3 DEF FirstDead
      <3>5. QED BY <1>2, <1>5, <2>2, <3>4 DEF IInv, Errors
    <2>3. QED BY <2>1, <2>2
  <1>8. Stopping'
    <2>1. /\ running' = FALSE => running = FALSE \/ LimitReached
          /\ running = FALSE => running' = FALSE
          /\ pc'[w] = "exited" => running' = FALSE
      BY <1>1, FlagStep
    <2>2. LimitReached => LimitReached'
      BY <1>1, <1>2, RunStep DEF LimitReached, Idles, ClaimsRun, Continues, Finishes
    <2>3. running' = FALSE => firstError' # {} \/ LimitReached'
      BY <1>2, <2>1, <2>2 DEF IInv, Stopping
    <2>4. \A v \in Workers : pc'[v] = "exited" => running' = FALSE
      BY <1>1, <1>3, <2>1 DEF IInv, Stopping
    <2>5. QED BY <1>2, <2>3, <2>4 DEF Stopping
  <1>9. ASSUME Limited PROVE Claims'
    <2>1. Claims
      BY <1>9 DEF IInv
    <2>2. CASE Idles(w)
      <3>1. /\ UNCHANGED <<counter, run, runs>>
            /\ \A v \in Workers : /\ pc'[v] \in Busy <=> pc[v] \in Busy
                                  /\ pc'[v] \in Dead <=> pc[v] \in Dead
        BY <1>1, <1>3, <1>4, <2>2 DEF Idles, Over
      <3>2. QED BY <1>2, <2>1, <3>1, ClaimsStay
    <2>3. CASE Continues(w)
      <3>1. /\ UNCHANGED <<counter, run, runs>>
            /\ \A v \in Workers : /\ pc'[v] \in Busy <=> pc[v] \in Busy
                                  /\ pc'[v] \in Dead <=> pc[v] \in Dead
        BY <1>1, <1>3, <1>4, <2>3 DEF Continues, Over, Busy, Dead
      <3>2. QED BY <1>2, <2>1, <3>1, ClaimsStay
    <2>4. CASE ClaimsRun(w)
      <3>1. counter \in RunIds /\ run \in [WorkerIds -> RunIds]
        BY <1>1 DEF TypeOK
      <3>2. PICK m \in config.maxRuns : counter < m
        BY <1>1, <1>9, <2>4, <3>1, WidthAssumption DEF ClaimsRun, Limited, LimitReached, RunIds
      <3>3. counter' = counter + 1
        BY <1>1, <2>4, <3>1, <3>2, WidthAssumption DEF ClaimsRun, RunIds
      <3>4. \A n \in config.maxRuns : counter' <= n
        BY <1>1, <2>4, <3>1, <3>3, WidthAssumption DEF ClaimsRun, LimitReached, RunIds
      <3>5. /\ \A r \in RunIds : runs'[r] = IF r = counter THEN "started" ELSE runs[r]
            /\ \A v \in Workers : run'[v] = IF v = w THEN counter ELSE run[v]
        BY <1>1, <2>4, <3>1 DEF ClaimsRun, TypeOK
      <3>6. \A r \in RunIds : runs'[r] = "new" <=> r >= counter'
        BY <2>1, <3>1, <3>3, <3>5, WidthAssumption DEF Claims, RunIds
      <3>7. \A v \in Workers : pc[v] \in Busy => run[v] # counter
        BY <1>1, <2>1, <3>1, WidthAssumption DEF Claims, RunIds, TypeOK
      <3>8. /\ \A v \in Workers : pc'[v] \in Busy <=> pc[v] \in Busy \/ v = w
            /\ \A v \in Workers : pc'[v] \in Dead <=> pc[v] \in Dead
            /\ pc[w] \notin Busy
        BY <1>1, <1>3, <1>4, <2>4 DEF ClaimsRun, Busy, Dead, Over
      <3>9. \A v \in Workers : pc'[v] \in Busy => runs'[run'[v]] = "started"
        BY <1>1, <2>1, <3>1, <3>5, <3>7, <3>8 DEF Claims
      <3>10. \A u, v \in Workers : pc'[u] \in Busy /\ pc'[v] \in Busy /\ run'[u] = run'[v] => u = v
        BY <2>1, <3>5, <3>7, <3>8 DEF Claims
      <3>11. \A r \in RunIds : runs'[r] = "started" => \E v \in Workers : pc'[v] \in Busy /\ run'[v] = r
        BY <2>1, <3>5, <3>8 DEF Claims
      <3>12. \A r \in RunIds : runs'[r] = "lost" => \E v \in Workers : pc'[v] \in Dead /\ run'[v] = r
        BY <1>4, <2>1, <3>5, <3>8 DEF Claims, Over
      <3>13. QED BY <1>2, <3>4, <3>6, <3>9, <3>10, <3>11, <3>12 DEF Claims
    <2>5. CASE Finishes(w)
      <3>1. PICK how \in {"completed", "failed", "lost"} :
              /\ runs' = [runs EXCEPT ![run[w]] = how]
              /\ how = "lost" <=> pc'[w] \in Dead
        BY <2>5 DEF Finishes
      <3>2. run[w] \in RunIds /\ UNCHANGED <<counter, run>>
        BY <1>1, <1>4, <2>5 DEF Finishes, TypeOK
      <3>3. /\ \A r \in RunIds : runs'[r] = IF r = run[w] THEN how ELSE runs[r]
            /\ run \in [WorkerIds -> RunIds]
        BY <1>1, <3>1, <3>2 DEF TypeOK
      <3>4. \A v \in Workers : /\ pc'[v] \in Busy <=> pc[v] \in Busy /\ v # w
                               /\ v # w => (pc'[v] \in Dead <=> pc[v] \in Dead)
        BY <1>1, <1>3, <2>5 DEF Finishes
      <3>5. pc[w] \in Busy /\ pc[w] \notin Dead /\ runs[run[w]] = "started"
        BY <1>4, <2>1, <2>5 DEF Finishes, Claims, Over
      <3>6. \A r \in RunIds : runs'[r] = "new" <=> r >= counter'
        BY <2>1, <3>1, <3>2, <3>3, <3>5 DEF Claims
      <3>7. \A v \in Workers : pc'[v] \in Busy => runs'[run'[v]] = "started"
        BY <1>1, <2>1, <3>2, <3>3, <3>4, <3>5 DEF Claims
      <3>8. \A r \in RunIds : runs'[r] = "started" => \E v \in Workers : pc'[v] \in Busy /\ run'[v] = r
        BY <2>1, <3>1, <3>2, <3>3, <3>4 DEF Claims
      <3>9. \A r \in RunIds : runs'[r] = "lost" => \E v \in Workers : pc'[v] \in Dead /\ run'[v] = r
        BY <2>1, <3>1, <3>2, <3>3, <3>4, <3>5 DEF Claims
      <3>10. QED BY <1>2, <2>1, <3>2, <3>4, <3>6, <3>7, <3>8, <3>9 DEF Claims
    <2>6. QED BY <1>1, <2>2, <2>3, <2>4, <2>5, RunStep
  <1>10. QED BY <1>2, <1>6, <1>7, <1>8, <1>9 DEF Limited

LEMMA StepInv == IInv /\ [Next]_vars => IInv'
  <1> SUFFICES ASSUME IInv, [Next]_vars PROVE IInv'
    OBVIOUS
  <1>1. TypeOK
    BY DEF IInv
  <1>2. CASE UNCHANGED vars
    <2>1. TypeOK' /\ Stages' /\ Errors' /\ Stopping' /\ (Limited => Claims)'
      BY <1>2 DEF vars, wvars, gvars, IInv, TypeOK, GTypeOK, Stages, Unborn, Errors,
                  FirstDead, Stopping, LimitReached, Claims, Limited, Workers
    <2>2. QED BY <2>1 DEF IInv
  <1>3. CASE Main
    <2>1. TypeOK'
      BY <1>1, <1>3, MainTyped
    <2>2. QED BY <1>3, <2>1, StartInv, SpawnInv, JoinInv DEF Main, IInv
  <1>4. ASSUME NEW w \in Workers, Work(w) \/ Die(w) PROVE IInv'
    <2>1. TypeOK'
      BY <1>1, <1>4, WorkerTyped
    <2>2. QED BY <1>4, <2>1, WorkerInv DEF IInv
  <1>5. QED BY <1>2, <1>3, <1>4 DEF Next, Ended

LEMMA Invariant == Spec => []IInv
  BY InitInv, StepInv, PTL DEF Spec

-----------------------------------------------------------------------------
(* Two workers are never at the same run, and no run beyond the limit is   *)
(* started.                                                                *)
THEOREM RunsStayDistinct == Spec => []RunsDistinct
  <1>1. IInv => RunsDistinct
    <2> SUFFICES ASSUME IInv, Limited PROVE RunsDistinct
      BY DEF RunsDistinct
    <2>1. Claims /\ Limit \in config.maxRuns
      BY DEF IInv, Limited, Limit
    <2>2. config.maxRuns \subseteq RunIds /\ counter \in RunIds
      BY ConfigFacts DEF IInv, TypeOK
    <2>3. \A r \in RunIds : r >= Limit => runs[r] = "new"
      BY <2>1, <2>2, WidthAssumption DEF Claims, RunIds
    <2>4. QED BY <2>1, <2>3 DEF RunsDistinct, Claims
  <1>2. QED BY <1>1, Invariant, PTL

(* A started run that comes to nothing took its worker with it.            *)
THEOREM LossesExplained == Spec => []LostWithWorker
  <1>1. IInv => LostWithWorker
    BY DEF IInv, Claims, LostWithWorker
  <1>2. QED BY <1>1, Invariant, PTL

(* A campaign that returns Ok has done every run it was asked for.         *)
THEOREM CampaignComplete == Spec => []AllRunsDone
  <1>1. IInv => AllRunsDone
    <2> SUFFICES ASSUME IInv, main = "done" PROVE AllRunsDone
      BY DEF AllRunsDone
    <2>1. /\ Workers \subseteq WorkerIds /\ config.maxRuns \subseteq RunIds
          /\ \A m, n \in config.maxRuns : m = n
          /\ counter \in RunIds /\ RunIds \subseteq Nat
          /\ runs \in [RunIds -> {"new", "started", "completed", "failed", "lost"}]
      BY ConfigFacts DEF IInv, TypeOK
    <2>2. \/ Workers # {} /\ \A w \in Workers : pc[w] \in Over
          \/ Unborn /\ (outcome = "Ok" => config.maxRuns = {0})
      BY DEF IInv, Stages
    <2>3. \A w \in Workers : pc[w] \in Dead \cup {"exited", "unborn"}
      BY <2>1, <2>2 DEF Over, Unborn
    <2>4. ASSUME outcome = "Ok", NEW m \in config.maxRuns, NEW r \in 0..m - 1
          PROVE  runs[r] \in {"completed", "failed"}
      <3>1. m \in Nat /\ m # 0
        BY <2>1, <2>4, WidthAssumption DEF RunIds
      <3>2. Workers # {} /\ \A w \in Workers : pc[w] \in Over
        BY <2>2, <2>4, <3>1
      <3>3. firstError = {}
        BY <2>4 DEF IInv, Errors
      <3>4. \A w \in Workers : pc[w] = "exited"
        BY <3>2, <3>3 DEF IInv, Errors, Over, Dead
      <3>5. LimitReached
        BY <3>2, <3>3, <3>4 DEF IInv, Stopping
      <3>6. counter >= m
        BY <2>1, <3>5 DEF LimitReached
      <3>7. r \in RunIds /\ ~(r >= counter)
        BY <2>1, <3>1, <3>6, WidthAssumption DEF RunIds
      <3>8. Claims
        BY <2>4 DEF IInv, Limited
      <3>9. runs[r] # "new"
        BY <3>7, <3>8 DEF Claims
      <3>10. runs[r] # "started" /\ runs[r] # "lost"
        BY <3>4, <3>7, <3>8 DEF Claims, Busy, Dead
      <3>11. QED BY <2>1, <3>7, <3>9, <3>10
    <2>5. QED BY <2>3, <2>4 DEF AllRunsDone
  <1>2. QED BY <1>1, Invariant, PTL

(* The error a campaign returns is that of the first dead worker.          *)
THEOREM FirstErrorReturned == Spec => []ErrorReturned
  <1>1. IInv => ErrorReturned
    <2> SUFFICES ASSUME IInv, main = "done" PROVE ErrorReturned
      BY DEF ErrorReturned
    <2> DEFINE dead == {w \in Workers : pc[w] \in Dead}
    <2>1. outcome = "Error" <=> firstError # {}
      BY DEF IInv, Errors
    <2>2. CASE firstError = {}
      <3>1. dead = {}
        BY <2>2 DEF IInv, Errors, Dead
      <3>2. QED BY <2>1, <2>2, <3>1 DEF ErrorReturned
    <2>3. CASE firstError # {}
      <3>1. PICK e \in Workers : FirstDead(e)
        BY <2>3 DEF IInv, Errors
      <3>2. e \in dead /\ firstError = {e} /\ \A v \in dead : e <= v
        BY <3>1 DEF FirstDead
      <3>3. QED BY <2>1, <2>3, <3>2 DEF ErrorReturned
    <2>4. QED BY <2>2, <2>3
  <1>2. QED BY <1>1, Invariant, PTL

(* Without a limit a worker only exits after another one died.             *)
THEOREM DeathStops == Spec => []OnlyDeathStops
  <1>1. IInv => OnlyDeathStops
    <2> SUFFICES ASSUME IInv, ~Limited, NEW w \in Workers, pc[w] = "exited"
                 PROVE  \E e \in Workers : pc[e] \in Dead
      BY DEF OnlyDeathStops
    <2>1. ~LimitReached
      BY DEF Limited, LimitReached
    <2>2. firstError # {}
      BY <2>1 DEF IInv, Stopping
    <2>3. QED BY <2>2 DEF IInv, Errors, FirstDead
  <1>2. QED BY <1>1, Invariant, PTL

(* Every run of a campaign of any size is claimed once, and done or lost   *)
(* with its worker.                                                        *)
THEOREM RunsAlwaysAccounted == Spec => []RunsAccounted
  BY RunsStayDistinct, LossesExplained, CampaignComplete, PTL DEF RunsAccounted

(* A worker's death is what stops an unlimited campaign, and the campaign  *)
(* returns the error of the first.                                         *)
THEOREM DeathsAlwaysTold == Spec => []DeathsTold
  BY FirstErrorReturned, DeathStops, PTL DEF DeathsTold
=============================================================================

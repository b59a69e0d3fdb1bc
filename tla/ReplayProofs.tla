---------------------------- MODULE ReplayProofs ----------------------------
(***************************************************************************)
(* For any cores, user memories and configurations: the memory that a      *)
(* testcase is given is usable on every core, through its whole life, and  *)
(* the replay of an instruction restores what it met.                      *)
(***************************************************************************)
EXTENDS Replay, FiniteSetTheorems, SequenceTheorems, WellFoundedInduction, TLAPS

-----------------------------------------------------------------------------
(* Induction, and the recursive functions of the model.                    *)

(* Sets of natural numbers have a least element.                           *)
LEMMA LeastNumber ==
  ASSUME NEW T \in SUBSET Nat, T # {}
  PROVE  \E x \in T : \A y \in T : x <= y
<1> DEFINE R == OpToRel(<, Nat)
<1>1. IsWellFoundedOn(R, Nat)
  BY NatLessThanWellFounded
<1>2. PICK x \in T : \A y \in T : ~(<<y, x>> \in R)
  <2> HIDE DEF R
  <2> QED BY <1>1, WFMin
<1>3. \A y \in T : ~(y < x)
  BY <1>2 DEF OpToRel
<1> QED BY <1>3

(* A set with 0 and the successors of its numbers holds all numbers.       *)
LEMMA Induction ==
  ASSUME NEW T, 0 \in T, \A n \in Nat : n \in T => n + 1 \in T
  PROVE  \A n \in Nat : n \in T
<1> DEFINE Missing == Nat \ T
<1> SUFFICES ASSUME Missing # {} PROVE FALSE
  OBVIOUS
<1>1. PICK x \in Missing : \A y \in Missing : x <= y
  <2>1. Missing \in SUBSET Nat
    OBVIOUS
  <2> HIDE DEF Missing
  <2> QED BY <2>1, LeastNumber
<1>2. x \in Nat /\ x \notin T
  OBVIOUS
<1>3. x # 0
  BY <1>2
<1>4. x - 1 \in Nat /\ ~(x <= x - 1)
  BY <1>2, <1>3
<1>5. x - 1 \in T
  BY <1>1, <1>4
<1>6. (x - 1) + 1 \in T
  BY <1>4, <1>5
<1> QED BY <1>2, <1>6

(* The states of an execution, one after each instruction.                 *)
IsRun(f, c, s, block, n) ==
  f = [k \in 0 .. n |-> IF k = 0 THEN s ELSE Execute(c, f[k - 1], block[k])]

LEMMA RunExists ==
  ASSUME NEW c, NEW s, NEW block, NEW n \in Nat
  PROVE  \E f : IsRun(f, c, s, block, n)
<1> DEFINE Solved(m) == \E f : IsRun(f, c, s, block, m)
           T         == {m \in Nat : Solved(m)}
<1>1. 0 \in T
  <2> DEFINE u == [k \in 0 .. 0 |-> s]
  <2>1. u = [k \in 0 .. 0 |-> IF k = 0 THEN s ELSE Execute(c, u[k - 1], block[k])]
    OBVIOUS
  <2> HIDE DEF u
  <2>2. Solved(0)
    BY <2>1 DEF IsRun
  <2> QED BY <2>2
<1>2. ASSUME NEW m \in Nat, m \in T PROVE m + 1 \in T
  <2>1. PICK f : f = [k \in 0 .. m |-> IF k = 0 THEN s ELSE Execute(c, f[k - 1], block[k])]
    BY <1>2 DEF IsRun
  <2> DEFINE g == [k \in 0 .. m |-> IF k = 0 THEN s ELSE Execute(c, f[k - 1], block[k])]
             u == [k \in 0 .. m + 1 |-> IF k = 0 THEN s ELSE Execute(c, f[k - 1], block[k])]
  <2>2. \A k \in 0 .. m : u[k] = g[k]
    OBVIOUS
  <2>3. \A k \in 0 .. m : u[k] = f[k]
    <3> HIDE DEF u
    <3> QED BY <2>1, <2>2
  <2>4. \A k \in 0 .. m + 1 : u[k] = IF k = 0 THEN s ELSE Execute(c, u[k - 1], block[k])
    <3> SUFFICES ASSUME NEW k \in 0 .. m + 1, k # 0 PROVE u[k] = Execute(c, u[k - 1], block[k])
      OBVIOUS
    <3>1. k - 1 \in 0 .. m
      OBVIOUS
    <3>2. u[k] = Execute(c, f[k - 1], block[k])
      OBVIOUS
    <3> HIDE DEF u
    <3> QED BY <2>3, <3>1, <3>2
  <2>5. u = [k \in 0 .. m + 1 |-> u[k]]
    OBVIOUS
  <2> HIDE DEF u
  <2>6. u = [k \in 0 .. m + 1 |-> IF k = 0 THEN s ELSE Execute(c, u[k - 1], block[k])]
    BY <2>4, <2>5
  <2>7. Solved(m + 1)
    BY <2>6 DEF IsRun
  <2> HIDE DEF Solved
  <2> QED BY <2>7
<1> HIDE DEF T
<1>3. n \in T
  BY <1>1, <1>2, Induction
<1> QED BY <1>3 DEF T

(* What the proofs use of RunBlock.                                        *)
Follows(f, c, s, block) ==
  /\ f[0] = s
  /\ \A k \in 1 .. Len(block) : f[k] = Execute(c, f[k - 1], block[k])
  /\ RunBlock(c, s, block) = f[Len(block)]

LEMMA RunUnfolds ==
  ASSUME NEW c, NEW s, NEW block, Len(block) \in Nat
  PROVE  \E f : Follows(f, c, s, block)
<1> DEFINE f == CHOOSE f : f = [k \in 0 .. Len(block) |->
                                  IF k = 0 THEN s ELSE Execute(c, f[k - 1], block[k])]
<1>1. f = [k \in 0 .. Len(block) |-> IF k = 0 THEN s ELSE Execute(c, f[k - 1], block[k])]
  <2> HIDE DEF f
  <2>1. PICK g : IsRun(g, c, s, block, Len(block))
    BY RunExists
  <2>2. g = [k \in 0 .. Len(block) |-> IF k = 0 THEN s ELSE Execute(c, g[k - 1], block[k])]
    BY <2>1, Zenon DEF IsRun
  <2> QED BY <2>2, Zenon DEF f
<1>2. RunBlock(c, s, block) = f[Len(block)]
  BY DEF RunBlock
<1> HIDE DEF f
<1>3. f[0] = s /\ \A k \in 1 .. Len(block) : f[k] = Execute(c, f[k - 1], block[k])
  BY <1>1
<1>4. Follows(f, c, s, block)
  BY <1>2, <1>3 DEF Follows
<1> QED BY <1>4

(* What holds before a block and is kept by its instructions holds after   *)
(* it.                                                                     *)
LEMMA RunPreserves ==
  ASSUME NEW P, NEW c, NEW s \in P, NEW block, Len(block) \in Nat,
         \A x \in P : \A k \in 1 .. Len(block) : Execute(c, x, block[k]) \in P
  PROVE  RunBlock(c, s, block) \in P
<1>0. PICK f : Follows(f, c, s, block)
  BY RunUnfolds
<1>1. /\ f[0] = s
      /\ \A k \in 1 .. Len(block) : f[k] = Execute(c, f[k - 1], block[k])
      /\ RunBlock(c, s, block) = f[Len(block)]
  BY <1>0 DEF Follows
<1> DEFINE T == {k \in Nat : k <= Len(block) => f[k] \in P}
<1>2. 0 \in T
  BY <1>1
<1>3. ASSUME NEW k \in Nat, k \in T PROVE k + 1 \in T
  <2> SUFFICES ASSUME k + 1 <= Len(block) PROVE f[k + 1] \in P
    OBVIOUS
  <2>1. k + 1 \in 1 .. Len(block) /\ (k + 1) - 1 = k /\ f[k] \in P
    BY <1>3
  <2>2. f[k + 1] = Execute(c, f[k], block[k + 1])
    BY <1>1, <2>1
  <2> QED BY <2>1, <2>2
<1>4. \A k \in Nat : k \in T
  <2> HIDE DEF T
  <2> QED BY <1>2, <1>3, Induction
<1> QED BY <1>1, <1>4

(* Two blocks are run one after the other.                                 *)
LEMMA RunConcat ==
  ASSUME NEW S, NEW a \in Seq(S), NEW b \in Seq(S), NEW c, NEW s
  PROVE  RunBlock(c, s, a \o b) = RunBlock(c, RunBlock(c, s, a), b)
<1> DEFINE d == a \o b
<1>1. /\ Len(a) \in Nat /\ Len(b) \in Nat /\ Len(d) = Len(a) + Len(b)
      /\ Len(d) \in Nat
      /\ \A k \in 1 .. Len(a) : d[k] = a[k]
      /\ \A k \in 1 .. Len(b) : d[Len(a) + k] = b[k]
  <2>1. Len(a) \in Nat /\ Len(b) \in Nat
    BY LenProperties
  <2>2. /\ Len(a \o b) = Len(a) + Len(b)
        /\ \A k \in 1 .. Len(a) + Len(b) :
             (a \o b)[k] = IF k <= Len(a) THEN a[k] ELSE b[k - Len(a)]
    BY ConcatProperties
  <2>3. \A k \in 1 .. Len(a) : (a \o b)[k] = a[k]
    BY <2>1, <2>2
  <2>4. ASSUME NEW k \in 1 .. Len(b) PROVE (a \o b)[Len(a) + k] = b[k]
    <3>1. Len(a) + k \in 1 .. Len(a) + Len(b) /\ ~(Len(a) + k <= Len(a)) /\ (Len(a) + k) - Len(a) = k
      BY <2>1
    <3> QED BY <2>2, <3>1
  <2> QED BY <2>1, <2>2, <2>3, <2>4
<1> HIDE DEF d
<1> DEFINE t == RunBlock(c, s, a)
<1> HIDE DEF t
<1>0. PICK f, g, h : Follows(f, c, s, d) /\ Follows(g, c, s, a) /\ Follows(h, c, t, b)
  BY <1>1, RunUnfolds
<1>2. /\ f[0] = s
      /\ \A k \in 1 .. Len(d) : f[k] = Execute(c, f[k - 1], d[k])
      /\ RunBlock(c, s, d) = f[Len(d)]
  BY <1>0 DEF Follows
<1>3. /\ g[0] = s
      /\ \A k \in 1 .. Len(a) : g[k] = Execute(c, g[k - 1], a[k])
      /\ t = g[Len(a)]
  BY <1>0 DEF Follows, t
<1>4. /\ h[0] = t
      /\ \A k \in 1 .. Len(b) : h[k] = Execute(c, h[k - 1], b[k])
      /\ RunBlock(c, t, b) = h[Len(b)]
  BY <1>0 DEF Follows
<1> DEFINE T == {k \in Nat : k <= Len(a) => f[k] = g[k]}
           U == {k \in Nat : k <= Len(b) => f[Len(a) + k] = h[k]}
<1>5. \A k \in Nat : k \in T
  <2>1. 0 \in T
    BY <1>2, <1>3
  <2>2. ASSUME NEW k \in Nat, k \in T PROVE k + 1 \in T
    <3> SUFFICES ASSUME k + 1 <= Len(a) PROVE f[k + 1] = g[k + 1]
      OBVIOUS
    <3>1. /\ k + 1 \in 1 .. Len(a) /\ k + 1 \in 1 .. Len(d)
          /\ (k + 1) - 1 = k /\ f[k] = g[k]
      BY <1>1, <2>2
    <3>2. f[k + 1] = Execute(c, f[k], d[k + 1])
      BY <1>2, <3>1
    <3>3. g[k + 1] = Execute(c, g[k], a[k + 1])
      BY <1>3, <3>1
    <3>4. d[k + 1] = a[k + 1]
      BY <1>1, <3>1
    <3> QED BY <3>1, <3>2, <3>3, <3>4
  <2> HIDE DEF T
  <2> QED BY <2>1, <2>2, Induction
<1>6. f[Len(a)] = h[0]
  BY <1>1, <1>3, <1>4, <1>5
<1>7. \A k \in Nat : k \in U
  <2>1. 0 \in U
    BY <1>1, <1>6
  <2>2. ASSUME NEW k \in Nat, k \in U PROVE k + 1 \in U
    <3> SUFFICES ASSUME k + 1 <= Len(b) PROVE f[Len(a) + (k + 1)] = h[k + 1]
      OBVIOUS
    <3>1. /\ k + 1 \in 1 .. Len(b) /\ Len(a) + (k + 1) \in 1 .. Len(d)
          /\ (k + 1) - 1 = k /\ (Len(a) + (k + 1)) - 1 = Len(a) + k
          /\ f[Len(a) + k] = h[k]
      BY <1>1, <2>2
    <3>2. f[Len(a) + (k + 1)] = Execute(c, f[Len(a) + k], d[Len(a) + (k + 1)])
      BY <1>2, <3>1
    <3>3. h[k + 1] = Execute(c, h[k], b[k + 1])
      BY <1>4, <3>1
    <3>4. d[Len(a) + (k + 1)] = b[k + 1]
      BY <1>1, <3>1
    <3> QED BY <3>1, <3>2, <3>3, <3>4
  <2> HIDE DEF U
  <2> QED BY <2>1, <2>2, Induction
<1>8. RunBlock(c, s, d) = RunBlock(c, t, b)
  BY <1>1, <1>2, <1>4, <1>7
<1> QED BY <1>8 DEF d, t

(* Short blocks.                                                           *)
LEMMA RunNone ==
  ASSUME NEW c, NEW s, NEW block, Len(block) = 0
  PROVE  RunBlock(c, s, block) = s
BY RunUnfolds DEF Follows

LEMMA RunOne ==
  ASSUME NEW c, NEW s, NEW i
  PROVE  RunBlock(c, s, <<i>>) = Execute(c, s, i)
<1>1. Len(<<i>>) = 1 /\ <<i>>[1] = i
  OBVIOUS
<1>0. PICK f : Follows(f, c, s, <<i>>)
  BY <1>1, RunUnfolds
<1>2. /\ f[0] = s
      /\ \A k \in 1 .. 1 : f[k] = Execute(c, f[k - 1], <<i>>[k])
      /\ RunBlock(c, s, <<i>>) = f[1]
  BY <1>0, <1>1 DEF Follows
<1>3. 1 \in 1 .. 1 /\ 1 - 1 = 0
  OBVIOUS
<1> QED BY <1>1, <1>2, <1>3

LEMMA RunTwo ==
  ASSUME NEW c, NEW s, NEW i, NEW j
  PROVE  RunBlock(c, s, <<i, j>>) = Execute(c, Execute(c, s, i), j)
<1> DEFINE b == <<i, j>>
<1>1. Len(b) \in Nat /\ Len(b) = 2 /\ b[1] = i /\ b[2] = j
  OBVIOUS
<1> HIDE DEF b
<1>0. PICK f : Follows(f, c, s, b)
  BY <1>1, RunUnfolds
<1>2. /\ f[0] = s
      /\ \A k \in 1 .. 2 : f[k] = Execute(c, f[k - 1], b[k])
      /\ RunBlock(c, s, b) = f[2]
  BY <1>0, <1>1 DEF Follows
<1>3. f[1] = Execute(c, f[0], b[1]) /\ f[2] = Execute(c, f[1], b[2])
  <2>1. 1 \in 1 .. 2 /\ 2 \in 1 .. 2 /\ 1 - 1 = 0 /\ 2 - 1 = 1
    OBVIOUS
  <2> QED BY <1>2, <2>1
<1>4. RunBlock(c, s, b) = Execute(c, Execute(c, s, i), j)
  BY <1>1, <1>2, <1>3
<1> QED BY <1>4 DEF b

LEMMA RunThree ==
  ASSUME NEW c, NEW s, NEW i, NEW j, NEW l
  PROVE  RunBlock(c, s, <<i, j, l>>) = Execute(c, Execute(c, Execute(c, s, i), j), l)
<1> DEFINE b == <<i, j, l>>
<1>1. Len(b) \in Nat /\ Len(b) = 3 /\ b[1] = i /\ b[2] = j /\ b[3] = l
  OBVIOUS
<1> HIDE DEF b
<1>0. PICK f : Follows(f, c, s, b)
  BY <1>1, RunUnfolds
<1>2. /\ f[0] = s
      /\ \A k \in 1 .. 3 : f[k] = Execute(c, f[k - 1], b[k])
      /\ RunBlock(c, s, b) = f[3]
  BY <1>0, <1>1 DEF Follows
<1>3. /\ f[1] = Execute(c, f[0], b[1]) /\ f[2] = Execute(c, f[1], b[2])
      /\ f[3] = Execute(c, f[2], b[3])
  <2>1. /\ 1 \in 1 .. 3 /\ 2 \in 1 .. 3 /\ 3 \in 1 .. 3
        /\ 1 - 1 = 0 /\ 2 - 1 = 1 /\ 3 - 1 = 2
    OBVIOUS
  <2> QED BY <1>2, <2>1
<1>4. RunBlock(c, s, b) = Execute(c, Execute(c, Execute(c, s, i), j), l)
  BY <1>1, <1>2, <1>3
<1> QED BY <1>4 DEF b

(* The sequences that FlattenSeq puts together, one for each first part.   *)
LEMMA FlattenUnfolds ==
  ASSUME NEW S, NEW ss \in Seq(Seq(S)), Len(ss) # 0
  PROVE  \E f : /\ f[1] = ss[1]
                /\ \A n \in 2 .. Len(ss) : f[n] = f[n - 1] \o ss[n]
                /\ FlattenSeq(ss) = f[Len(ss)]
                /\ \A n \in 1 .. Len(ss) : f[n] \in Seq(S) /\ ss[n] \in Seq(S)
<1>1. Len(ss) \in Nat /\ \A n \in 1 .. Len(ss) : ss[n] \in Seq(S)
  BY LenProperties, ElementOfSeq
<1> DEFINE IsFlat(f, m) == f = [n \in 1 .. m |-> IF n = 1 THEN ss[n] ELSE f[n - 1] \o ss[n]]
           Solved(m)    == \E f : IsFlat(f, m)
           T            == {m \in Nat : Solved(m)}
<1>2. 0 \in T
  <2> DEFINE u == [n \in 1 .. 0 |-> 0]
  <2>1. u = [n \in 1 .. 0 |-> IF n = 1 THEN ss[n] ELSE u[n - 1] \o ss[n]]
    OBVIOUS
  <2> HIDE DEF u
  <2>2. Solved(0)
    BY <2>1
  <2> HIDE DEF Solved
  <2> QED BY <2>2
<1>3. ASSUME NEW m \in Nat, m \in T PROVE m + 1 \in T
  <2>1. PICK f : f = [n \in 1 .. m |-> IF n = 1 THEN ss[n] ELSE f[n - 1] \o ss[n]]
    BY <1>3
  <2> DEFINE g == [n \in 1 .. m |-> IF n = 1 THEN ss[n] ELSE f[n - 1] \o ss[n]]
             u == [n \in 1 .. m + 1 |-> IF n = 1 THEN ss[n] ELSE f[n - 1] \o ss[n]]
  <2>2. \A n \in 1 .. m : u[n] = g[n]
    OBVIOUS
  <2>3. \A n \in 1 .. m : u[n] = f[n]
    <3> HIDE DEF u
    <3> QED BY <2>1, <2>2
  <2>4. \A n \in 1 .. m + 1 : u[n] = IF n = 1 THEN ss[n] ELSE u[n - 1] \o ss[n]
    <3> SUFFICES ASSUME NEW n \in 1 .. m + 1 PROVE u[n] = IF n = 1 THEN ss[n] ELSE u[n - 1] \o ss[n]
      OBVIOUS
    <3>1. n # 1 => n - 1 \in 1 .. m
      OBVIOUS
    <3>2. u[n] = IF n = 1 THEN ss[n] ELSE f[n - 1] \o ss[n]
      OBVIOUS
    <3> HIDE DEF u
    <3>3. n # 1 => u[n - 1] = f[n - 1]
      BY <2>3, <3>1
    <3> QED BY <3>2, <3>3, Zenon
  <2>5. u = [n \in 1 .. m + 1 |-> u[n]]
    OBVIOUS
  <2> HIDE DEF u
  <2>6. u = [n \in 1 .. m + 1 |-> IF n = 1 THEN ss[n] ELSE u[n - 1] \o ss[n]]
    BY <2>4, <2>5
  <2>7. Solved(m + 1)
    BY <2>6
  <2> HIDE DEF Solved
  <2> QED BY <2>7
<1> DEFINE f == CHOOSE f : f = [n \in 1 .. Len(ss) |-> IF n = 1 THEN ss[n] ELSE f[n - 1] \o ss[n]]
<1>4. f = [n \in 1 .. Len(ss) |-> IF n = 1 THEN ss[n] ELSE f[n - 1] \o ss[n]]
  <2> HIDE DEF f
  <2>1. Len(ss) \in T
    <3> HIDE DEF T
    <3> QED BY <1>1, <1>2, <1>3, Induction
  <2>2. PICK g : g = [n \in 1 .. Len(ss) |-> IF n = 1 THEN ss[n] ELSE g[n - 1] \o ss[n]]
    BY <2>1
  <2> QED BY <2>2, Zenon DEF f
<1>5. FlattenSeq(ss) = f[Len(ss)]
  BY DEF FlattenSeq
<1> HIDE DEF f, T
<1>6. f[1] = ss[1] /\ \A n \in 2 .. Len(ss) : f[n] = f[n - 1] \o ss[n]
  <2>1. 1 \in 1 .. Len(ss) /\ \A n \in 2 .. Len(ss) : n \in 1 .. Len(ss) /\ n # 1
    BY <1>1
  <2>2. \A n \in 1 .. Len(ss) : f[n] = IF n = 1 THEN ss[n] ELSE f[n - 1] \o ss[n]
    BY <1>4, Zenon
  <2> QED BY <2>1, <2>2, Zenon
<1> DEFINE V == {n \in Nat : n + 1 \in 1 .. Len(ss) => f[n + 1] \in Seq(S)}
<1>7. \A n \in Nat : n \in V
  <2>1. 0 \in V
    BY <1>1, <1>6
  <2>2. ASSUME NEW n \in Nat, n \in V PROVE n + 1 \in V
    <3> SUFFICES ASSUME (n + 1) + 1 \in 1 .. Len(ss) PROVE f[(n + 1) + 1] \in Seq(S)
      OBVIOUS
    <3> DEFINE m == n + 1
    <3>1. m \in 1 .. Len(ss) /\ m + 1 \in 2 .. Len(ss) /\ m + 1 \in 1 .. Len(ss) /\ (m + 1) - 1 = m
      BY <1>1
    <3>2. f[m] \in Seq(S)
      BY <2>2, <3>1
    <3> HIDE DEF m
    <3>3. f[m + 1] = f[m] \o ss[m + 1] /\ ss[m + 1] \in Seq(S)
      BY <1>1, <1>6, <3>1
    <3>4. f[m + 1] \in Seq(S)
      BY <3>2, <3>3, ConcatProperties
    <3> QED BY <3>4 DEF m
  <2> HIDE DEF V
  <2> QED BY <2>1, <2>2, Induction
<1>8. \A n \in 1 .. Len(ss) : f[n] \in Seq(S)
  <2> SUFFICES ASSUME NEW n \in 1 .. Len(ss) PROVE f[n] \in Seq(S)
    OBVIOUS
  <2>1. n - 1 \in Nat /\ (n - 1) + 1 = n
    BY <1>1
  <2>2. n - 1 \in V
    BY <1>7, <2>1
  <2> QED BY <2>1, <2>2
<1> QED BY <1>1, <1>5, <1>6, <1>8

LEMMA FlattenTyped ==
  ASSUME NEW S, NEW ss \in Seq(Seq(S))
  PROVE  FlattenSeq(ss) \in Seq(S)
<1>1. Len(ss) \in Nat
  BY LenProperties
<1>2. CASE Len(ss) = 0
  <2>1. ss = <<>>
    BY <1>2, EmptySeq
  <2>2. FlattenSeq(ss) = <<>>
    BY <1>2, <2>1 DEF FlattenSeq
  <2> QED BY <2>2
<1>3. CASE Len(ss) # 0
  <2>1. Len(ss) \in 1 .. Len(ss)
    BY <1>1, <1>3
  <2> QED BY <1>3, <2>1, FlattenUnfolds
<1> QED BY <1>2, <1>3

LEMMA FlattenLength ==
  ASSUME NEW S, NEW ss \in Seq(Seq(S)), NEW w \in Nat, \A n \in 1 .. Len(ss) : Len(ss[n]) = w
  PROVE  Len(FlattenSeq(ss)) = w * Len(ss)
<1>1. Len(ss) \in Nat
  BY LenProperties
<1>2. CASE Len(ss) = 0
  <2>1. FlattenSeq(ss) = ss
    BY <1>2 DEF FlattenSeq
  <2> QED BY <1>2, <2>1
<1>3. CASE Len(ss) # 0
  <2>1. PICK f : /\ f[1] = ss[1]
                 /\ \A n \in 2 .. Len(ss) : f[n] = f[n - 1] \o ss[n]
                 /\ FlattenSeq(ss) = f[Len(ss)]
                 /\ \A n \in 1 .. Len(ss) : f[n] \in Seq(S) /\ ss[n] \in Seq(S)
    BY <1>3, FlattenUnfolds
  <2> DEFINE V == {n \in Nat : n + 1 \in 1 .. Len(ss) => Len(f[n + 1]) = w * (n + 1)}
  <2>2. 0 \in V
    <3>1. 1 \in 1 .. Len(ss) /\ w * (0 + 1) = w
      BY <1>1, <1>3
    <3> QED BY <2>1, <3>1
  <2>3. ASSUME NEW n \in Nat, n \in V PROVE n + 1 \in V
    <3> DEFINE m == n + 1
    <3> SUFFICES ASSUME m + 1 \in 1 .. Len(ss) PROVE Len(f[m + 1]) = w * (m + 1)
      OBVIOUS
    <3>1. m \in 1 .. Len(ss) /\ m + 1 \in 2 .. Len(ss) /\ m + 1 \in 1 .. Len(ss) /\ (m + 1) - 1 = m
      BY <1>1
    <3>2. Len(f[m]) = w * m
      BY <2>3, <3>1
    <3>3. m \in Nat
      OBVIOUS
    <3> HIDE DEF m
    <3>4. f[m + 1] = f[m] \o ss[m + 1] /\ f[m] \in Seq(S) /\ ss[m + 1] \in Seq(S)
      BY <2>1, <3>1
    <3>5. Len(f[m + 1]) = Len(f[m]) + Len(ss[m + 1])
      BY <3>4, ConcatProperties
    <3>6. w * (m + 1) = w * m + w /\ Len(ss[m + 1]) = w
      BY <3>1, <3>3
    <3> QED BY <3>2, <3>5, <3>6
  <2>4. \A n \in Nat : n \in V
    <3> HIDE DEF V
    <3> QED BY <2>2, <2>3, Induction
  <2>5. Len(ss) - 1 \in Nat /\ (Len(ss) - 1) + 1 = Len(ss) /\ Len(ss) \in 1 .. Len(ss)
    BY <1>1, <1>3
  <2>6. Len(ss) - 1 \in V
    BY <2>4, <2>5
  <2>7. Len(f[Len(ss)]) = w * Len(ss)
    BY <2>5, <2>6
  <2> QED BY <2>1, <2>7
<1> QED BY <1>2, <1>3

(* Blocks run one after the other, with what holds before each: Q[n - 1]   *)
(* before the n-th, Q[n] after it.                                         *)
LEMMA RunFlatten ==
  ASSUME NEW S, NEW ss \in Seq(Seq(S)), NEW c, NEW Q, NEW s \in Q[0],
         \A n \in 1 .. Len(ss) : \A x \in Q[n - 1] : RunBlock(c, x, ss[n]) \in Q[n]
  PROVE  RunBlock(c, s, FlattenSeq(ss)) \in Q[Len(ss)]
<1>1. Len(ss) \in Nat
  BY LenProperties
<1>2. CASE Len(ss) = 0
  <2>1. FlattenSeq(ss) = ss
    BY <1>2 DEF FlattenSeq
  <2> QED BY <1>2, <2>1, RunNone
<1>3. CASE Len(ss) # 0
  <2>1. PICK f : /\ f[1] = ss[1]
                 /\ \A n \in 2 .. Len(ss) : f[n] = f[n - 1] \o ss[n]
                 /\ FlattenSeq(ss) = f[Len(ss)]
                 /\ \A n \in 1 .. Len(ss) : f[n] \in Seq(S) /\ ss[n] \in Seq(S)
    BY <1>3, FlattenUnfolds
  <2> DEFINE V == {n \in Nat : n + 1 \in 1 .. Len(ss) => RunBlock(c, s, f[n + 1]) \in Q[n + 1]}
  <2>2. 0 \in V
    <3>1. 1 \in 1 .. Len(ss) /\ 1 - 1 = 0 /\ 0 + 1 = 1
      BY <1>1, <1>3
    <3>2. RunBlock(c, s, ss[1]) \in Q[1]
      BY <3>1
    <3> QED BY <2>1, <3>1, <3>2
  <2>3. ASSUME NEW n \in Nat, n \in V PROVE n + 1 \in V
    <3> DEFINE m == n + 1
    <3> SUFFICES ASSUME m + 1 \in 1 .. Len(ss) PROVE RunBlock(c, s, f[m + 1]) \in Q[m + 1]
      OBVIOUS
    <3>1. m \in 1 .. Len(ss) /\ m + 1 \in 2 .. Len(ss) /\ m + 1 \in 1 .. Len(ss) /\ (m + 1) - 1 = m
      BY <1>1
    <3>2. RunBlock(c, s, f[m]) \in Q[m]
      BY <2>3, <3>1
    <3> HIDE DEF m
    <3>3. f[m + 1] = f[m] \o ss[m + 1] /\ f[m] \in Seq(S) /\ ss[m + 1] \in Seq(S)
      BY <2>1, <3>1
    <3>4. RunBlock(c, s, f[m + 1]) = RunBlock(c, RunBlock(c, s, f[m]), ss[m + 1])
      BY <3>3, RunConcat
    <3> QED BY <3>1, <3>2, <3>4
  <2>4. \A n \in Nat : n \in V
    <3> HIDE DEF V
    <3> QED BY <2>2, <2>3, Induction
  <2>5. Len(ss) - 1 \in Nat /\ (Len(ss) - 1) + 1 = Len(ss) /\ Len(ss) \in 1 .. Len(ss)
    BY <1>1, <1>3
  <2>6. Len(ss) - 1 \in V
    BY <2>4, <2>5
  <2> QED BY <2>1, <2>5, <2>6
<1> QED BY <1>2, <1>3

(* The keys of the memory, each once.                                      *)
LEMMA AscendingProperties ==
  ASSUME NEW D \in SUBSET Nat, D # {}, NEW top \in D, \A d \in D : d <= top
  PROVE  /\ Ascending(D) \in Seq(D)
         /\ Len(Ascending(D)) = Cardinality(D)
         /\ \A d \in D : \E n \in 1 .. Len(Ascending(D)) : Ascending(D)[n] = d
<1>1. Max(D) = top
  <2>1. Max(D) \in D /\ \A d \in D : Max(D) >= d
    BY DEF Max
  <2>2. Max(D) \in Nat /\ top \in Nat
    BY <2>1
  <2> QED BY <2>1, <2>2
<1>2. top \in Nat
  OBVIOUS
<1> DEFINE IsBelow(f, m) == f = [n \in 0 .. m |-> IF n = 0 THEN <<>>
                                                  ELSE IF n - 1 \in D THEN Append(f[n - 1], n - 1)
                                                  ELSE f[n - 1]]
           Solved(m)     == \E f : IsBelow(f, m)
           T             == {m \in Nat : Solved(m)}
<1>3. 0 \in T
  <2> DEFINE u == [n \in 0 .. 0 |-> <<>>]
  <2>1. u = [n \in 0 .. 0 |-> IF n = 0 THEN <<>>
                              ELSE IF n - 1 \in D THEN Append(u[n - 1], n - 1) ELSE u[n - 1]]
    OBVIOUS
  <2> HIDE DEF u
  <2>2. Solved(0)
    BY <2>1
  <2> HIDE DEF Solved
  <2> QED BY <2>2
<1>4. ASSUME NEW m \in Nat, m \in T PROVE m + 1 \in T
  <2>1. PICK f : IsBelow(f, m)
    BY <1>4
  <2> DEFINE G(h, n) == IF n = 0 THEN <<>> ELSE IF n - 1 \in D THEN Append(h[n - 1], n - 1) ELSE h[n - 1]
             g == [n \in 0 .. m |-> G(f, n)]
             u == [n \in 0 .. m + 1 |-> G(f, n)]
  <2>2. f = g
    BY <2>1
  <2>3. \A n \in 0 .. m : u[n] = f[n]
    <3>1. \A n \in 0 .. m : u[n] = g[n]
      <4> HIDE DEF G
      <4> QED OBVIOUS
    <3> HIDE DEF u, g
    <3> QED BY <2>2, <3>1
  <2>4. \A n \in 0 .. m + 1 : u[n] = G(u, n)
    <3> SUFFICES ASSUME NEW n \in 0 .. m + 1 PROVE u[n] = G(u, n)
      OBVIOUS
    <3>1. n # 0 => n - 1 \in 0 .. m
      OBVIOUS
    <3>2. u[n] = G(f, n)
      <4> HIDE DEF G
      <4> QED OBVIOUS
    <3> HIDE DEF u
    <3>3. n # 0 => u[n - 1] = f[n - 1]
      BY <2>3, <3>1
    <3> QED BY <3>2, <3>3, Zenon
  <2>5. u = [n \in 0 .. m + 1 |-> u[n]]
    <3> HIDE DEF G
    <3> QED OBVIOUS
  <2>6. u = [n \in 0 .. m + 1 |-> G(u, n)]
    <3> HIDE DEF u, G
    <3> QED BY <2>4, <2>5
  <2>7. Solved(m + 1)
    <3> HIDE DEF u
    <3> QED BY <2>6
  <2> HIDE DEF Solved
  <2> QED BY <2>7
<1> DEFINE f == CHOOSE f : f = [n \in 0 .. top + 1 |-> IF n = 0 THEN <<>>
                                  ELSE IF n - 1 \in D THEN Append(f[n - 1], n - 1)
                                  ELSE f[n - 1]]
<1>5. f = [n \in 0 .. top + 1 |-> IF n = 0 THEN <<>>
                                  ELSE IF n - 1 \in D THEN Append(f[n - 1], n - 1)
                                  ELSE f[n - 1]]
  <2> HIDE DEF f
  <2>1. top + 1 \in T
    <3> HIDE DEF T
    <3> QED BY <1>2, <1>3, <1>4, Induction
  <2>2. PICK g : g = [n \in 0 .. top + 1 |-> IF n = 0 THEN <<>>
                                  ELSE IF n - 1 \in D THEN Append(g[n - 1], n - 1)
                                  ELSE g[n - 1]]
    BY <2>1
  <2> QED BY <2>2, Zenon DEF f
<1>6. Ascending(D) = f[top + 1]
  BY <1>1 DEF Ascending
<1> HIDE DEF f, T
<1>7. /\ f[0] = <<>>
      /\ \A n \in 1 .. top + 1 : f[n] = IF n - 1 \in D THEN Append(f[n - 1], n - 1) ELSE f[n - 1]
  <2>1. 0 \in 0 .. top + 1 /\ \A n \in 1 .. top + 1 : n \in 0 .. top + 1 /\ n # 0
    BY <1>2
  <2>2. \A n \in 0 .. top + 1 : f[n] = IF n = 0 THEN <<>>
                                  ELSE IF n - 1 \in D THEN Append(f[n - 1], n - 1)
                                  ELSE f[n - 1]
    BY <1>5, Zenon
  <2> QED BY <2>1, <2>2, Zenon
<1> DEFINE Below(n) == {d \in D : d < n}
           Right(n) == /\ f[n] \in Seq(D)
                       /\ IsFiniteSet(Below(n)) /\ Len(f[n]) = Cardinality(Below(n))
                       /\ \A d \in Below(n) : \E k \in 1 .. Len(f[n]) : f[n][k] = d
           V        == {n \in Nat : n <= top + 1 => Right(n)}
<1>0. \A d \in D : d \in Nat
  OBVIOUS
<1>8. 0 \in V
  <2>1. Below(0) = {}
    <3>1. \A d \in D : ~(d < 0)
      BY <1>0
    <3> QED BY <3>1
  <2>2. Right(0)
    BY <1>7, <2>1, FS_EmptySet, EmptySeq
  <2> QED BY <2>2
<1>9. ASSUME NEW n \in Nat, n \in V PROVE n + 1 \in V
  <2> SUFFICES ASSUME n + 1 <= top + 1 PROVE Right(n + 1)
    OBVIOUS
  <2>1. n + 1 \in 1 .. top + 1 /\ (n + 1) - 1 = n /\ n <= top + 1
    BY <1>2
  <2>2. Right(n)
    BY <1>9, <2>1
  <2>3. f[n + 1] = IF n \in D THEN Append(f[n], n) ELSE f[n]
    BY <1>7, <2>1
  <2>4. CASE n \notin D
    <3>1. Below(n + 1) = Below(n)
      <4>1. \A d \in D : d < n + 1 <=> d < n
        BY <1>0, <2>4
      <4> QED BY <4>1
    <3> QED BY <2>2, <2>3, <2>4, <3>1
  <2>5. CASE n \in D
    <3>1. Below(n + 1) = Below(n) \cup {n} /\ n \notin Below(n)
      <4>1. \A d \in D : d < n + 1 <=> d < n \/ d = n
        BY <1>0
      <4>2. ~(n < n)
        OBVIOUS
      <4> QED BY <2>5, <4>1, <4>2
    <3> DEFINE b == f[n]
               a == f[n + 1]
               B == Below(n)
               C == Below(n + 1)
    <3>2. b \in Seq(D) /\ a = Append(b, n) /\ IsFiniteSet(B) /\ Len(b) = Cardinality(B)
          /\ \A d \in B : \E k \in 1 .. Len(b) : b[k] = d
      BY <2>2, <2>3, <2>5
    <3>3. C = B \cup {n} /\ n \notin B
      BY <3>1
    <3> HIDE DEF a, b, B, C
    <3>4. /\ a \in Seq(D) /\ Len(a) = Len(b) + 1
          /\ \A k \in 1 .. Len(b) : a[k] = b[k]
          /\ a[Len(b) + 1] = n
      BY <2>5, <3>2, AppendProperties
    <3>5. IsFiniteSet(C) /\ Cardinality(C) = Cardinality(B) + 1
      BY <3>2, <3>3, FS_AddElement
    <3>6. Len(b) \in Nat
      BY <3>2, LenProperties
    <3>7. ASSUME NEW d \in C PROVE \E k \in 1 .. Len(a) : a[k] = d
      <4>1. CASE d \in B
        <5>1. PICK k \in 1 .. Len(b) : b[k] = d
          BY <3>2, <4>1
        <5>2. k \in 1 .. Len(a) /\ a[k] = d
          BY <3>4, <3>6, <5>1
        <5> QED BY <5>2
      <4>2. CASE d = n
        <5>1. Len(b) + 1 \in 1 .. Len(a)
          BY <3>4, <3>6
        <5> QED BY <3>4, <4>2, <5>1
      <4> QED BY <3>3, <4>1, <4>2
    <3>8. a \in Seq(D) /\ IsFiniteSet(C) /\ Len(a) = Cardinality(C)
      BY <3>2, <3>4, <3>5
    <3> QED BY <3>7, <3>8 DEF a, C
  <2> QED BY <2>4, <2>5
<1>10. Right(top + 1)
  <2>1. top + 1 \in V
    <3> HIDE DEF V
    <3> QED BY <1>2, <1>8, <1>9, Induction
  <2> QED BY <1>2, <2>1
<1>11. Below(top + 1) = D
  <2>1. \A d \in D : d < top + 1
    BY <1>0, <1>2
  <2> QED BY <2>1
<1> QED BY <1>6, <1>10, <1>11

-----------------------------------------------------------------------------
(* The memory range.                                                       *)

(* Rounding down to a word stays below, by less than a word.               *)
LEMMA RoundedDown ==
  ASSUME NEW u \in Nat, NEW w \in {4, 8}
  PROVE  /\ (u \div w) * w \in Nat
         /\ (u \div w) * w <= u
         /\ u - (u \div w) * w < w
         /\ ((u \div w) * w) % w = 0
<1>1. CASE w = 4
  <2>1. /\ (u \div 4) * 4 \in Nat /\ (u \div 4) * 4 <= u /\ u - (u \div 4) * 4 < 4
    OBVIOUS
  <2>2. ((u \div 4) * 4) % 4 = 0
    OBVIOUS
  <2> QED BY <1>1, <2>1, <2>2
<1>2. CASE w = 8
  <2>1. /\ (u \div 8) * 8 \in Nat /\ (u \div 8) * 8 <= u /\ u - (u \div 8) * 8 < 8
    OBVIOUS
  <2>2. ((u \div 8) * 8) % 8 = 0
    OBVIOUS
  <2> QED BY <1>2, <2>1, <2>2
<1> QED BY <1>1, <1>2

(* A number below another that starts a double word is not below its       *)
(* rounding.                                                               *)
LEMMA RoundedAbove ==
  ASSUME NEW u \in Nat, NEW w \in {4, 8}, NEW s \in Nat, s % 8 = 0, s <= u
  PROVE  s <= (u \div w) * w
<1>1. CASE w = 4
  BY <1>1
<1>2. CASE w = 8
  BY <1>2
<1> QED BY <1>1, <1>2

(* mem_range: what is allocated when its checks pass.                      *)
LEMMA Allocated ==
  ASSUME NEW q \in Request, NEW c \in Cores, RangeFits(q)
  PROVE  /\ MemoryRange(q)[c] \in [start : Nat, end : Nat]
         /\ MemoryRange(q)[c].start % WordSize(q) = 0
         /\ UserMem[c].start <= MemoryRange(q)[c].start
         /\ MemoryRange(q)[c].end <= UserMem[c].end
         /\ MemoryRange(q)[c].end - MemoryRange(q)[c].start + 1 = q.size
<1> DEFINE w == WordSize(q)
           u == UserMem[c].end - q.size
           r == RangeStart(q, c)
<1>1. /\ w \in {4, 8} /\ q.size \in Nat /\ q.size >= 4
  BY DEF Request, WordSize, RangeFits, MaxAccessWidth
<1>2. /\ UserMem[c].start \in Nat /\ UserMem[c].end \in Nat /\ UserMem[c].start % 8 = 0
  BY UserMemAssumption
<1>3. u \in Nat /\ UserMem[c].start <= u
  BY <1>1, <1>2 DEF RangeFits, MinUserMemSize
<1>4. r = (u \div w) * w
  BY DEF RangeStart
<1>5. r \in Nat /\ r <= u /\ r % w = 0
  <2> HIDE DEF u, w
  <2> QED BY <1>1, <1>3, <1>4, RoundedDown
<1>6. UserMem[c].start <= r
  <2> HIDE DEF u, w
  <2> QED BY <1>1, <1>2, <1>3, <1>4, RoundedAbove
<1>7. MemoryRange(q)[c] = [start |-> r, end |-> r + q.size - 1]
  BY DEF MemoryRange
<1> HIDE DEF r, w
<1>8. r + q.size - 1 \in Nat /\ r + q.size - 1 <= UserMem[c].end
  BY <1>1, <1>2, <1>5
<1> QED BY <1>1, <1>5, <1>6, <1>7, <1>8 DEF w

(* generate_random_testcase: base and immediate keep an access of a        *)
(* declared width in the range.                                            *)
LEMMA AccessesFit ==
  ASSUME NEW q \in Request, OffsetFits(q), q.most >= 0,
         NEW base \in RegisterRange(q), NEW imm \in Immediates(q), NEW w \in Declared(q)
  PROVE  AccessInside(q, base, imm, w)
<1>1. /\ q.size \in Nat /\ q.least \in Int /\ q.most \in Int /\ q.least <= q.most
  BY DEF Request, OffsetFits
<1>2. /\ MaxAccessWidth(q) \in {4, 8} /\ w \in {1, 2, 4, 8} /\ w <= MaxAccessWidth(q)
  BY DEF MaxAccessWidth, Declared, Widths
<1>3. imm \in Int /\ (imm = 0 \/ (q.least <= imm /\ imm <= q.most))
  BY <1>1 DEF Immediates
<1>4. /\ base \in Int /\ base >= RegisterMin(q) /\ base <= RegisterMax(q)
  BY <1>1, <1>2 DEF RegisterRange, RegisterMin, RegisterMax, AccessLimit
<1>5. base >= 0 /\ base >= -q.least
  BY <1>1, <1>4 DEF RegisterMin
<1>6. base <= q.size - MaxAccessWidth(q) - q.most
  BY <1>1, <1>2, <1>4 DEF RegisterMax, AccessLimit
<1> QED BY <1>1, <1>2, <1>3, <1>4, <1>5, <1>6 DEF AccessInside

-----------------------------------------------------------------------------
(* The range is that of the configuration, whose checks have passed.       *)
Allotted ==
  /\ request \in Requests
  /\ Generated => RangeFits(request) /\ OffsetFits(request) /\ range = MemoryRange(request)

LEMMA AllottedSuffices == Allotted => RangesUsable
<1> SUFFICES ASSUME Allotted, Generated PROVE RangesUsable
  BY DEF RangesUsable
<1>1. request \in Request /\ RangeFits(request) /\ OffsetFits(request) /\ range = MemoryRange(request)
  BY RequestsAssumption DEF Allotted
<1>2. ASSUME NEW c \in Cores
      PROVE  /\ range[c].start % WordSize(request) = 0
             /\ UserMem[c].start <= range[c].start /\ range[c].end <= UserMem[c].end
             /\ range[c].end - range[c].start + 1 = request.size
  BY <1>1, <1>2, Allocated
<1>3. request.most >= 0 =>
         \A base \in RegisterRange(request), imm \in Immediates(request), w \in Declared(request) :
            AccessInside(request, base, imm, w)
  BY <1>1, AccessesFit
<1> QED BY <1>2, <1>3 DEF RangesUsable

LEMMA AllottedInit == Init => Allotted
BY DEF Init, Allotted, Generated

LEMMA AllottedNext == Allotted /\ [Next]_vars => Allotted'
<1> SUFFICES ASSUME Allotted, [Next]_vars PROVE Allotted'
  OBVIOUS
<1>1. CASE Generate
  BY <1>1 DEF Allotted, Generate, Generated
<1>2. ASSUME NEW i, Step(i) PROVE Allotted'
  BY <1>2 DEF Allotted, Step, Generated
<1>3. CASE Initialize
  BY <1>3 DEF Allotted, Initialize, Generated
<1>4. CASE LoadBase
  BY <1>2, <1>4 DEF LoadBase
<1>5. CASE Access
  BY <1>2, <1>5 DEF Access
<1>6. CASE Integer
  BY <1>2, <1>6 DEF Integer
<1>7. CASE Floating
  BY <1>2, <1>7 DEF Floating
<1>8. CASE Build
  BY <1>8 DEF Allotted, Build, Generated
<1>9. CASE Rerun
  BY <1>9 DEF Allotted, Rerun, Generated
<1>10. CASE UNCHANGED vars
  BY <1>10 DEF Allotted, Generated, vars
<1> QED BY <1>1, <1>3, <1>4, <1>5, <1>6, <1>7, <1>8, <1>9, <1>10 DEF Next

(* riscv_impls_vec.rs:479, 628: whatever memory a testcase is given, and   *)
(* whatever base registers and immediates its instructions use, it stays   *)
(* in the user memory of every core with every access of a declared width, *)
(* for any sizes, offsets and cores.                                       *)
THEOREM RangesHold == Spec => []RangesUsable
<1>1. Init => Allotted
  BY AllottedInit
<1>2. Allotted /\ [Next]_vars => Allotted'
  BY AllottedNext
<1>3. Allotted => RangesUsable
  BY AllottedSuffices
<1> QED BY <1>1, <1>2, <1>3, PTL DEF Spec

-----------------------------------------------------------------------------
(* One instruction.                                                        *)

(* The states of a core's machine, in terms of what Machine says of them.  *)
Known == UNION {[D -> Int] : D \in SUBSET Registers}
Bytes == UNION {[D -> Int] : D \in SUBSET Nat}
States(c) == [regs : [Registers -> Int], mem : [Ram[c] -> Int], registers : Known,
              memory : Bytes, outside : SUBSET Ram[c], trapped : BOOLEAN]

(* The instructions of the blocks and of the testcase.                     *)
Programs == Instructions \cup [op : {"float"}, value : Int]

Inside(c) == range[c].start .. range[c].end

(* The range has been allocated.                                           *)
Usable(c) ==
  /\ c \in Cores /\ request \in Request
  /\ range[c].start \in Nat /\ range[c].end \in Nat /\ request.size \in Nat \ {0}
  /\ range[c].end = range[c].start + request.size - 1
  /\ Inside(c) \subseteq Ram[c] /\ Ram[c] \subseteq Nat /\ IsFiniteSet(Ram[c])
  /\ request.size % WordSize(request) = 0

LEMMA TempsTyped ==
  /\ Temps[1] = "temp0" /\ Temps[2] = "temp1" /\ Temps[3] = "temp2"
  /\ Registers = {"temp0", "temp1", "temp2", "test", "float"}
<1>1. DOMAIN Temps = {1, 2, 3}
  BY DEF Temps
<1>2. Range(Temps) = {Temps[1], Temps[2], Temps[3]}
  BY <1>1 DEF Range
<1>3. Temps[1] = "temp0" /\ Temps[2] = "temp1" /\ Temps[3] = "temp2"
  BY DEF Temps
<1> QED BY <1>2, <1>3 DEF Registers

LEMMA Registered ==
  ASSUME NEW c, NEW s \in States(c), NEW r \in Registers, NEW v \in Int
  PROVE  /\ WriteRegister(s, r, v) \in States(c)
         /\ WriteRegister(s, r, v).regs[r] = v
         /\ \A q \in Registers : q # r => WriteRegister(s, r, v).regs[q] = s.regs[q]
         /\ DOMAIN WriteRegister(s, r, v).registers = DOMAIN s.registers \cup {r}
         /\ WriteRegister(s, r, v).registers[r] = v
         /\ \A q \in DOMAIN s.registers :
              q # r => WriteRegister(s, r, v).registers[q] = s.registers[q]
         /\ WriteRegister(s, r, v).mem = s.mem /\ WriteRegister(s, r, v).memory = s.memory
         /\ WriteRegister(s, r, v).outside = s.outside
         /\ WriteRegister(s, r, v).trapped = s.trapped
<1> DEFINE known == [q \in DOMAIN s.registers \cup {r} |-> IF q = r THEN v ELSE s.registers[q]]
           regs  == [s.regs EXCEPT ![r] = v]
<1>1. WriteRegister(s, r, v) = [s EXCEPT !.regs = regs, !.registers = known]
  BY DEF WriteRegister, States
<1>2. PICK D \in SUBSET Registers : s.registers \in [D -> Int]
  BY DEF States, Known
<1>3. /\ DOMAIN known = D \cup {r} /\ known[r] = v
      /\ \A q \in D : q # r => known[q] = s.registers[q]
  <2>1. DOMAIN s.registers = D
    BY <1>2
  <2> QED BY <2>1
<1>4. known = [q \in DOMAIN known |-> known[q]]
  OBVIOUS
<1>5. known \in Known
  <2>1. \A q \in DOMAIN known : known[q] \in Int
    BY <1>2, <1>3
  <2>2. DOMAIN known \in SUBSET Registers
    BY <1>3
  <2> HIDE DEF known
  <2>3. known \in [DOMAIN known -> Int]
    BY <1>4, <2>1
  <2> QED BY <2>2, <2>3 DEF Known
<1>6. regs \in [Registers -> Int] /\ regs[r] = v /\ \A q \in Registers : q # r => regs[q] = s.regs[q]
  BY DEF States
<1>7. DOMAIN s.registers = D
  BY <1>2
<1> HIDE DEF known, regs
<1>8. [s EXCEPT !.regs = regs, !.registers = known] \in States(c)
  BY <1>5, <1>6 DEF States
<1>9. /\ [s EXCEPT !.regs = regs, !.registers = known].regs = regs
      /\ [s EXCEPT !.regs = regs, !.registers = known].registers = known
      /\ [s EXCEPT !.regs = regs, !.registers = known].mem = s.mem
      /\ [s EXCEPT !.regs = regs, !.registers = known].memory = s.memory
      /\ [s EXCEPT !.regs = regs, !.registers = known].outside = s.outside
      /\ [s EXCEPT !.regs = regs, !.registers = known].trapped = s.trapped
  BY DEF States
<1> QED BY <1>1, <1>3, <1>6, <1>7, <1>8, <1>9

Span(a, n) == a .. a + n - 1

LEMMA Stored ==
  ASSUME NEW c, Usable(c), NEW s \in States(c), NEW a \in Nat, NEW n \in Nat \ {0},
         NEW bytes \in Seq(Int), Len(bytes) = n, Span(a, n) \subseteq Ram[c],
         NEW t, t = WriteMemory(c, s, a, bytes)
  PROVE  /\ t \in States(c)
         /\ t.regs = s.regs /\ t.registers = s.registers /\ t.trapped = s.trapped
         /\ \A b \in Span(a, n) : t.mem[b] = bytes[b - a + 1]
         /\ \A b \in Ram[c] : b \notin Span(a, n) => t.mem[b] = s.mem[b]
         /\ DOMAIN t.memory = DOMAIN s.memory \cup {Normalize(c, b) : b \in Span(a, n)}
         /\ \A k \in {Normalize(c, b) : b \in Span(a, n)} :
              \E b \in Span(a, n) : Normalize(c, b) = k /\ t.memory[k] = t.mem[b]
         /\ \A k \in DOMAIN s.memory :
              k \notin {Normalize(c, b) : b \in Span(a, n)} => t.memory[k] = s.memory[k]
         /\ t.outside = s.outside \cup {b \in Span(a, n) : b \notin Inside(c)}
<1> DEFINE to      == Span(a, n)
           keys    == {Normalize(c, b) : b \in to}
           at(k)   == CHOOSE b \in to : Normalize(c, b) = k
           mem     == [b \in Ram[c] |-> IF b \in to THEN bytes[b - a + 1] ELSE s.mem[b]]
           memory  == [k \in DOMAIN s.memory \cup keys |->
                         IF k \in keys THEN bytes[at(k) - a + 1] ELSE s.memory[k]]
           outside == s.outside \cup {b \in to : b \notin Inside(c)}
<1>1. t = [s EXCEPT !.mem = mem, !.memory = memory, !.outside = outside]
  BY DEF WriteMemory, Span, States, Inside
<1>2. to \subseteq Nat /\ to \subseteq Ram[c] /\ to # {}
  <2>1. a \in to
    BY DEF Span
  <2>2. to \subseteq Nat
    BY DEF Span
  <2> QED BY <2>1, <2>2
<1>3. \A b \in to : b - a + 1 \in 1 .. n /\ bytes[b - a + 1] \in Int
  <2>1. \A b \in to : b - a + 1 \in 1 .. n
    BY DEF Span
  <2>2. \A k \in 1 .. n : bytes[k] \in Int
    BY ElementOfSeq
  <2> QED BY <2>1, <2>2
<1>4. \A k \in keys : at(k) \in to /\ Normalize(c, at(k)) = k
  <2> SUFFICES ASSUME NEW k \in keys PROVE at(k) \in to /\ Normalize(c, at(k)) = k
    OBVIOUS
  <2>1. \E b \in to : Normalize(c, b) = k
    BY Zenon
  <2> QED BY <2>1, Zenon
<1>5. keys \subseteq Nat
  <2>1. \A b \in to : Normalize(c, b) \in Nat
    BY <1>2 DEF Normalize, Usable
  <2> QED BY <2>1
<1>6. PICK D \in SUBSET Nat : s.memory \in [D -> Int]
  BY DEF States, Bytes
<1>7. s.mem \in [Ram[c] -> Int] /\ s.outside \subseteq Ram[c] /\ DOMAIN s.memory = D
  BY <1>6 DEF States
<1>8. mem \in [Ram[c] -> Int]
  BY <1>3, <1>7
<1>9. DOMAIN memory = D \cup keys /\ \A k \in D \cup keys : memory[k] \in Int
  <2>1. \A k \in keys : bytes[at(k) - a + 1] \in Int
    <3> HIDE DEF at, keys, to
    <3> QED BY <1>3, <1>4
  <2>2. \A k \in D : s.memory[k] \in Int
    BY <1>6
  <2> HIDE DEF at, keys, to
  <2> QED BY <1>7, <2>1, <2>2
<1>10. memory \in Bytes
  <2>1. memory = [k \in DOMAIN memory |-> memory[k]]
    OBVIOUS
  <2>2. D \cup keys \in SUBSET Nat
    BY <1>5
  <2> HIDE DEF memory, keys
  <2>3. memory \in [D \cup keys -> Int]
    BY <1>9, <2>1
  <2> QED BY <2>2, <2>3 DEF Bytes
<1>11. outside \in SUBSET Ram[c]
  BY <1>2, <1>7
<1>12. \A b \in to : mem[b] = bytes[b - a + 1]
  BY <1>2
<1>13. \A b \in Ram[c] : b \notin to => mem[b] = s.mem[b]
  OBVIOUS
<1>14. \A k \in keys : memory[k] = mem[at(k)]
  <2> SUFFICES ASSUME NEW k \in keys PROVE memory[k] = mem[at(k)]
    OBVIOUS
  <2>1. memory[k] = bytes[at(k) - a + 1]
    <3> HIDE DEF keys, at
    <3> QED OBVIOUS
  <2>2. mem[at(k)] = bytes[at(k) - a + 1]
    <3>1. at(k) \in to
      BY <1>4
    <3> HIDE DEF at, mem, to
    <3> QED BY <1>12, <3>1
  <2> QED BY <2>1, <2>2
<1>15. \A k \in DOMAIN s.memory : k \notin keys => memory[k] = s.memory[k]
  <2> HIDE DEF keys, at
  <2> QED OBVIOUS
<1> HIDE DEF mem, memory, outside, at
<1>16. /\ t \in States(c)
       /\ t.regs = s.regs /\ t.registers = s.registers /\ t.trapped = s.trapped
       /\ t.mem = mem /\ t.memory = memory /\ t.outside = outside
  BY <1>1, <1>8, <1>10, <1>11 DEF States
<1>17. \A k \in keys : \E b \in to : Normalize(c, b) = k /\ t.memory[k] = t.mem[b]
  BY <1>4, <1>14, <1>16
<1>18. DOMAIN t.memory = DOMAIN s.memory \cup keys
  BY <1>7, <1>9, <1>16
<1>19. t.outside = s.outside \cup {b \in to : b \notin Inside(c)}
  BY <1>16 DEF outside
<1> HIDE DEF keys, to
<1>20. /\ \A b \in to : t.mem[b] = bytes[b - a + 1]
       /\ \A b \in Ram[c] : b \notin to => t.mem[b] = s.mem[b]
       /\ \A k \in DOMAIN s.memory : k \notin keys => t.memory[k] = s.memory[k]
  BY <1>12, <1>13, <1>15, <1>16
<1> QED BY <1>16, <1>17, <1>18, <1>19, <1>20 DEF keys, to

(* What the machine of a core keeps: the registers and bytes that the      *)
(* context holds are those of the processor, except for what a handler has *)
(* used and for addresses that are taken for offsets.                      *)
Tracked(c) ==
  {s \in States(c) :
     /\ \A r \in DOMAIN s.registers :
          s.registers[r] = s.regs[r] \/ (s.trapped /\ r \in Scratch(request))
     /\ \A k \in DOMAIN s.memory :
          \/ k \in s.outside
          \/ k < request.size /\ s.memory[k] = s.mem[range[c].start + k]
     /\ s.outside \subseteq DOMAIN s.memory
     /\ \A b \in s.outside : b \notin Inside(c)}

LEMMA StateFields ==
  ASSUME NEW c, NEW s \in States(c)
  PROVE  /\ s.regs \in [Registers -> Int] /\ s.mem \in [Ram[c] -> Int]
         /\ DOMAIN s.registers \subseteq Registers /\ DOMAIN s.memory \subseteq Nat
         /\ s.outside \subseteq Ram[c] /\ s.trapped \in BOOLEAN
         /\ \A r \in DOMAIN s.registers : s.registers[r] \in Int
         /\ \A k \in DOMAIN s.memory : s.memory[k] \in Int
<1>1. PICK D \in SUBSET Registers : s.registers \in [D -> Int]
  BY DEF States, Known
<1>2. PICK E \in SUBSET Nat : s.memory \in [E -> Int]
  BY DEF States, Bytes
<1>3. s.regs \in [Registers -> Int] /\ s.mem \in [Ram[c] -> Int] /\ s.outside \subseteq Ram[c]
      /\ s.trapped \in BOOLEAN
  BY DEF States
<1> QED BY <1>1, <1>2, <1>3

(* A register is written.                                                  *)
LEMMA TrackedRegister ==
  ASSUME NEW c, NEW s \in Tracked(c), NEW r \in Registers, NEW v \in Int
  PROVE  WriteRegister(s, r, v) \in Tracked(c)
<1> DEFINE t == WriteRegister(s, r, v)
<1>1. s \in States(c)
  BY DEF Tracked
<1>2. /\ t \in States(c)
      /\ t.regs[r] = v
      /\ \A q \in Registers : q # r => t.regs[q] = s.regs[q]
      /\ DOMAIN t.registers = DOMAIN s.registers \cup {r}
      /\ t.registers[r] = v
      /\ \A q \in DOMAIN s.registers : q # r => t.registers[q] = s.registers[q]
      /\ t.mem = s.mem /\ t.memory = s.memory
      /\ t.outside = s.outside
      /\ t.trapped = s.trapped
  BY <1>1, Registered
<1>3. DOMAIN s.registers \subseteq Registers
  BY <1>1, StateFields
<1> HIDE DEF t
<1>4. \A q \in DOMAIN t.registers :
        t.registers[q] = t.regs[q] \/ (t.trapped /\ q \in Scratch(request))
  <2> SUFFICES ASSUME NEW q \in DOMAIN t.registers, q # r
               PROVE  t.registers[q] = t.regs[q] \/ (t.trapped /\ q \in Scratch(request))
    BY <1>2
  <2>1. q \in DOMAIN s.registers /\ q \in Registers
    BY <1>2, <1>3
  <2>2. s.registers[q] = s.regs[q] \/ (s.trapped /\ q \in Scratch(request))
    BY <2>1 DEF Tracked
  <2> QED BY <1>2, <2>1, <2>2
<1>5. /\ \A k \in DOMAIN t.memory :
          \/ k \in t.outside
          \/ k < request.size /\ t.memory[k] = t.mem[range[c].start + k]
      /\ t.outside \subseteq DOMAIN t.memory
      /\ \A b \in t.outside : b \notin Inside(c)
  BY <1>2 DEF Tracked
<1>6. t \in Tracked(c)
  BY <1>2, <1>4, <1>5 DEF Tracked
<1> QED BY <1>6 DEF t

(* A byte outside of the range keeps its address, one inside gets an       *)
(* offset.                                                                 *)
LEMMA Normalized ==
  ASSUME NEW c, Usable(c), NEW b \in Nat
  PROVE  /\ b \in Inside(c) => Normalize(c, b) = b - range[c].start /\ Normalize(c, b) < request.size
                               /\ range[c].start + Normalize(c, b) = b
         /\ b \notin Inside(c) => Normalize(c, b) = b
BY DEF Usable, Inside, Normalize

(* A store.                                                                *)
LEMMA TrackedMemory ==
  ASSUME NEW c, Usable(c), NEW s \in Tracked(c), NEW a \in Nat, NEW n \in Nat \ {0},
         NEW bytes \in Seq(Int), Len(bytes) = n, Span(a, n) \subseteq Ram[c]
  PROVE  WriteMemory(c, s, a, bytes) \in Tracked(c)
<1> DEFINE t    == WriteMemory(c, s, a, bytes)
           to   == Span(a, n)
           keys == {Normalize(c, b) : b \in to}
<1>1. s \in States(c)
  BY DEF Tracked
<1>2. /\ t \in States(c)
      /\ t.regs = s.regs /\ t.registers = s.registers /\ t.trapped = s.trapped
      /\ \A b \in Ram[c] : b \notin to => t.mem[b] = s.mem[b]
      /\ DOMAIN t.memory = DOMAIN s.memory \cup keys
      /\ \A k \in keys : \E b \in to : Normalize(c, b) = k /\ t.memory[k] = t.mem[b]
      /\ \A k \in DOMAIN s.memory : k \notin keys => t.memory[k] = s.memory[k]
      /\ t.outside = s.outside \cup {b \in to : b \notin Inside(c)}
  BY <1>1, Stored
<1>3. \A b \in to : b \in Nat /\ Normalize(c, b) \in keys
  BY DEF Span
<1> HIDE DEF t, keys, to
<1>4. \A r \in DOMAIN t.registers :
        t.registers[r] = t.regs[r] \/ (t.trapped /\ r \in Scratch(request))
  BY <1>2 DEF Tracked
<1>5. ASSUME NEW k \in DOMAIN t.memory
      PROVE  \/ k \in t.outside
             \/ k < request.size /\ t.memory[k] = t.mem[range[c].start + k]
  <2>1. CASE k \in keys
    <3>1. PICK b \in to : Normalize(c, b) = k /\ t.memory[k] = t.mem[b]
      BY <1>2, <2>1
    <3>2. CASE b \in Inside(c)
      <4>1. range[c].start + k = b /\ k < request.size
        BY <1>3, <3>1, <3>2, Normalized
      <4> QED BY <3>1, <4>1
    <3>3. CASE b \notin Inside(c)
      <4>1. k = b
        BY <1>3, <3>1, <3>3, Normalized
      <4> QED BY <1>2, <3>3, <4>1
    <3> QED BY <3>2, <3>3
  <2>2. CASE k \notin keys
    <3>1. k \in DOMAIN s.memory /\ t.memory[k] = s.memory[k]
      BY <1>2, <2>2
    <3>2. CASE k \in s.outside
      BY <1>2, <3>2
    <3>3. CASE k < request.size /\ s.memory[k] = s.mem[range[c].start + k]
      <4> DEFINE b == range[c].start + k
      <4>1. k \in Nat
        BY <1>1, <3>1, StateFields
      <4>2. b \in Inside(c) /\ b \in Nat /\ b - range[c].start = k /\ b \in Ram[c]
        <5> DEFINE start == range[c].start
                   size  == request.size
        <5>1. start \in Nat /\ size \in Nat /\ k < size /\ Inside(c) = start .. start + size - 1
          BY <3>3 DEF Usable, Inside
        <5> HIDE DEF start, size
        <5>2. start + k \in start .. start + size - 1 /\ start + k \in Nat /\ (start + k) - start = k
          BY <4>1, <5>1
        <5>3. Inside(c) \subseteq Ram[c]
          BY DEF Usable
        <5> QED BY <5>1, <5>2, <5>3 DEF start
      <4>3. Normalize(c, b) = k
        <5> HIDE DEF b
        <5> QED BY <4>2, Normalized
      <4> HIDE DEF b
      <4>4. b \notin to
        BY <1>3, <2>2, <4>3
      <4>5. t.mem[b] = s.mem[b]
        BY <1>2, <4>2, <4>4
      <4>6. s.mem[b] = s.memory[k]
        BY <3>3 DEF b
      <4>7. t.memory[k] = t.mem[b]
        BY <3>1, <4>5, <4>6
      <4> QED BY <3>3, <4>7 DEF b
    <3> QED BY <3>1, <3>2, <3>3 DEF Tracked
  <2> QED BY <2>1, <2>2
<1>6. t.outside \subseteq DOMAIN t.memory
  <2>1. \A b \in to : b \notin Inside(c) => b \in keys
    <3> SUFFICES ASSUME NEW b \in to, b \notin Inside(c) PROVE b \in keys
      OBVIOUS
    <3>1. Normalize(c, b) = b
      BY <1>3, Normalized
    <3> QED BY <1>3, <3>1
  <2>2. s.outside \subseteq DOMAIN s.memory
    BY DEF Tracked
  <2> QED BY <1>2, <2>1, <2>2
<1>7. \A b \in t.outside : b \notin Inside(c)
  BY <1>2 DEF Tracked
<1>8. t \in Tracked(c)
  BY <1>2, <1>4, <1>5, <1>6, <1>7 DEF Tracked
<1> QED BY <1>8 DEF t

(* A trap that a handler returns from.                                     *)
LEMMA TrackedTrap ==
  ASSUME NEW c, NEW s \in Tracked(c)
  PROVE  /\ TrapHandled(s) \in Tracked(c)
         /\ TrapHandled(s).registers = s.registers /\ TrapHandled(s).memory = s.memory
         /\ TrapHandled(s).mem = s.mem /\ TrapHandled(s).outside = s.outside
         /\ \A r \in Registers : r \notin Scratch(request) => TrapHandled(s).regs[r] = s.regs[r]
<1> DEFINE t    == TrapHandled(s)
           regs == [r \in Registers |-> IF r \in Scratch(request) THEN 1 ELSE s.regs[r]]
<1>1. s \in States(c)
  BY DEF Tracked
<1>2. t = [s EXCEPT !.trapped = TRUE, !.regs = regs]
  BY <1>1 DEF TrapHandled, States
<1>3. regs \in [Registers -> Int]
  BY <1>1, StateFields
<1>4. \A r \in Registers : r \notin Scratch(request) => regs[r] = s.regs[r]
  OBVIOUS
<1> HIDE DEF regs, t
<1>5. /\ t \in States(c) /\ t.regs = regs /\ t.trapped = TRUE /\ t.registers = s.registers
      /\ t.mem = s.mem /\ t.memory = s.memory /\ t.outside = s.outside
  BY <1>1, <1>2, <1>3 DEF States
<1>6. \A r \in DOMAIN t.registers :
        t.registers[r] = t.regs[r] \/ (t.trapped /\ r \in Scratch(request))
  <2> SUFFICES ASSUME NEW r \in DOMAIN s.registers, r \notin Scratch(request)
               PROVE  s.registers[r] = regs[r]
    BY <1>5
  <2>1. r \in Registers
    BY <1>1, StateFields
  <2>2. s.registers[r] = s.regs[r]
    BY DEF Tracked
  <2> QED BY <1>4, <2>1, <2>2
<1>7. t \in Tracked(c)
  BY <1>5, <1>6 DEF Tracked
<1> QED BY <1>4, <1>5, <1>7 DEF t

(* What each instruction does.                                             *)
LEMMA ExecuteLi ==
  ASSUME NEW c, NEW s, NEW r, NEW v
  PROVE  Execute(c, s, Li(r, v)) = WriteRegister(s, r, v)
BY DEF Execute, Li

LEMMA ExecuteFmv ==
  ASSUME NEW c, NEW s, NEW r, NEW w
  PROVE  Execute(c, s, Fmv(r, w)) =
           WriteRegister(s, "float", IF w = 4 THEN Box * Half + Low(s.regs[r]) ELSE s.regs[r])
BY DEF Execute, Fmv

LEMMA ExecuteFloat ==
  ASSUME NEW c, NEW s, NEW v
  PROVE  Execute(c, s, Float(v)) = WriteRegister(s, "float", v)
BY DEF Execute, Float

Written(s, r, w) == [k \in 1 .. w |-> Byte(s.regs[r], w, k - 1)]

LEMMA ExecuteStore ==
  ASSUME NEW c, NEW s, NEW r, NEW w, NEW base, NEW imm
  PROVE  Execute(c, s, Store(r, w, base, imm)) =
           IF Span(s.regs[base] + imm, w) \subseteq Ram[c]
           THEN WriteMemory(c, s, s.regs[base] + imm, Written(s, r, w))
           ELSE TrapHandled(s)
<1> DEFINE i == Store(r, w, base, imm)
<1>1. i.op = "store" /\ i.reg = r /\ i.width = w /\ i.base = base /\ i.imm = imm
  BY DEF Store
<1> HIDE DEF i
<1>2. Execute(c, s, i) =
        IF Span(s.regs[base] + imm, w) \subseteq Ram[c]
        THEN WriteMemory(c, s, s.regs[base] + imm, Written(s, r, w))
        ELSE TrapHandled(s)
  BY <1>1 DEF Execute, Span, Written
<1> QED BY <1>2 DEF i

LEMMA WrittenTyped ==
  ASSUME NEW c, NEW s \in States(c), NEW r \in Registers, NEW w \in {1, 2, 4, 8}
  PROVE  Written(s, r, w) \in Seq(Int) /\ Len(Written(s, r, w)) = w
         /\ (w = 1 => Written(s, r, w)[1] = s.regs[r])
<1>1. s.regs[r] \in Int
  BY StateFields
<1>2. \A k \in 1 .. w : Byte(s.regs[r], w, k - 1) \in Int
  BY <1>1 DEF Byte
<1> DEFINE b == Written(s, r, w)
<1>3. b = [k \in 1 .. w |-> b[k]] /\ \A k \in 1 .. w : b[k] = Byte(s.regs[r], w, k - 1)
  BY DEF Written
<1> HIDE DEF b
<1>4. \A k \in 1 .. w : b[k] \in Int
  BY <1>2, <1>3
<1>5. b \in [1 .. w -> Int] /\ w \in Nat
  BY <1>3, <1>4
<1>6. b \in Seq(Int) /\ Len(b) = w
  BY <1>3, <1>5
<1>7. w = 1 => b[1] = s.regs[r]
  <2>1. w = 1 => 1 \in 1 .. w
    BY <1>5
  <2> QED BY <1>3, <2>1 DEF Byte
<1> QED BY <1>6, <1>7 DEF b

(* An address of which a store may start is a natural number.              *)
LEMMA SpanTyped ==
  ASSUME NEW c, Usable(c), NEW a \in Int, NEW w \in Nat \ {0}, Span(a, w) \subseteq Ram[c]
  PROVE  a \in Nat
<1>1. a \in Span(a, w)
  BY DEF Span
<1>2. a \in Ram[c]
  BY <1>1
<1> QED BY <1>2 DEF Usable

(* Every instruction keeps the context in step and forgets none of it.     *)
LEMMA Executed ==
  ASSUME NEW c, Usable(c), NEW s \in Tracked(c), NEW i \in Programs
  PROVE  /\ Execute(c, s, i) \in Tracked(c)
         /\ DOMAIN s.registers \subseteq DOMAIN Execute(c, s, i).registers
         /\ DOMAIN s.memory \subseteq DOMAIN Execute(c, s, i).memory
<1>0. s \in States(c)
  BY DEF Tracked
<1>1. ASSUME NEW r \in Registers, NEW v \in Int, NEW t, t = WriteRegister(s, r, v)
      PROVE  /\ t \in Tracked(c)
             /\ DOMAIN s.registers \subseteq DOMAIN t.registers
             /\ DOMAIN s.memory \subseteq DOMAIN t.memory
  BY <1>0, <1>1, TrackedRegister, Registered
<1>2. "float" \in Registers /\ \A r \in Registers : s.regs[r] \in Int
  BY <1>0, StateFields, TempsTyped
<1>3. CASE i \in [op : {"li"}, reg : Registers, value : Int]
  <2>1. i = Li(i.reg, i.value) /\ i.reg \in Registers /\ i.value \in Int
    BY <1>3 DEF Li
  <2>2. Execute(c, s, i) = WriteRegister(s, i.reg, i.value)
    BY <2>1, ExecuteLi
  <2> QED BY <1>1, <2>1, <2>2
<1>4. CASE i \in [op : {"fmv"}, reg : Registers, width : {4, 8}]
  <2>1. i = Fmv(i.reg, i.width) /\ i.reg \in Registers
    BY <1>4 DEF Fmv
  <2> DEFINE v == IF i.width = 4 THEN Box * Half + Low(s.regs[i.reg]) ELSE s.regs[i.reg]
  <2>2. v \in Int
    BY <1>2, <2>1 DEF Box, Half, Low
  <2>3. Execute(c, s, i) = WriteRegister(s, "float", v)
    BY <2>1, ExecuteFmv
  <2> HIDE DEF v
  <2> QED BY <1>1, <1>2, <2>2, <2>3
<1>5. CASE i \in [op : {"float"}, value : Int]
  <2>1. i = Float(i.value) /\ i.value \in Int
    BY <1>5 DEF Float
  <2>2. Execute(c, s, i) = WriteRegister(s, "float", i.value)
    BY <2>1, ExecuteFloat
  <2> QED BY <1>1, <1>2, <2>1, <2>2
<1>6. CASE i \in [op : {"store"}, reg : Registers, width : {1, 2, 4, 8}, base : Registers, imm : Int]
  <2>1. /\ i = Store(i.reg, i.width, i.base, i.imm)
        /\ i.reg \in Registers /\ i.width \in {1, 2, 4, 8} /\ i.base \in Registers /\ i.imm \in Int
    BY <1>6 DEF Store
  <2> DEFINE a == s.regs[i.base] + i.imm
             w == i.width
             b == Written(s, i.reg, w)
  <2>2. Execute(c, s, i) = IF Span(a, w) \subseteq Ram[c] THEN WriteMemory(c, s, a, b) ELSE TrapHandled(s)
    BY <2>1, ExecuteStore
  <2>3. a \in Int /\ w \in Nat \ {0} /\ b \in Seq(Int) /\ Len(b) = w
    <3>1. a \in Int
      BY <1>2, <2>1
    <3>2. w \in {1, 2, 4, 8}
      BY <2>1
    <3>3. b \in Seq(Int) /\ Len(b) = w
      <4> HIDE DEF w
      <4> QED BY <1>0, <2>1, <3>2, WrittenTyped
    <3> HIDE DEF a, b, w
    <3> QED BY <3>1, <3>2, <3>3
  <2> HIDE DEF a, b, w
  <2>4. CASE Span(a, w) \subseteq Ram[c]
    <3>1. a \in Nat
      BY <2>3, <2>4, SpanTyped
    <3>2. WriteMemory(c, s, a, b) \in Tracked(c)
      BY <2>3, <2>4, <3>1, TrackedMemory
    <3>3. /\ WriteMemory(c, s, a, b).registers = s.registers
          /\ DOMAIN s.memory \subseteq DOMAIN WriteMemory(c, s, a, b).memory
      BY <1>0, <2>3, <2>4, <3>1, Stored
    <3> QED BY <2>2, <2>4, <3>2, <3>3
  <2>5. CASE ~(Span(a, w) \subseteq Ram[c])
    BY <2>2, <2>5, TrackedTrap
  <2> QED BY <2>4, <2>5
<1> QED BY <1>3, <1>4, <1>5, <1>6 DEF Programs, Instructions

(* The context is complete: it holds every register and the whole range.   *)
Covered(c) ==
  {s \in Tracked(c) : /\ DOMAIN s.registers = Registers
                      /\ \A k \in Nat : k < request.size => k \in DOMAIN s.memory}

LEMMA ExecutedCovered ==
  ASSUME NEW c, Usable(c), NEW s \in Covered(c), NEW i \in Programs
  PROVE  Execute(c, s, i) \in Covered(c)
<1> DEFINE t == Execute(c, s, i)
<1>1. /\ t \in Tracked(c)
      /\ DOMAIN s.registers \subseteq DOMAIN t.registers
      /\ DOMAIN s.memory \subseteq DOMAIN t.memory
  BY Executed DEF Covered
<1> HIDE DEF t
<1>2. DOMAIN t.registers \subseteq Registers
  BY <1>1, StateFields DEF Tracked
<1>3. t \in Covered(c)
  BY <1>1, <1>2 DEF Covered
<1> QED BY <1>3 DEF t

LEMMA RunFour ==
  ASSUME NEW c, NEW s, NEW i, NEW j, NEW l, NEW m
  PROVE  RunBlock(c, s, <<i, j, l, m>>) =
           Execute(c, Execute(c, Execute(c, Execute(c, s, i), j), l), m)
<1> DEFINE b == <<i, j, l, m>>
<1>1. Len(b) \in Nat /\ Len(b) = 4 /\ b[1] = i /\ b[2] = j /\ b[3] = l /\ b[4] = m
  OBVIOUS
<1> HIDE DEF b
<1>0. PICK f : Follows(f, c, s, b)
  BY <1>1, RunUnfolds
<1>2. /\ f[0] = s
      /\ \A k \in 1 .. 4 : f[k] = Execute(c, f[k - 1], b[k])
      /\ RunBlock(c, s, b) = f[4]
  BY <1>0, <1>1 DEF Follows
<1>3. /\ f[1] = Execute(c, f[0], b[1]) /\ f[2] = Execute(c, f[1], b[2])
      /\ f[3] = Execute(c, f[2], b[3]) /\ f[4] = Execute(c, f[3], b[4])
  <2>1. /\ 1 \in 1 .. 4 /\ 2 \in 1 .. 4 /\ 3 \in 1 .. 4 /\ 4 \in 1 .. 4
        /\ 1 - 1 = 0 /\ 2 - 1 = 1 /\ 3 - 1 = 2 /\ 4 - 1 = 3
    OBVIOUS
  <2> QED BY <1>2, <2>1
<1>4. RunBlock(c, s, b) = Execute(c, Execute(c, Execute(c, Execute(c, s, i), j), l), m)
  BY <1>1, <1>2, <1>3
<1> QED BY <1>4 DEF b

-----------------------------------------------------------------------------
(* The initialization of a testcase.                                       *)

LEMMA FreshTracked ==
  ASSUME NEW c
  PROVE  Fresh(c) \in Tracked(c)
<1> DEFINE s == Fresh(c)
<1>1. [r \in Registers |-> 0] \in [Registers -> Int] /\ [a \in Ram[c] |-> 0] \in [Ram[c] -> Int]
  OBVIOUS
<1>2. <<>> \in [{} -> Int] /\ {} \in SUBSET Registers /\ {} \in SUBSET Nat
  OBVIOUS
<1>3. <<>> \in Known /\ <<>> \in Bytes
  BY <1>2 DEF Known, Bytes
<1>4. s \in States(c)
  BY <1>1, <1>3 DEF States, Fresh
<1>5. s.registers = <<>> /\ s.memory = <<>> /\ s.outside = {} /\ DOMAIN <<>> = {}
  BY DEF Fresh
<1> HIDE DEF s
<1>6. s \in Tracked(c)
  BY <1>4, <1>5 DEF Tracked
<1> QED BY <1>6 DEF s

LEMMA WordTyped ==
  ASSUME NEW c, Usable(c)
  PROVE  /\ WordSize(request) \in {4, 8}
         /\ ((range[c].end - range[c].start + 1) \div WordSize(request)) * WordSize(request) = request.size
         /\ (range[c].end - range[c].start + 1) \div WordSize(request) \in Nat
<1> DEFINE w == WordSize(request)
           z == request.size
<1>1. w \in {4, 8}
  BY DEF WordSize
<1>2. range[c].end - range[c].start + 1 = z /\ z \in Nat /\ z % w = 0
  BY DEF Usable
<1> HIDE DEF w, z
<1>3. (z \div w) * w = z /\ z \div w \in Nat
  <2>1. CASE w = 4
    <3>1. (z \div 4) * 4 = z /\ z \div 4 \in Nat
      BY <1>2, <2>1
    <3> QED BY <2>1, <3>1
  <2>2. CASE w = 8
    <3>1. (z \div 8) * 8 = z /\ z \div 8 \in Nat
      BY <1>2, <2>2
    <3> QED BY <2>2, <3>1
  <2> QED BY <1>1, <2>1, <2>2
<1>4. w \in {4, 8} /\ ((range[c].end - range[c].start + 1) \div w) * w = z
      /\ (range[c].end - range[c].start + 1) \div w \in Nat
  BY <1>1, <1>2, <1>3
<1> QED BY <1>4 DEF w, z

(* The parts of the initialization.                                        *)
InitHead(c) ==
  <<Li("test", 2), Li(Temps[1], IF WordSize(request) = 4 THEN 3 ELSE 3 * Half + 3),
    Fmv(Temps[1], WordSize(request)), Li(Temps[2], range[c].start)>>
InitWord(n) ==
  <<Li(Temps[3], 50 + n), Store(Temps[3], WordSize(request), Temps[2], (n - 1) * WordSize(request))>>
InitWords(c) ==
  [n \in 1 .. (range[c].end - range[c].start + 1) \div WordSize(request) |-> InitWord(n)]
InitTail == [n \in 1 .. 3 |-> Li(Temps[n], 0)]

LEMMA InitParts ==
  ASSUME NEW c
  PROVE  InitBlock(c) = (InitHead(c) \o FlattenSeq(InitWords(c))) \o InitTail
BY DEF InitBlock, InitHead, InitWords, InitWord, InitTail

LEMMA InitTyped ==
  ASSUME NEW c, Usable(c)
  PROVE  /\ InitHead(c) \in Seq(Instructions)
         /\ InitWords(c) \in Seq(Seq(Instructions))
         /\ Len(InitWords(c)) = (range[c].end - range[c].start + 1) \div WordSize(request)
         /\ \A n \in 1 .. Len(InitWords(c)) : InitWords(c)[n] = InitWord(n)
         /\ FlattenSeq(InitWords(c)) \in Seq(Instructions)
         /\ InitTail \in Seq(Instructions)
         /\ InitTail = <<Li(Temps[1], 0), Li(Temps[2], 0), Li(Temps[3], 0)>>
         /\ InitBlock(c) \in Seq(Instructions)
<1> DEFINE w == WordSize(request)
           count == (range[c].end - range[c].start + 1) \div WordSize(request)
<1>1. w \in {4, 8} /\ count \in Nat /\ range[c].start \in Int
  BY WordTyped DEF Usable
<1>2. \A r \in Registers, v \in Int : Li(r, v) \in Instructions
  BY DEF Li, Instructions
<1>3. \A r \in Registers : Fmv(r, w) \in Instructions
  BY <1>1 DEF Fmv, Instructions
<1>4. \A r, b \in Registers, v \in Int : Store(r, w, b, v) \in Instructions
  BY <1>1 DEF Store, Instructions
<1>5. "test" \in Registers /\ Temps[1] \in Registers /\ Temps[2] \in Registers /\ Temps[3] \in Registers
  BY TempsTyped
<1>6. InitHead(c) \in Seq(Instructions)
  <2>1. (IF w = 4 THEN 3 ELSE 3 * Half + 3) \in Int
    BY DEF Half
  <2> HIDE DEF w
  <2>2. <<Li("test", 2), Li(Temps[1], IF w = 4 THEN 3 ELSE 3 * Half + 3),
          Fmv(Temps[1], w), Li(Temps[2], range[c].start)>> \in Seq(Instructions)
    BY <1>1, <1>2, <1>3, <1>5, <2>1
  <2> QED BY <2>2 DEF InitHead, w
<1>7. ASSUME NEW n \in Nat PROVE InitWord(n) \in Seq(Instructions)
  <2>1. 50 + n \in Int /\ (n - 1) * w \in Int
    BY <1>1
  <2>2. Li(Temps[3], 50 + n) \in Instructions /\ Store(Temps[3], w, Temps[2], (n - 1) * w) \in Instructions
    BY <1>2, <1>4, <1>5, <2>1
  <2> QED BY <2>2 DEF InitWord
<1>8. /\ InitWords(c) \in Seq(Seq(Instructions)) /\ Len(InitWords(c)) = count
      /\ \A n \in 1 .. count : InitWords(c)[n] = InitWord(n)
  <2> DEFINE ws == InitWords(c)
  <2>1. ws = [n \in 1 .. count |-> InitWord(n)]
    BY DEF InitWords
  <2> HIDE DEF ws, count
  <2>2. \A n \in 1 .. count : ws[n] = InitWord(n) /\ ws[n] \in Seq(Instructions)
    BY <1>1, <1>7, <2>1
  <2>3. ws \in [1 .. count -> Seq(Instructions)]
    BY <2>1, <2>2
  <2>4. ws \in Seq(Seq(Instructions)) /\ Len(ws) = count
    BY <1>1, <2>1, <2>3
  <2> QED BY <2>2, <2>4 DEF ws
<1>9. FlattenSeq(InitWords(c)) \in Seq(Instructions)
  BY <1>8, FlattenTyped
<1>10. InitTail = <<Li(Temps[1], 0), Li(Temps[2], 0), Li(Temps[3], 0)>>
  BY DEF InitTail
<1>11. InitTail \in Seq(Instructions)
  BY <1>2, <1>5, <1>10
<1>12. InitBlock(c) \in Seq(Instructions)
  <2> DEFINE f == FlattenSeq(InitWords(c))
  <2> HIDE DEF f
  <2>1. InitHead(c) \o f \in Seq(Instructions)
    BY <1>6, <1>9, ConcatProperties DEF f
  <2>2. (InitHead(c) \o f) \o InitTail \in Seq(Instructions)
    BY <1>11, <2>1, ConcatProperties
  <2> QED BY <2>2, InitParts DEF f
<1> QED BY <1>6, <1>8, <1>9, <1>10, <1>11, <1>12

(* The states after the first n words.                                     *)
Initialized(c, n) ==
  {s \in Tracked(c) : /\ s.regs[Temps[2]] = range[c].start
                      /\ "test" \in DOMAIN s.registers /\ "float" \in DOMAIN s.registers
                      /\ \A k \in Nat : k < n * WordSize(request) => k \in DOMAIN s.memory}

(* A register has been loaded.                                             *)
Loaded(c, t, s, r, v) ==
  /\ t \in Tracked(c)
  /\ t.regs[r] = v
  /\ \A q \in Registers : q # r => t.regs[q] = s.regs[q]
  /\ DOMAIN t.registers = DOMAIN s.registers \cup {r}
  /\ t.mem = s.mem /\ t.memory = s.memory /\ t.outside = s.outside /\ t.trapped = s.trapped

LEMMA WriteLoaded ==
  ASSUME NEW c, NEW s \in Tracked(c), NEW r \in Registers, NEW v \in Int
  PROVE  Loaded(c, WriteRegister(s, r, v), s, r, v)
<1>2. s \in States(c)
  BY DEF Tracked
<1>3. WriteRegister(s, r, v) \in Tracked(c)
  BY TrackedRegister
<1> DEFINE t == WriteRegister(s, r, v)
<1>4. /\ t.regs[r] = v
      /\ \A q \in Registers : q # r => t.regs[q] = s.regs[q]
      /\ DOMAIN t.registers = DOMAIN s.registers \cup {r}
      /\ t.mem = s.mem /\ t.memory = s.memory /\ t.outside = s.outside /\ t.trapped = s.trapped
  BY <1>2, Registered
<1> HIDE DEF t
<1>5. Loaded(c, t, s, r, v)
  BY <1>3, <1>4 DEF Loaded, t
<1> QED BY <1>5 DEF t

LEMMA LoadTracked ==
  ASSUME NEW c, NEW s \in Tracked(c), NEW r \in Registers, NEW v \in Int
  PROVE  Loaded(c, Execute(c, s, Li(r, v)), s, r, v)
BY ExecuteLi, WriteLoaded

LEMMA HeadRun ==
  ASSUME NEW c, Usable(c)
  PROVE  RunBlock(c, Fresh(c), InitHead(c)) \in Initialized(c, 0)
<1> DEFINE v  == IF WordSize(request) = 4 THEN 3 ELSE 3 * Half + 3
           s1 == Execute(c, Fresh(c), Li("test", 2))
           s2 == Execute(c, s1, Li(Temps[1], v))
           i3 == Fmv(Temps[1], WordSize(request))
           s3 == Execute(c, s2, i3)
           s4 == Execute(c, s3, Li(Temps[2], range[c].start))
<1>1. RunBlock(c, Fresh(c), InitHead(c)) = s4
  BY RunFour DEF InitHead
<1>2. v \in Int /\ WordSize(request) \in {4, 8} /\ range[c].start \in Int
  BY WordTyped DEF Half, Usable
<1>3. /\ "test" \in Registers /\ Temps[1] \in Registers /\ Temps[2] \in Registers
      /\ "float" \in Registers
  BY TempsTyped
<1> HIDE DEF v
<1>4. s1 \in Tracked(c) /\ "test" \in DOMAIN s1.registers
  <2>1. Loaded(c, s1, Fresh(c), "test", 2)
    BY <1>3, FreshTracked, LoadTracked
  <2> HIDE DEF s1
  <2> QED BY <2>1 DEF Loaded
<1> HIDE DEF s1
<1>5. s2 \in Tracked(c) /\ "test" \in DOMAIN s2.registers
  <2>1. Loaded(c, s2, s1, Temps[1], v)
    BY <1>2, <1>3, <1>4, LoadTracked
  <2> HIDE DEF s2
  <2> QED BY <1>4, <2>1 DEF Loaded
<1> HIDE DEF s2
<1>6. s3 \in Tracked(c) /\ "test" \in DOMAIN s3.registers /\ "float" \in DOMAIN s3.registers
  <2>1. i3 \in Programs
    BY <1>2, <1>3 DEF Fmv, Programs, Instructions
  <2>2. s3 \in Tracked(c) /\ DOMAIN s2.registers \subseteq DOMAIN s3.registers
    <3> HIDE DEF i3
    <3> QED BY <1>5, <2>1, Executed
  <2> DEFINE x == IF WordSize(request) = 4 THEN Box * Half + Low(s2.regs[Temps[1]]) ELSE s2.regs[Temps[1]]
  <2>3. s3 = WriteRegister(s2, "float", x)
    BY ExecuteFmv
  <2>4. x \in Int
    <3>1. s2.regs[Temps[1]] \in Int
      BY <1>3, <1>5, StateFields DEF Tracked
    <3> QED BY <3>1 DEF Box, Half, Low
  <2> HIDE DEF x
  <2>5. "float" \in DOMAIN s3.registers
    <3>1. Loaded(c, s3, s2, "float", x)
      BY <1>3, <1>5, <2>3, <2>4, WriteLoaded
    <3> HIDE DEF s3
    <3> QED BY <3>1 DEF Loaded
  <2> QED BY <1>5, <2>2, <2>5
<1> HIDE DEF s3
<1>7. /\ s4 \in Tracked(c) /\ "test" \in DOMAIN s4.registers /\ "float" \in DOMAIN s4.registers
      /\ s4.regs[Temps[2]] = range[c].start
  <2>1. Loaded(c, s4, s3, Temps[2], range[c].start)
    BY <1>2, <1>3, <1>6, LoadTracked
  <2> HIDE DEF s4
  <2> QED BY <1>6, <2>1 DEF Loaded
<1> HIDE DEF s4
<1>8. \A k \in Nat : ~(k < 0 * WordSize(request))
  BY <1>2
<1> QED BY <1>1, <1>7, <1>8 DEF Initialized

(* One word: its bytes are in the range and reach the context.             *)
LEMMA WordRun ==
  ASSUME NEW c, Usable(c), NEW n \in 1 .. Len(InitWords(c)), NEW s \in Initialized(c, n - 1)
  PROVE  RunBlock(c, s, InitWord(n)) \in Initialized(c, n)
<1> DEFINE w     == WordSize(request)
           start == range[c].start
           z     == request.size
           imm   == (n - 1) * w
           a     == start + imm
           s1    == Execute(c, s, Li(Temps[3], 50 + n))
           i2    == Store(Temps[3], w, Temps[2], imm)
           s2    == Execute(c, s1, i2)
           b     == Written(s1, Temps[3], w)
<1>1. RunBlock(c, s, InitWord(n)) = s2
  BY RunTwo DEF InitWord
<1>2. w \in {4, 8} /\ Len(InitWords(c)) * w = z /\ n \in Nat /\ n <= Len(InitWords(c))
      /\ Len(InitWords(c)) \in Nat /\ n >= 1
  BY WordTyped, InitTyped
<1>3. start \in Nat /\ z \in Nat /\ Inside(c) = start .. start + z - 1 /\ Inside(c) \subseteq Ram[c]
  BY DEF Usable, Inside
<1>4. imm \in Nat /\ imm + w <= z /\ n * w = imm + w
  <2> DEFINE m == Len(InitWords(c))
  <2>1. m \in Nat /\ m * w = z /\ n <= m
    BY <1>2
  <2> HIDE DEF m, z
  <2>2. CASE w = 4
    <3>1. m * 4 = z /\ (n - 1) * 4 \in Nat /\ (n - 1) * 4 + 4 <= m * 4 /\ n * 4 = (n - 1) * 4 + 4
      BY <1>2, <2>1, <2>2
    <3> QED BY <2>2, <3>1
  <2>3. CASE w = 8
    <3>1. m * 8 = z /\ (n - 1) * 8 \in Nat /\ (n - 1) * 8 + 8 <= m * 8 /\ n * 8 = (n - 1) * 8 + 8
      BY <1>2, <2>1, <2>3
    <3> QED BY <2>3, <3>1
  <2> QED BY <1>2, <2>2, <2>3
<1>5. Temps[2] \in Registers /\ Temps[3] \in Registers /\ Temps[2] # Temps[3]
  BY TempsTyped
<1>6. /\ s \in Tracked(c) /\ s.regs[Temps[2]] = start
      /\ "test" \in DOMAIN s.registers /\ "float" \in DOMAIN s.registers
      /\ \A k \in Nat : k < imm => k \in DOMAIN s.memory
  BY DEF Initialized
<1> HIDE DEF w, start, z, imm
<1>7. /\ s1 \in Tracked(c) /\ s1.regs[Temps[2]] = start
      /\ "test" \in DOMAIN s1.registers /\ "float" \in DOMAIN s1.registers
      /\ s1.memory = s.memory
  <2>1. 50 + n \in Int
    BY <1>2
  <2>2. Loaded(c, s1, s, Temps[3], 50 + n)
    BY <1>5, <1>6, <2>1, LoadTracked
  <2> HIDE DEF s1
  <2> QED BY <1>5, <1>6, <2>2 DEF Loaded
<1> HIDE DEF s1
<1>8. Span(a, w) \subseteq Ram[c] /\ Span(a, w) \subseteq Inside(c) /\ a \in Nat
  <2>1. w \in Nat /\ start \in Nat /\ z \in Nat /\ imm \in Nat /\ imm + w <= z
    BY <1>2, <1>3, <1>4
  <2>2. a \in Nat /\ \A x \in a .. a + w - 1 : x \in start .. start + z - 1
    BY <2>1
  <2> QED BY <1>3, <2>2 DEF Span
<1>9. s2 = WriteMemory(c, s1, a, b)
  <2>1. s2 = IF Span(s1.regs[Temps[2]] + imm, w) \subseteq Ram[c]
             THEN WriteMemory(c, s1, s1.regs[Temps[2]] + imm, b) ELSE TrapHandled(s1)
    BY ExecuteStore
  <2> HIDE DEF s2, b
  <2> QED BY <1>7, <1>8, <2>1
<1>10. b \in Seq(Int) /\ Len(b) = w /\ w \in Nat \ {0}
  <2>1. w \in {1, 2, 4, 8} /\ s1 \in States(c)
    BY <1>2, <1>7 DEF Tracked
  <2>2. b \in Seq(Int) /\ Len(b) = w
    BY <1>5, <2>1, WrittenTyped
  <2> QED BY <2>1, <2>2
<1> HIDE DEF a, b, s2
<1>11. s2 \in Tracked(c)
  BY <1>7, <1>8, <1>9, <1>10, TrackedMemory
<1>12. /\ s2.regs = s1.regs /\ s2.registers = s1.registers
       /\ DOMAIN s2.memory = DOMAIN s1.memory \cup {Normalize(c, x) : x \in Span(a, w)}
  BY <1>7, <1>8, <1>9, <1>10, Stored DEF Tracked
<1>13. \A k \in Nat : k < n * w => k \in DOMAIN s2.memory
  <2> SUFFICES ASSUME NEW k \in Nat, k < n * w, ~(k < imm) PROVE k \in DOMAIN s2.memory
    BY <1>6, <1>7, <1>12
  <2>1. start + k \in Span(a, w) /\ start + k \in Nat /\ (start + k) - start = k
    <3>1. a = start + imm /\ k >= imm /\ k < imm + w /\ w \in Nat
      BY <1>2, <1>4 DEF a
    <3> QED BY <1>3, <1>4, <3>1 DEF Span
  <2>2. Normalize(c, start + k) = k
    <3> DEFINE x == start + k
    <3>1. x \in Nat /\ x \in Inside(c) /\ x - range[c].start = k
      BY <1>8, <2>1 DEF start
    <3> HIDE DEF x
    <3>2. Normalize(c, x) = k
      BY <3>1, Normalized
    <3> QED BY <3>2 DEF x
  <2> QED BY <1>12, <2>1, <2>2
<1> QED BY <1>1, <1>6, <1>7, <1>11, <1>12, <1>13 DEF Initialized, w, start

(* generate_initialization_instructions_for_vec: every register and every  *)
(* byte of the range is written, on a core of any range.                   *)
LEMMA InitCovers ==
  ASSUME NEW c, Usable(c)
  PROVE  RunBlock(c, Fresh(c), InitBlock(c)) \in Covered(c)
<1> DEFINE Q     == [n \in Nat |-> Initialized(c, n)]
           ws    == InitWords(c)
           words == FlattenSeq(ws)
           start == RunBlock(c, Fresh(c), InitHead(c))
           s     == RunBlock(c, start, words)
<1>1. /\ InitHead(c) \in Seq(Instructions) /\ words \in Seq(Instructions)
      /\ InitTail \in Seq(Instructions) /\ ws \in Seq(Seq(Instructions))
      /\ Len(ws) \in Nat /\ Len(ws) * WordSize(request) = request.size
      /\ \A n \in 1 .. Len(ws) : ws[n] = InitWord(n)
  BY InitTyped, WordTyped
<1>2. RunBlock(c, Fresh(c), InitBlock(c)) = RunBlock(c, s, InitTail)
  <2> DEFINE h == InitHead(c)
  <2> HIDE DEF h, words, ws
  <2>1. h \o words \in Seq(Instructions)
    BY <1>1, ConcatProperties DEF h
  <2>2. RunBlock(c, Fresh(c), (h \o words) \o InitTail) = RunBlock(c, RunBlock(c, Fresh(c), h \o words), InitTail)
    BY <1>1, <2>1, RunConcat
  <2>3. RunBlock(c, Fresh(c), h \o words) = RunBlock(c, RunBlock(c, Fresh(c), h), words)
    BY <1>1, RunConcat DEF h
  <2> QED BY <2>2, <2>3, InitParts DEF h, words, ws
<1>3. s \in Initialized(c, Len(ws))
  <2>1. start \in Q[0]
    BY HeadRun
  <2>2. ASSUME NEW n \in 1 .. Len(ws), NEW x \in Q[n - 1] PROVE RunBlock(c, x, ws[n]) \in Q[n]
    <3>1. n - 1 \in Nat /\ n \in Nat
      BY <1>1
    <3>2. x \in Initialized(c, n - 1)
      BY <3>1
    <3>3. RunBlock(c, x, InitWord(n)) \in Initialized(c, n)
      BY <3>2, WordRun
    <3> QED BY <1>1, <3>1, <3>3
  <2> HIDE DEF Q, start, ws
  <2>3. s \in Q[Len(ws)]
    BY <1>1, <2>1, <2>2, RunFlatten
  <2> QED BY <1>1, <2>3 DEF Q
<1> HIDE DEF s, ws, words, start
<1> DEFINE s1 == Execute(c, s, Li(Temps[1], 0))
           s2 == Execute(c, s1, Li(Temps[2], 0))
           s3 == Execute(c, s2, Li(Temps[3], 0))
<1>4. RunBlock(c, s, InitTail) = s3
  BY InitTyped, RunThree
<1>5. Temps[1] \in Registers /\ Temps[2] \in Registers /\ Temps[3] \in Registers
      /\ Registers = {Temps[1], Temps[2], Temps[3], "test", "float"}
  BY TempsTyped
<1>6. /\ s \in Tracked(c) /\ "test" \in DOMAIN s.registers /\ "float" \in DOMAIN s.registers
      /\ \A k \in Nat : k < request.size => k \in DOMAIN s.memory
  BY <1>1, <1>3 DEF Initialized
<1>7. s1 \in Tracked(c) /\ DOMAIN s1.registers = DOMAIN s.registers \cup {Temps[1]} /\ s1.memory = s.memory
  <2>1. Loaded(c, s1, s, Temps[1], 0)
    BY <1>5, <1>6, LoadTracked
  <2> HIDE DEF s1
  <2> QED BY <1>6, <2>1 DEF Loaded
<1> HIDE DEF s1
<1>8. s2 \in Tracked(c) /\ DOMAIN s2.registers = DOMAIN s1.registers \cup {Temps[2]} /\ s2.memory = s.memory
  <2>1. Loaded(c, s2, s1, Temps[2], 0)
    BY <1>5, <1>7, LoadTracked
  <2> HIDE DEF s2
  <2> QED BY <1>7, <2>1 DEF Loaded
<1> HIDE DEF s2
<1>9. s3 \in Tracked(c) /\ DOMAIN s3.registers = DOMAIN s2.registers \cup {Temps[3]} /\ s3.memory = s.memory
  <2>1. Loaded(c, s3, s2, Temps[3], 0)
    BY <1>5, <1>8, LoadTracked
  <2> HIDE DEF s3
  <2> QED BY <1>8, <2>1 DEF Loaded
<1> HIDE DEF s3
<1>10. DOMAIN s3.registers = Registers
  <2>1. DOMAIN s3.registers \subseteq Registers
    BY <1>9, StateFields DEF Tracked
  <2>2. \A r \in Registers : r \in DOMAIN s3.registers
    BY <1>5, <1>6, <1>7, <1>8, <1>9
  <2> QED BY <2>1, <2>2
<1> QED BY <1>2, <1>4, <1>6, <1>9, <1>10 DEF Covered

-----------------------------------------------------------------------------
(* The restoration of a context.                                           *)

LEMMA FiniteTop ==
  ASSUME NEW D \in SUBSET Nat, IsFiniteSet(D), D # {}
  PROVE  \E top \in D : \A d \in D : d <= top
<1> DEFINE Topped(S) == S = {} \/ \E top \in S : \A d \in S : d <= top
           T == {n \in Nat : \A S \in SUBSET D : IsFiniteSet(S) /\ Cardinality(S) = n => Topped(S)}
<1>1. 0 \in T
  <2>1. ASSUME NEW S \in SUBSET D, IsFiniteSet(S), Cardinality(S) = 0 PROVE Topped(S)
    <3>1. S = {}
      BY <2>1, FS_EmptySet
    <3> QED BY <3>1
  <2> HIDE DEF Topped
  <2> QED BY <2>1
<1>2. ASSUME NEW n \in Nat, n \in T PROVE n + 1 \in T
  <2> SUFFICES ASSUME NEW S \in SUBSET D, IsFiniteSet(S), Cardinality(S) = n + 1, S # {}
               PROVE  \E top \in S : \A d \in S : d <= top
    OBVIOUS
  <2>1. PICK x \in S : TRUE
    OBVIOUS
  <2> DEFINE R == S \ {x}
  <2>2. IsFiniteSet(R) /\ Cardinality(R) = Cardinality(S) - 1
    BY <2>1, FS_RemoveElement
  <2>3. R \in SUBSET D /\ Cardinality(R) = n /\ x \in Nat /\ \A d \in S : d \in Nat
    BY <2>1, <2>2
  <2>4. Topped(R)
    <3> HIDE DEF Topped, R
    <3> QED BY <1>2, <2>2, <2>3
  <2>5. CASE R = {}
    <3>1. S = {x}
      BY <2>1, <2>5
    <3>2. x <= x
      BY <2>3
    <3> QED BY <3>1, <3>2
  <2>6. CASE R # {}
    <3>1. PICK top \in R : \A d \in R : d <= top
      BY <2>4, <2>6
    <3>2. top \in S /\ top \in Nat
      BY <2>3, <3>1
    <3>3. \A d \in S : d = x \/ d <= top
      BY <3>1
    <3>4. CASE x <= top
      BY <3>2, <3>3, <3>4
    <3>5. CASE top < x
      <4>1. \A d \in S : d <= x
        BY <2>3, <3>2, <3>3, <3>5
      <4> QED BY <2>1, <4>1
    <3> QED BY <2>3, <3>2, <3>4, <3>5
  <2> QED BY <2>5, <2>6
<1>3. Cardinality(D) \in Nat
  BY FS_CardinalityType
<1>4. Cardinality(D) \in T
  <2> HIDE DEF T
  <2> QED BY <1>1, <1>2, <1>3, Induction
<1> QED BY <1>3, <1>4

(* The keys of a complete context: the offsets of the range, and the       *)
(* addresses outside of it that are not taken for one.                     *)
LEMMA CoveredKeys ==
  ASSUME NEW c, Usable(c), NEW s \in Covered(c)
  PROVE  LET strays == {a \in s.outside : a >= request.size} IN
         /\ IsFiniteSet(DOMAIN s.memory) /\ DOMAIN s.memory # {} /\ DOMAIN s.memory \in SUBSET Nat
         /\ Cardinality(strays) \in Nat
         /\ Cardinality(DOMAIN s.memory) = request.size + Cardinality(strays)
<1> DEFINE z      == request.size
           strays == {a \in s.outside : a >= z}
           own    == 0 .. z - 1
           D      == DOMAIN s.memory
<1>1. z \in Nat \ {0} /\ IsFiniteSet(Ram[c]) /\ Ram[c] \subseteq Nat
  BY DEF Usable
<1>2. s \in Tracked(c) /\ s \in States(c)
  BY DEF Covered, Tracked
<1>3. D \subseteq Nat /\ s.outside \subseteq Ram[c]
  BY <1>2, StateFields
<1>4. IsFiniteSet(strays)
  BY <1>1, <1>3, FS_Subset
<1>5. IsFiniteSet(own) /\ Cardinality(own) = z
  <2>1. 0 \in Int /\ z - 1 \in Int /\ ~(0 > z - 1) /\ z - 1 - 0 + 1 = z
    BY <1>1
  <2> HIDE DEF z
  <2> QED BY <2>1, FS_Interval
<1>6. D = own \cup strays
  <2>1. \A k \in D : k \in own \/ k \in strays
    <3> SUFFICES ASSUME NEW k \in D, k \notin own PROVE k \in strays
      OBVIOUS
    <3>1. k \in Nat /\ ~(k < z)
      BY <1>1, <1>3
    <3>2. k \in s.outside
      BY <1>2, <3>1 DEF Tracked
    <3> QED BY <1>1, <3>1, <3>2
  <2>2. \A k \in own : k \in D
    <3>1. \A k \in own : k \in Nat /\ k < z
      BY <1>1
    <3> QED BY <3>1 DEF Covered
  <2>3. \A k \in strays : k \in D
    BY <1>2 DEF Tracked
  <2> HIDE DEF own, strays, D
  <2> QED BY <2>1, <2>2, <2>3
<1>7. own \cap strays = {}
  <2>1. \A k \in own : ~(k >= z)
    BY <1>1
  <2> QED BY <2>1
<1>8. 0 \in own
  BY <1>1
<1> HIDE DEF own, strays, D, z
<1>9. /\ IsFiniteSet(own \cup strays)
      /\ Cardinality(own \cup strays) = Cardinality(own) + Cardinality(strays) - Cardinality(own \cap strays)
  BY <1>4, <1>5, FS_Union
<1>10. Cardinality(own \cap strays) = 0 /\ Cardinality(strays) \in Nat
  BY <1>4, <1>7, FS_CardinalityType, FS_EmptySet
<1>11. IsFiniteSet(D) /\ D # {} /\ D \in SUBSET Nat /\ Cardinality(D) = z + Cardinality(strays)
  BY <1>1, <1>3, <1>5, <1>6, <1>8, <1>9, <1>10
<1> QED BY <1>10, <1>11 DEF strays, D, z

(* Their sequence.                                                         *)
LEMMA KeysListed ==
  ASSUME NEW D \in SUBSET Nat, IsFiniteSet(D), D # {}
  PROVE  /\ Ascending(D) \in Seq(D)
         /\ Len(Ascending(D)) = Cardinality(D)
         /\ \A d \in D : \E n \in 1 .. Len(Ascending(D)) : Ascending(D)[n] = d
<1>1. PICK top \in D : \A d \in D : d <= top
  BY FiniteTop
<1> QED BY <1>1, AscendingProperties

RestoreByte(c, memory, k) ==
  <<Li(Temps[1], range[c].start + k), Li(Temps[2], memory[k]), Store(Temps[2], 1, Temps[1], 0)>>
RestoreBytes(c, memory) ==
  [n \in DOMAIN Ascending(DOMAIN memory) |-> RestoreByte(c, memory, Ascending(DOMAIN memory)[n])]

LEMMA MemoryRestored ==
  ASSUME NEW c, NEW memory
  PROVE  MemoryRestore(c, memory) = FlattenSeq(RestoreBytes(c, memory))
BY DEF MemoryRestore, RestoreBytes, RestoreByte

(* Three instructions for each byte.                                       *)
Restoring(c, memory) ==
  /\ RestoreBytes(c, memory) \in Seq(Seq(Instructions))
  /\ Len(RestoreBytes(c, memory)) = Len(Ascending(DOMAIN memory))
  /\ Len(Ascending(DOMAIN memory)) = Cardinality(DOMAIN memory)
  /\ Cardinality(DOMAIN memory) \in Nat
  /\ \A n \in 1 .. Len(Ascending(DOMAIN memory)) :
       /\ Ascending(DOMAIN memory)[n] \in DOMAIN memory
       /\ RestoreBytes(c, memory)[n] = RestoreByte(c, memory, Ascending(DOMAIN memory)[n])
  /\ \A k \in DOMAIN memory :
       \E n \in 1 .. Len(Ascending(DOMAIN memory)) : Ascending(DOMAIN memory)[n] = k
  /\ FlattenSeq(RestoreBytes(c, memory)) \in Seq(Instructions)
  /\ Len(FlattenSeq(RestoreBytes(c, memory))) = 3 * Cardinality(DOMAIN memory)

LEMMA RestoreBytesTyped ==
  ASSUME NEW c, Usable(c), NEW s \in Covered(c), NEW memory, memory = s.memory
  PROVE  Restoring(c, memory)
<1> DEFINE D  == DOMAIN memory
           ks == Ascending(D)
           bs == RestoreBytes(c, memory)
           f  == FlattenSeq(bs)
<1>1. IsFiniteSet(D) /\ D # {} /\ D \in SUBSET Nat
  BY CoveredKeys
<1>2. ks \in Seq(D) /\ Len(ks) = Cardinality(D) /\ \A k \in D : \E n \in 1 .. Len(ks) : ks[n] = k
  <2> HIDE DEF D
  <2> QED BY <1>1, KeysListed
<1>3. Len(ks) \in Nat /\ DOMAIN ks = 1 .. Len(ks) /\ \A n \in 1 .. Len(ks) : ks[n] \in D
  <2> HIDE DEF D, ks
  <2> QED BY <1>2, LenProperties, ElementOfSeq
<1>4. bs = [n \in 1 .. Len(ks) |-> RestoreByte(c, memory, ks[n])]
  <2>1. bs = [n \in DOMAIN ks |-> RestoreByte(c, memory, ks[n])]
    BY DEF RestoreBytes
  <2> HIDE DEF bs, ks
  <2> QED BY <1>3, <2>1
<1>5. ASSUME NEW k \in D
      PROVE  RestoreByte(c, memory, k) \in Seq(Instructions) /\ Len(RestoreByte(c, memory, k)) = 3
  <2>1. memory[k] \in Int
    BY StateFields DEF Covered, Tracked
  <2>2. range[c].start + k \in Int
    <3>1. k \in Nat
      BY <1>1
    <3> QED BY <3>1 DEF Usable
  <2>3. Temps[1] \in Registers /\ Temps[2] \in Registers
    BY TempsTyped
  <2>4. \A r \in Registers, v \in Int : Li(r, v) \in Instructions
    BY DEF Li, Instructions
  <2>5. Store(Temps[2], 1, Temps[1], 0) \in Instructions
    BY <2>3 DEF Store, Instructions
  <2>6. Li(Temps[1], range[c].start + k) \in Instructions /\ Li(Temps[2], memory[k]) \in Instructions
    BY <2>1, <2>2, <2>3, <2>4
  <2> QED BY <2>5, <2>6 DEF RestoreByte
<1> HIDE DEF D, ks, bs, f
<1>6. \A n \in 1 .. Len(ks) : /\ bs[n] = RestoreByte(c, memory, ks[n])
                              /\ bs[n] \in Seq(Instructions) /\ Len(bs[n]) = 3
  <2> SUFFICES ASSUME NEW n \in 1 .. Len(ks)
               PROVE  /\ bs[n] = RestoreByte(c, memory, ks[n])
                      /\ bs[n] \in Seq(Instructions) /\ Len(bs[n]) = 3
    OBVIOUS
  <2>1. bs[n] = RestoreByte(c, memory, ks[n])
    BY <1>4
  <2>2. ks[n] \in D
    BY <1>3
  <2> QED BY <1>5, <2>1, <2>2
<1>7. bs \in Seq(Seq(Instructions)) /\ Len(bs) = Len(ks)
  <2>1. bs \in [1 .. Len(ks) -> Seq(Instructions)]
    BY <1>4, <1>6
  <2> QED BY <1>3, <1>4, <2>1
<1>8. f \in Seq(Instructions) /\ Len(f) = 3 * Len(bs)
  BY <1>6, <1>7, FlattenTyped, FlattenLength DEF f
<1>9. /\ bs \in Seq(Seq(Instructions)) /\ Len(bs) = Len(ks) /\ Len(ks) = Cardinality(D)
      /\ Cardinality(D) \in Nat
      /\ \A n \in 1 .. Len(ks) : ks[n] \in D /\ bs[n] = RestoreByte(c, memory, ks[n])
      /\ \A k \in D : \E n \in 1 .. Len(ks) : ks[n] = k
      /\ f \in Seq(Instructions) /\ Len(f) = 3 * Cardinality(D)
  BY <1>2, <1>3, <1>6, <1>7, <1>8
<1> QED BY <1>9 DEF Restoring, D, ks, bs, f

(* A store of one byte.                                                    *)
LEMMA ByteStored ==
  ASSUME NEW c, Usable(c), NEW s \in Tracked(c), NEW a \in Nat, a \in Ram[c],
         NEW bytes \in Seq(Int), Len(bytes) = 1, NEW t, t = WriteMemory(c, s, a, bytes)
  PROVE  /\ t \in Tracked(c) /\ t.mem[a] = bytes[1]
         /\ \A y \in Ram[c] : y # a => t.mem[y] = s.mem[y]
<1> DEFINE n == 1
<1>1. n \in Nat \ {0} /\ Len(bytes) = n /\ s \in States(c)
  BY DEF Tracked
<1>2. Span(a, n) = {a} /\ a - a + 1 = 1
  BY DEF Span
<1> HIDE DEF n
<1>3. Span(a, n) \subseteq Ram[c]
  BY <1>2
<1>4. t \in Tracked(c)
  BY <1>1, <1>3, TrackedMemory
<1>5. /\ \A y \in Span(a, n) : t.mem[y] = bytes[y - a + 1]
      /\ \A y \in Ram[c] : y \notin Span(a, n) => t.mem[y] = s.mem[y]
  BY <1>1, <1>3, Stored
<1> QED BY <1>2, <1>4, <1>5

(* The states after the first n bytes: they hold what the context does,    *)
(* where there is memory for it.                                           *)
Refilled(c, memory, n) ==
  {x \in Tracked(c) :
     \A m \in 1 .. n :
       LET k == Ascending(DOMAIN memory)[m] IN
       range[c].start + k \in Ram[c] => x.mem[range[c].start + k] = memory[k]}

LEMMA ByteRun ==
  ASSUME NEW c, Usable(c), NEW s \in Covered(c), NEW memory, memory = s.memory,
         NEW n \in 1 .. Len(Ascending(DOMAIN memory)), NEW x \in Refilled(c, memory, n - 1)
  PROVE  RunBlock(c, x, RestoreByte(c, memory, Ascending(DOMAIN memory)[n])) \in Refilled(c, memory, n)
<1> DEFINE D     == DOMAIN memory
           ks    == Ascending(D)
           k     == ks[n]
           start == range[c].start
           v     == memory[k]
           a     == start + k
           x1    == Execute(c, x, Li(Temps[1], a))
           x2    == Execute(c, x1, Li(Temps[2], v))
           x3    == Execute(c, x2, Store(Temps[2], 1, Temps[1], 0))
           b     == Written(x2, Temps[2], 1)
<1>1. RunBlock(c, x, RestoreByte(c, memory, k)) = x3
  BY RunThree DEF RestoreByte
<1>2. Len(ks) \in Nat /\ n \in 1 .. Len(ks) /\ \A m \in 1 .. Len(ks) : ks[m] \in D
  <2>1. Restoring(c, memory)
    BY RestoreBytesTyped
  <2> QED BY <2>1 DEF Restoring
<1>3. \A d \in D : d \in Nat /\ memory[d] \in Int
  BY StateFields DEF Covered, Tracked
<1>4. k \in D /\ k \in Nat /\ v \in Int /\ start \in Nat /\ a \in Nat /\ a + 0 = a
  <2>1. k \in D
    <3> HIDE DEF ks, D
    <3> QED BY <1>2
  <2>2. k \in Nat /\ v \in Int
    <3> HIDE DEF k, D
    <3> QED BY <1>3, <2>1
  <2>3. start \in Nat
    BY DEF Usable
  <2> HIDE DEF k, v, start, D
  <2> QED BY <2>1, <2>2, <2>3
<1>5. /\ x \in Tracked(c)
      /\ \A m \in 1 .. n - 1 : start + ks[m] \in Ram[c] => x.mem[start + ks[m]] = memory[ks[m]]
  BY DEF Refilled
<1>6. Temps[1] \in Registers /\ Temps[2] \in Registers /\ Temps[1] # Temps[2]
  BY TempsTyped
<1> HIDE DEF a, v
<1>7. x1 \in Tracked(c) /\ x1.regs[Temps[1]] = a /\ x1.mem = x.mem
  <2>1. Loaded(c, x1, x, Temps[1], a)
    <3>1. a \in Int
      BY <1>4
    <3> QED BY <1>5, <1>6, <3>1, LoadTracked
  <2> HIDE DEF x1
  <2> QED BY <2>1 DEF Loaded
<1> HIDE DEF x1
<1>8. x2 \in Tracked(c) /\ x2.regs[Temps[1]] = a /\ x2.regs[Temps[2]] = v /\ x2.mem = x.mem
  <2>1. Loaded(c, x2, x1, Temps[2], v)
    BY <1>4, <1>6, <1>7, LoadTracked
  <2> HIDE DEF x2
  <2> QED BY <1>6, <1>7, <2>1 DEF Loaded
<1> HIDE DEF x2
<1>9. x3 = IF Span(a, 1) \subseteq Ram[c] THEN WriteMemory(c, x2, a, b) ELSE TrapHandled(x2)
  <2>1. x3 = IF Span(x2.regs[Temps[1]] + 0, 1) \subseteq Ram[c]
             THEN WriteMemory(c, x2, x2.regs[Temps[1]] + 0, b) ELSE TrapHandled(x2)
    BY ExecuteStore
  <2> HIDE DEF x3, b
  <2> QED BY <1>4, <1>8, <2>1
<1>10. b \in Seq(Int) /\ Len(b) = 1 /\ b[1] = v
  <2>1. x2 \in States(c) /\ 1 \in {1, 2, 4, 8}
    BY <1>8 DEF Tracked
  <2> QED BY <1>6, <1>8, <2>1, WrittenTyped
<1>11. Span(a, 1) = {a} /\ (a - a) + 1 = 1 /\ 1 \in Nat \ {0}
  BY <1>4 DEF Span
<1> HIDE DEF b, x3
<1>12. /\ x3 \in Tracked(c)
       /\ a \in Ram[c] => x3.mem[a] = v
       /\ \A y \in Ram[c] : y # a => x3.mem[y] = x.mem[y]
  <2>1. CASE a \in Ram[c]
    <3>1. x3 = WriteMemory(c, x2, a, b) /\ Span(a, 1) \subseteq Ram[c]
      BY <1>9, <1>11, <2>1
    <3>2. /\ x3 \in Tracked(c) /\ x3.mem[a] = b[1]
          /\ \A y \in Ram[c] : y # a => x3.mem[y] = x2.mem[y]
      BY <1>4, <1>8, <1>10, <2>1, <3>1, ByteStored
    <3> QED BY <1>8, <1>10, <3>2
  <2>2. CASE a \notin Ram[c]
    <3>1. x3 = TrapHandled(x2)
      BY <1>9, <1>11, <2>2
    <3>2. x3 \in Tracked(c) /\ x3.mem = x2.mem
      BY <1>8, <3>1, TrackedTrap
    <3> QED BY <1>8, <2>2, <3>2
  <2> QED BY <2>1, <2>2
<1>13. ASSUME NEW m \in 1 .. n, start + ks[m] \in Ram[c]
       PROVE  x3.mem[start + ks[m]] = memory[ks[m]]
  <2> DEFINE l == ks[m]
             y == start + l
  <2>1. m \in 1 .. Len(ks)
    BY <1>2
  <2>2. l \in Nat
    <3>1. l \in D
      <4> HIDE DEF ks, D
      <4> QED BY <1>2, <2>1
    <3> HIDE DEF l, D
    <3> QED BY <1>3, <3>1
  <2>3. CASE l = k
    BY <1>12, <1>13, <2>3 DEF a, v
  <2>4. CASE l # k
    <3>1. y # a
      <4> HIDE DEF k, l, start
      <4> QED BY <1>4, <2>2, <2>4 DEF a
    <3>2. m # n
      BY <2>4
    <3>3. m \in 1 .. n - 1
      BY <1>2, <3>2
    <3>4. x.mem[y] = memory[l]
      <4> HIDE DEF ks, start
      <4> QED BY <1>5, <1>13, <3>3
    <3>5. x3.mem[y] = x.mem[y]
      <4> HIDE DEF ks, start
      <4> QED BY <1>12, <1>13, <3>1
    <3> QED BY <3>4, <3>5
  <2> QED BY <2>3, <2>4
<1>14. x3 \in Refilled(c, memory, n)
  <2>1. \A m \in 1 .. n : start + ks[m] \in Ram[c] => x3.mem[start + ks[m]] = memory[ks[m]]
    <3> HIDE DEF ks, start
    <3> QED BY <1>13
  <2> QED BY <1>12, <2>1 DEF Refilled
<1> QED BY <1>1, <1>14

(* generate_memory_context_restore_instructions: every byte of the context *)
(* is in memory again.                                                     *)
LEMMA MemoryRun ==
  ASSUME NEW c, Usable(c), NEW s \in Covered(c), NEW memory, memory = s.memory,
         NEW x \in Tracked(c)
  PROVE  LET y == RunBlock(c, x, MemoryRestore(c, memory)) IN
         /\ y \in Tracked(c)
         /\ \A k \in DOMAIN memory :
              range[c].start + k \in Ram[c] => y.mem[range[c].start + k] = memory[k]
<1> DEFINE D      == DOMAIN memory
           ks     == Ascending(D)
           bs     == RestoreBytes(c, memory)
           Q      == [n \in Nat |-> Refilled(c, memory, n)]
           y      == RunBlock(c, x, FlattenSeq(bs))
<1>1. /\ bs \in Seq(Seq(Instructions)) /\ Len(bs) = Len(ks) /\ Len(ks) \in Nat
      /\ \A n \in 1 .. Len(ks) : bs[n] = RestoreByte(c, memory, ks[n])
      /\ \A k \in D : \E n \in 1 .. Len(ks) : ks[n] = k
  <2>1. /\ bs \in Seq(Seq(Instructions)) /\ Len(bs) = Len(ks)
        /\ Len(ks) = Cardinality(D) /\ Cardinality(D) \in Nat
        /\ \A n \in 1 .. Len(ks) : bs[n] = RestoreByte(c, memory, ks[n])
        /\ \A k \in D : \E n \in 1 .. Len(ks) : ks[n] = k
    <3>1. Restoring(c, memory)
      BY RestoreBytesTyped
    <3> QED BY <3>1 DEF Restoring
  <2> QED BY <2>1
<1>2. x \in Q[0]
  <2>1. 1 .. 0 = {}
    OBVIOUS
  <2> QED BY <2>1 DEF Refilled
<1>3. ASSUME NEW n \in 1 .. Len(bs), NEW u \in Q[n - 1] PROVE RunBlock(c, u, bs[n]) \in Q[n]
  <2>1. n - 1 \in Nat /\ n \in Nat /\ n \in 1 .. Len(ks)
    <3> HIDE DEF ks, bs
    <3> QED BY <1>1
  <2>2. u \in Refilled(c, memory, n - 1)
    BY <2>1
  <2>3. RunBlock(c, u, RestoreByte(c, memory, ks[n])) \in Refilled(c, memory, n)
    BY <2>1, <2>2, ByteRun
  <2>4. bs[n] = RestoreByte(c, memory, ks[n])
    <3> HIDE DEF ks, bs
    <3> QED BY <1>1, <2>1
  <2> HIDE DEF bs
  <2> QED BY <2>1, <2>3, <2>4
<1>4. y \in Q[Len(bs)]
  <2> HIDE DEF Q, bs
  <2> QED BY <1>1, <1>2, <1>3, RunFlatten
<1>5. y \in Refilled(c, memory, Len(ks))
  <2> HIDE DEF y, bs, ks
  <2> QED BY <1>1, <1>4
<1> HIDE DEF y, bs
<1>6. ASSUME NEW k \in D, range[c].start + k \in Ram[c]
      PROVE  y.mem[range[c].start + k] = memory[k]
  <2>1. PICK n \in 1 .. Len(ks) : ks[n] = k
    <3> HIDE DEF ks, D
    <3> QED BY <1>1
  <2>2. range[c].start + ks[n] \in Ram[c] => y.mem[range[c].start + ks[n]] = memory[ks[n]]
    BY <1>5 DEF Refilled
  <2> QED BY <1>6, <2>1, <2>2
<1>7. y \in Tracked(c)
  BY <1>5 DEF Refilled
<1> QED BY <1>6, <1>7, MemoryRestored DEF y, bs

(* The parts of the register restoration when all registers are known.     *)
FloatParts(registers) ==
  <<Li(Temps[1], IF WordSize(request) = 4 THEN Low(registers["float"]) ELSE registers["float"]),
    Fmv(Temps[1], WordSize(request))>>

RegisterParts(registers) ==
  /\ RegisterRestore(registers) =
       (((FloatParts(registers) \o <<Li(Temps[1], registers[Temps[1]])>>)
           \o <<Li(Temps[2], registers[Temps[2]])>>)
          \o <<Li(Temps[3], registers[Temps[3]])>>)
         \o <<Li("test", registers["test"])>>
  /\ FloatParts(registers) \in Seq(Instructions) /\ Len(FloatParts(registers)) = 2
  /\ \A r \in Registers : /\ <<Li(r, registers[r])>> \in Seq(Instructions)
                          /\ Len(<<Li(r, registers[r])>>) = 1
                          /\ registers[r] \in Int

LEMMA RegistersTyped ==
  ASSUME NEW c, Usable(c), NEW s \in Covered(c), NEW registers, registers = s.registers
  PROVE  RegisterParts(registers)
<1> DEFINE w == WordSize(request)
           v == IF w = 4 THEN Low(registers["float"]) ELSE registers["float"]
<1>1. DOMAIN registers = Registers /\ \A r \in Registers : registers[r] \in Int
  BY StateFields DEF Covered, Tracked
<1>2. /\ "test" \in Registers /\ "float" \in Registers
      /\ Temps[1] \in Registers /\ Temps[2] \in Registers /\ Temps[3] \in Registers
  BY TempsTyped
<1>3. FloatRestore(registers) = FloatParts(registers)
  BY <1>1, <1>2 DEF FloatRestore, FloatParts
<1>4. \A r \in Registers : IntegerRestore(registers, r) = <<Li(r, registers[r])>>
  BY <1>1 DEF IntegerRestore
<1>5. RegisterRestore(registers) =
        (((FloatParts(registers) \o <<Li(Temps[1], registers[Temps[1]])>>)
            \o <<Li(Temps[2], registers[Temps[2]])>>)
           \o <<Li(Temps[3], registers[Temps[3]])>>)
          \o <<Li("test", registers["test"])>>
  BY <1>2, <1>3, <1>4, Zenon DEF RegisterRestore
<1>6. ASSUME NEW r \in Registers
      PROVE  /\ <<Li(r, registers[r])>> \in Seq(Instructions)
             /\ Len(<<Li(r, registers[r])>>) = 1
  <2>1. Li(r, registers[r]) \in Instructions
    BY <1>1 DEF Li, Instructions
  <2> QED BY <2>1
<1>7. FloatParts(registers) \in Seq(Instructions) /\ Len(FloatParts(registers)) = 2
  <2>1. v \in Int
    <3>1. registers["float"] \in Int
      BY <1>1, <1>2
    <3> QED BY <3>1 DEF Low, Half
  <2>2. Fmv(Temps[1], w) \in Instructions
    BY <1>2, WordTyped DEF Fmv, Instructions
  <2>3. Li(Temps[1], v) \in Instructions
    <3> HIDE DEF v
    <3> QED BY <1>2, <2>1 DEF Li, Instructions
  <2> HIDE DEF v, w
  <2>4. <<Li(Temps[1], v), Fmv(Temps[1], w)>> \in Seq(Instructions)
        /\ Len(<<Li(Temps[1], v), Fmv(Temps[1], w)>>) = 2
    BY <2>2, <2>3
  <2> QED BY <2>4 DEF FloatParts, v, w
<1> QED BY <1>1, <1>5, <1>6, <1>7 DEF RegisterParts

(* generate_register_context_restore_instructions: every register holds    *)
(* its value of the context, a double on RV32 its lower half.              *)
Reloaded(c, y, x, registers) ==
  /\ y \in Tracked(c) /\ y.mem = x.mem
  /\ \A r \in Registers : r # "float" => y.regs[r] = registers[r]
  /\ IF WordSize(request) = 4 THEN Low(y.regs["float"]) = Low(registers["float"])
     ELSE y.regs["float"] = registers["float"]

LEMMA FloatRun ==
  ASSUME NEW c, Usable(c), NEW registers, registers["float"] \in Int, NEW x \in Tracked(c)
  PROVE  LET y == RunBlock(c, x, FloatParts(registers)) IN
         /\ y \in Tracked(c) /\ y.mem = x.mem
         /\ IF WordSize(request) = 4 THEN Low(y.regs["float"]) = Low(registers["float"])
            ELSE y.regs["float"] = registers["float"]
<1> DEFINE w  == WordSize(request)
           g  == registers["float"]
           v  == IF w = 4 THEN Low(g) ELSE g
           x1 == Execute(c, x, Li(Temps[1], v))
           y  == Execute(c, x1, Fmv(Temps[1], w))
           u  == IF w = 4 THEN Box * Half + Low(x1.regs[Temps[1]]) ELSE x1.regs[Temps[1]]
<1>1. RunBlock(c, x, FloatParts(registers)) = y
  BY RunTwo DEF FloatParts
<1>2. g \in Int /\ v \in Int
  <2>1. g \in Int
    OBVIOUS
  <2> HIDE DEF g
  <2> QED BY <2>1 DEF Low, Half
<1>3. Temps[1] \in Registers /\ "float" \in Registers /\ Temps[1] # "float"
  BY TempsTyped
<1>4. x1 \in Tracked(c) /\ x1.regs[Temps[1]] = v /\ x1.mem = x.mem
  <2> HIDE DEF v
  <2>1. Loaded(c, x1, x, Temps[1], v)
    BY <1>2, <1>3, LoadTracked
  <2> HIDE DEF x1
  <2> QED BY <2>1 DEF Loaded
<1>5. y = WriteRegister(x1, "float", u)
  BY ExecuteFmv
<1>6. u \in Int /\ IF w = 4 THEN Low(u) = Low(g) ELSE u = g
  <2>1. CASE w = 4
    <3>1. u = Box * Half + Low(Low(g))
      <4> HIDE DEF x1, g
      <4> QED BY <1>4, <2>1
    <3>2. Box * Half + Low(Low(g)) \in Int /\ Low(Box * Half + Low(Low(g))) = Low(g)
      <4> HIDE DEF g
      <4> QED BY <1>2 DEF Box, Half, Low
    <3> HIDE DEF u, g
    <3> QED BY <2>1, <3>1, <3>2
  <2>2. CASE w # 4
    <3> HIDE DEF x1, g, w
    <3> QED BY <1>2, <1>4, <2>2
  <2> QED BY <2>1, <2>2
<1> HIDE DEF x1, u, v, g, w
<1>7. Loaded(c, y, x1, "float", u)
  BY <1>3, <1>4, <1>5, <1>6, WriteLoaded
<1> HIDE DEF y
<1>8. y \in Tracked(c) /\ y.mem = x.mem /\ y.regs["float"] = u
  BY <1>4, <1>7 DEF Loaded
<1>9. IF w = 4 THEN Low(y.regs["float"]) = Low(g) ELSE y.regs["float"] = g
  BY <1>6, <1>8
<1> QED BY <1>1, <1>8, <1>9 DEF w, g

LEMMA RegisterRun ==
  ASSUME NEW c, Usable(c), NEW s \in Covered(c), NEW registers, registers = s.registers,
         NEW x \in Tracked(c)
  PROVE  Reloaded(c, RunBlock(c, x, RegisterRestore(registers)), x, registers)
<1> DEFINE L(r) == <<Li(r, registers[r])>>
           b0 == FloatParts(registers)
           b1 == b0 \o L(Temps[1])
           b2 == b1 \o L(Temps[2])
           b3 == b2 \o L(Temps[3])
           b4 == b3 \o L("test")
           y0 == RunBlock(c, x, b0)
           y1 == Execute(c, y0, Li(Temps[1], registers[Temps[1]]))
           y2 == Execute(c, y1, Li(Temps[2], registers[Temps[2]]))
           y3 == Execute(c, y2, Li(Temps[3], registers[Temps[3]]))
           y4 == Execute(c, y3, Li("test", registers["test"]))
<1>1. RegisterParts(registers)
  BY RegistersTyped
<1>2. /\ RegisterRestore(registers) = b4
      /\ b0 \in Seq(Instructions)
      /\ \A r \in Registers : L(r) \in Seq(Instructions) /\ registers[r] \in Int
  BY <1>1 DEF RegisterParts
<1>3. Registers = {Temps[1], Temps[2], Temps[3], "test", "float"}
      /\ Temps[1] # Temps[2] /\ Temps[1] # Temps[3] /\ Temps[2] # Temps[3]
      /\ Temps[1] # "test" /\ Temps[2] # "test" /\ Temps[3] # "test"
      /\ Temps[1] # "float" /\ Temps[2] # "float" /\ Temps[3] # "float"
  BY TempsTyped
<1>4. Temps[1] \in Registers /\ Temps[2] \in Registers /\ Temps[3] \in Registers
      /\ "test" \in Registers /\ "float" \in Registers
  BY <1>3
<1>5. ASSUME NEW b \in Seq(Instructions), NEW r \in Registers
      PROVE  /\ b \o L(r) \in Seq(Instructions)
             /\ RunBlock(c, x, b \o L(r)) = Execute(c, RunBlock(c, x, b), Li(r, registers[r]))
  <2>1. RunBlock(c, RunBlock(c, x, b), L(r)) = Execute(c, RunBlock(c, x, b), Li(r, registers[r]))
    BY RunOne
  <2>2. L(r) \in Seq(Instructions)
    BY <1>2
  <2> HIDE DEF L
  <2>3. b \o L(r) \in Seq(Instructions)
    BY <2>2, ConcatProperties
  <2>4. RunBlock(c, x, b \o L(r)) = RunBlock(c, RunBlock(c, x, b), L(r))
    BY <2>2, RunConcat
  <2> QED BY <2>1, <2>3, <2>4
<1> HIDE DEF L, b0
<1>6. b1 \in Seq(Instructions) /\ RunBlock(c, x, b1) = y1
  BY <1>2, <1>4, <1>5
<1> HIDE DEF b1
<1>7. b2 \in Seq(Instructions) /\ RunBlock(c, x, b2) = y2
  BY <1>4, <1>5, <1>6
<1> HIDE DEF b2
<1>8. b3 \in Seq(Instructions) /\ RunBlock(c, x, b3) = y3
  BY <1>4, <1>5, <1>7
<1> HIDE DEF b3
<1>9. RunBlock(c, x, b4) = y4
  BY <1>4, <1>5, <1>8
<1> HIDE DEF b4
<1>10. /\ y0 \in Tracked(c) /\ y0.mem = x.mem
       /\ IF WordSize(request) = 4 THEN Low(y0.regs["float"]) = Low(registers["float"])
          ELSE y0.regs["float"] = registers["float"]
  BY <1>2, <1>4, FloatRun DEF b0
<1> HIDE DEF y0
<1>11. y1 \in Tracked(c) /\ Loaded(c, y1, y0, Temps[1], registers[Temps[1]])
  <2>1. Loaded(c, y1, y0, Temps[1], registers[Temps[1]])
    BY <1>2, <1>4, <1>10, LoadTracked
  <2> QED BY <2>1 DEF Loaded
<1> HIDE DEF y1
<1>12. y2 \in Tracked(c) /\ Loaded(c, y2, y1, Temps[2], registers[Temps[2]])
  <2>1. Loaded(c, y2, y1, Temps[2], registers[Temps[2]])
    BY <1>2, <1>4, <1>11, LoadTracked
  <2> QED BY <2>1 DEF Loaded
<1> HIDE DEF y2
<1>13. y3 \in Tracked(c) /\ Loaded(c, y3, y2, Temps[3], registers[Temps[3]])
  <2>1. Loaded(c, y3, y2, Temps[3], registers[Temps[3]])
    BY <1>2, <1>4, <1>12, LoadTracked
  <2> QED BY <2>1 DEF Loaded
<1> HIDE DEF y3
<1>14. Loaded(c, y4, y3, "test", registers["test"])
  BY <1>2, <1>4, <1>13, LoadTracked
<1> HIDE DEF y4
<1>15. y4 \in Tracked(c) /\ y4.mem = x.mem /\ y4.regs["float"] = y0.regs["float"]
  BY <1>3, <1>4, <1>10, <1>11, <1>12, <1>13, <1>14 DEF Loaded
<1>16. /\ y4.regs[Temps[1]] = registers[Temps[1]] /\ y4.regs[Temps[2]] = registers[Temps[2]]
       /\ y4.regs[Temps[3]] = registers[Temps[3]] /\ y4.regs["test"] = registers["test"]
  BY <1>3, <1>4, <1>11, <1>12, <1>13, <1>14 DEF Loaded
<1>17. \A r \in Registers : r # "float" => y4.regs[r] = registers[r]
  BY <1>3, <1>16
<1>18. Reloaded(c, y4, x, registers)
  BY <1>10, <1>15, <1>17 DEF Reloaded
<1> QED BY <1>2, <1>9, <1>18

-----------------------------------------------------------------------------
(* The states that can be reached.                                         *)
LEMMA Unprimed ==
  ASSUME UNCHANGED <<request, range>>, NEW c, NEW s
  PROVE  /\ s \in Covered(c)' <=> s \in Covered(c)
         /\ s \in Tracked(c)' <=> s \in Tracked(c)
<1>1. s \in Tracked(c)' <=> s \in Tracked(c)
  BY DEF Tracked, States, Scratch, Inside
<1>2. s \in Covered(c)' <=> s \in Covered(c)
  BY <1>1 DEF Covered
<1> QED BY <1>1, <1>2

LEMMA UnprimedRestore ==
  ASSUME UNCHANGED <<request, range, machine>>, NEW c
  PROVE  Restore(c, machine[c])' = Restore(c, machine[c])
BY DEF Restore, MemoryRestore, RegisterRestore, FloatRestore, IntegerRestore, WordSize

LEMMA RegisterRestoreTyped ==
  ASSUME NEW c, Usable(c), NEW s \in Covered(c), NEW registers, registers = s.registers
  PROVE  RegisterRestore(registers) \in Seq(Instructions) /\ Len(RegisterRestore(registers)) = 6
<1> DEFINE L(q) == <<Li(q, registers[q])>>
           b0 == FloatParts(registers)
           b1 == b0 \o L(Temps[1])
           b2 == b1 \o L(Temps[2])
           b3 == b2 \o L(Temps[3])
           b4 == b3 \o L("test")
<1>1. RegisterParts(registers)
  BY RegistersTyped
<1>2. /\ RegisterRestore(registers) = b4 /\ b0 \in Seq(Instructions) /\ Len(b0) = 2
      /\ \A q \in Registers : L(q) \in Seq(Instructions) /\ Len(L(q)) = 1
  BY <1>1 DEF RegisterParts
<1>3. Temps[1] \in Registers /\ Temps[2] \in Registers /\ Temps[3] \in Registers /\ "test" \in Registers
  BY TempsTyped
<1> HIDE DEF L, b0
<1> DEFINE Sized(b, n) == b \in Seq(Instructions) /\ Len(b) = n
<1>4. ASSUME NEW b, NEW n \in Nat, Sized(b, n), NEW q \in Registers
      PROVE  Sized(b \o L(q), n + 1)
  <2>1. L(q) \in Seq(Instructions) /\ Len(L(q)) = 1
    BY <1>2
  <2>2. b \in Seq(Instructions) /\ Len(b) = n
    BY <1>4
  <2>3. b \o L(q) \in Seq(Instructions) /\ Len(b \o L(q)) = n + 1
    BY <2>1, <2>2, ConcatProperties
  <2> QED BY <2>3
<1>5. Sized(b0, 2)
  BY <1>2
<1> HIDE DEF Sized
<1>6. Sized(b1, 3)
  BY <1>3, <1>4, <1>5
<1> HIDE DEF b1
<1>7. Sized(b2, 4)
  BY <1>3, <1>4, <1>6
<1> HIDE DEF b2
<1>8. Sized(b3, 5)
  BY <1>3, <1>4, <1>7
<1> HIDE DEF b3
<1>9. Sized(b4, 6)
  BY <1>3, <1>4, <1>8
<1> HIDE DEF b4
<1> QED BY <1>2, <1>9 DEF Sized

(* build_replay_testcase: the length of the block depends on the bytes     *)
(* outside of the range only.                                              *)
LEMMA RestoreTyped ==
  ASSUME NEW c, Usable(c), NEW s \in Covered(c)
  PROVE  LET strays == {a \in s.outside : a >= request.size} IN
         /\ Restore(c, s) \in Seq(Instructions)
         /\ Cardinality(strays) \in Nat
         /\ Len(Restore(c, s)) = 3 * (request.size + Cardinality(strays)) + 6
<1> DEFINE strays    == {a \in s.outside : a >= request.size}
           memory    == s.memory
           registers == s.registers
           m         == MemoryRestore(c, memory)
           r         == RegisterRestore(registers)
<1>1. Cardinality(DOMAIN memory) = request.size + Cardinality(strays) /\ Cardinality(strays) \in Nat
      /\ request.size \in Nat
  BY CoveredKeys DEF Usable
<1>2. m \in Seq(Instructions) /\ Len(m) = 3 * Cardinality(DOMAIN memory)
  <2>1. Restoring(c, memory)
    BY RestoreBytesTyped
  <2> HIDE DEF memory
  <2> QED BY <2>1, MemoryRestored DEF Restoring
<1>4. r \in Seq(Instructions) /\ Len(r) = 6
  BY RegisterRestoreTyped
<1>5. Restore(c, s) = m \o r
  BY DEF Restore
<1> HIDE DEF m, r, strays
<1>6. m \o r \in Seq(Instructions) /\ Len(m \o r) = 3 * (request.size + Cardinality(strays)) + 6
  <2>1. Len(m \o r) = Len(m) + Len(r) /\ m \o r \in Seq(Instructions)
    BY <1>2, <1>4, ConcatProperties
  <2> QED BY <1>1, <1>2, <1>4, <2>1
<1> QED BY <1>1, <1>5, <1>6 DEF strays

(* Two states of a core between which an instruction finds no difference,  *)
(* see Reproduced.                                                         *)
Alike(c, y, s) ==
  /\ \A r \in Registers :
       \/ IF r = "float" /\ request.isa = "Rv32" THEN Low(y.regs[r]) = Low(s.regs[r])
          ELSE y.regs[r] = s.regs[r]
       \/ s.trapped /\ r \in Scratch(request)
  /\ \A a \in Inside(c) : y.mem[a] = s.mem[a] \/ a - range[c].start \in s.outside

(* The replay testcase leads to a state like the one restored.             *)
LEMMA RestoreRun ==
  ASSUME NEW c, Usable(c), NEW s \in Covered(c)
  PROVE  LET y == RunBlock(c, Fresh(c), InitBlock(c) \o Restore(c, s)) IN
         y \in Tracked(c) /\ Alike(c, y, s)
<1> DEFINE memory    == s.memory
           registers == s.registers
           m  == MemoryRestore(c, memory)
           r  == RegisterRestore(registers)
           i  == InitBlock(c)
           x  == RunBlock(c, Fresh(c), i)
           x1 == RunBlock(c, x, m)
           y  == RunBlock(c, x1, r)
<1>1. i \in Seq(Instructions) /\ Restore(c, s) = m \o r
  BY InitTyped DEF Restore
<1>2. m \in Seq(Instructions) /\ r \in Seq(Instructions)
  <2>1. m \in Seq(Instructions)
    <3>1. Restoring(c, memory)
      BY RestoreBytesTyped
    <3> HIDE DEF memory
    <3> QED BY <3>1, MemoryRestored DEF Restoring
  <2>2. r \in Seq(Instructions)
    BY RegisterRestoreTyped
  <2> QED BY <2>1, <2>2
<1>3. RunBlock(c, Fresh(c), i \o Restore(c, s)) = y
  <2> DEFINE b == Restore(c, s)
  <2>1. b = m \o r
    BY <1>1
  <2> HIDE DEF b, i, m, r
  <2>2. b \in Seq(Instructions)
    BY <1>2, <2>1, ConcatProperties
  <2>3. RunBlock(c, Fresh(c), i \o b) = RunBlock(c, x, b)
    BY <1>1, <2>2, RunConcat
  <2>4. RunBlock(c, x, m \o r) = y
    BY <1>2, RunConcat
  <2> QED BY <2>1, <2>3, <2>4 DEF b
<1>4. x \in Tracked(c)
  BY InitCovers DEF Covered
<1> HIDE DEF x
<1>5. /\ x1 \in Tracked(c)
      /\ \A k \in DOMAIN memory :
           range[c].start + k \in Ram[c] => x1.mem[range[c].start + k] = memory[k]
  BY <1>4, MemoryRun
<1> HIDE DEF x1
<1>6. Reloaded(c, y, x1, registers)
  BY <1>5, RegisterRun
<1> HIDE DEF y
<1>7. s \in Tracked(c) /\ DOMAIN registers = Registers
      /\ \A k \in Nat : k < request.size => k \in DOMAIN memory
  BY DEF Covered
<1>8. ASSUME NEW q \in Registers, ~(s.trapped /\ q \in Scratch(request))
      PROVE  IF q = "float" /\ request.isa = "Rv32" THEN Low(y.regs[q]) = Low(s.regs[q])
             ELSE y.regs[q] = s.regs[q]
  <2>1. registers[q] = s.regs[q]
    BY <1>7, <1>8 DEF Tracked
  <2> HIDE DEF registers
  <2>2. CASE q # "float"
    BY <1>6, <2>1, <2>2 DEF Reloaded
  <2>3. CASE q = "float"
    <3>1. WordSize(request) = 4 <=> request.isa = "Rv32"
      BY DEF WordSize
    <3> QED BY <1>6, <2>1, <2>3, <3>1 DEF Reloaded
  <2> QED BY <2>2, <2>3
<1>9. ASSUME NEW a \in Inside(c), a - range[c].start \notin s.outside
      PROVE  y.mem[a] = s.mem[a]
  <2> DEFINE start == range[c].start
             k     == a - start
             z     == request.size
  <2>1. start \in Nat /\ z \in Nat /\ Inside(c) = start .. start + z - 1 /\ Inside(c) \subseteq Ram[c]
    BY DEF Usable, Inside
  <2> HIDE DEF start, z
  <2>2. k \in Nat /\ k < z /\ start + k = a /\ a \in Ram[c]
    BY <2>1
  <2> HIDE DEF k
  <2>3. k \in DOMAIN memory
    BY <1>7, <2>2 DEF z
  <2>4. x1.mem[a] = memory[k]
    BY <1>5, <2>2, <2>3 DEF start
  <2>5. k \notin s.outside
    BY <1>9 DEF k, start
  <2>6. memory[k] = s.mem[a]
    BY <1>7, <2>2, <2>3, <2>5 DEF Tracked, start
  <2>7. y.mem = x1.mem
    BY <1>6 DEF Reloaded
  <2> QED BY <2>4, <2>6, <2>7
<1>10. y \in Tracked(c) /\ Alike(c, y, s)
  <2> HIDE DEF registers, memory
  <2> QED BY <1>6, <1>8, <1>9 DEF Reloaded, Alike
<1> QED BY <1>3, <1>10

-----------------------------------------------------------------------------
(* The inductive invariant.                                                *)

Running     == phase \in {"running", "built", "mismatch", "replayed"}
Constructed == phase \in {"built", "mismatch", "replayed"}
SameLengths == \A c, d \in Cores : Len(blocks[c]) = Len(blocks[d])

(* A core's state in the replay and in the testcase.                       *)
Pairs(c) == {p \in Tracked(c) \X Tracked(c) : Alike(c, p[1], p[2])}

(* Every core's context is complete and in step with its processor; the    *)
(* blocks restore it, and what they have led to is like it.                *)
Inv ==
  /\ Allotted
  /\ steps \in 0 .. MaxSteps
  /\ phase \in {"requested", "rejected", "generated", "running", "built", "mismatch", "replayed"}
  /\ ~Generated => range = <<>> \/ (RangeFits(request) /\ range = MemoryRange(request))
  /\ Running => \A c \in Cores : machine[c] \in Covered(c)
  /\ Constructed => blocks = [c \in Cores |-> Restore(c, machine[c])]
  /\ phase = "mismatch" => ~SameLengths
  /\ phase \in {"built", "replayed"} => SameLengths
  /\ phase = "replayed" => \A c \in Cores : <<again[c], machine[c]>> \in Pairs(c)

LEMMA UsableHolds ==
  ASSUME Allotted, Generated, NEW c \in Cores
  PROVE  Usable(c)
<1> DEFINE z == request.size
           r == MemoryRange(request)[c]
<1>1. request \in Request /\ RangeFits(request) /\ range[c] = r
  BY RequestsAssumption DEF Allotted
<1>2. /\ r \in [start : Nat, end : Nat]
      /\ UserMem[c].start <= r.start /\ r.end <= UserMem[c].end
      /\ r.end - r.start + 1 = z
  BY <1>1, Allocated
<1>3. z \in Nat \ {0} /\ z % WordSize(request) = 0
  BY <1>1 DEF RangeFits, Request, MaxAccessWidth
<1>4. /\ Ram[c] \subseteq Nat /\ IsFiniteSet(Ram[c])
      /\ UserMem[c].start .. UserMem[c].end \subseteq Ram[c]
      /\ UserMem[c].start \in Nat /\ UserMem[c].end \in Nat
  BY RamAssumption, UserMemAssumption
<1> HIDE DEF z, r
<1>5. r.start \in Nat /\ r.end \in Nat /\ r.end = r.start + z - 1
  <2>1. r.start \in Nat /\ r.end \in Nat
    BY <1>2
  <2> QED BY <1>2, <1>3, <2>1
<1>6. Inside(c) \subseteq Ram[c]
  <2>1. \A a \in r.start .. r.end : a \in UserMem[c].start .. UserMem[c].end
    BY <1>2, <1>4, <1>5
  <2> QED BY <1>1, <1>4, <2>1 DEF Inside
<1> QED BY <1>1, <1>3, <1>4, <1>5, <1>6 DEF Usable, z

LEMMA UnprimedPairs ==
  ASSUME UNCHANGED <<request, range>>, NEW c, NEW p
  PROVE  p \in Pairs(c)' <=> p \in Pairs(c)
<1>1. \A s : s \in Tracked(c)' <=> s \in Tracked(c)
  BY Unprimed
<1>2. Alike(c, p[1], p[2])' <=> Alike(c, p[1], p[2])
  BY DEF Alike, Scratch, Inside
<1> QED BY <1>1, <1>2 DEF Pairs

LEMMA InvInit == Init => Inv
<1> SUFFICES ASSUME Init PROVE Inv
  OBVIOUS
<1>1. Allotted
  BY AllottedInit
<1>2. steps \in 0 .. MaxSteps
  BY MaxStepsAssumption DEF Init
<1> QED BY <1>1, <1>2 DEF Init, Inv, Running, Constructed, Generated

(* An instruction of the testcase.                                         *)
LEMMA StepKeeps ==
  ASSUME Inv, Allotted', NEW instruction, Step(instruction),
         \A c \in Cores : instruction[c] \in Programs
  PROVE  Inv'
<1>1. /\ phase = "running" /\ steps < MaxSteps /\ steps' = steps + 1
      /\ UNCHANGED <<request, phase, range, blocks, again>>
  BY DEF Step
<1>2. PICK failing \in {{}} \cup {{c} : c \in Cores} :
        machine' = [c \in Cores |-> IF c \in failing THEN machine[c]
                                    ELSE Execute(c, machine[c], instruction[c])]
  BY DEF Step
<1>3. ASSUME NEW c \in Cores PROVE machine'[c] \in Covered(c)'
  <2>1. machine[c] \in Covered(c) /\ Usable(c)
    BY <1>1, UsableHolds DEF Inv, Running, Generated
  <2>2. Execute(c, machine[c], instruction[c]) \in Covered(c)
    BY <2>1, ExecutedCovered
  <2>3. machine'[c] \in Covered(c)
    BY <1>2, <2>1, <2>2
  <2> QED BY <1>1, <2>3, Unprimed
<1>4. steps' \in 0 .. MaxSteps
  BY <1>1, MaxStepsAssumption DEF Inv
<1> QED BY <1>1, <1>3, <1>4 DEF Inv, Running, Constructed, Generated

LEMMA ProgramsTyped ==
  /\ \A r \in Registers, v \in Int : Li(r, v) \in Programs
  /\ \A v \in Int : Float(v) \in Programs
  /\ \A r, b \in Registers, w \in {1, 2, 4, 8}, i \in Int : Store(r, w, b, i) \in Programs
BY DEF Li, Float, Store, Programs, Instructions

LEMMA InvNext == Inv /\ [Next]_vars => Inv'
<1> SUFFICES ASSUME Inv, [Next]_vars PROVE Inv'
  OBVIOUS
<1>0. Allotted' /\ Allotted
  BY AllottedNext DEF Inv
<1>1. "test" \in Registers /\ Temps[1] \in Registers
  BY TempsTyped
<1>2. request \in Request /\ request.least \in Int /\ request.most \in Int
  BY RequestsAssumption DEF Inv, Allotted, Request
<1>3. CASE Generate
  BY <1>0, <1>3 DEF Inv, Generate, Running, Constructed, Generated
<1>4. CASE Initialize
  <2>1. /\ phase = "generated" /\ phase' = "running"
        /\ machine' = [c \in Cores |-> RunBlock(c, Fresh(c), InitBlock(c))]
        /\ UNCHANGED <<request, range, steps, blocks, again>>
    BY <1>4 DEF Initialize
  <2>2. ASSUME NEW c \in Cores PROVE machine'[c] \in Covered(c)'
    <3>1. Usable(c)
      BY <1>0, <2>1, UsableHolds DEF Generated
    <3>2. machine'[c] \in Covered(c)
      BY <2>1, <3>1, InitCovers
    <3> QED BY <2>1, <3>2, Unprimed
  <2> QED BY <1>0, <2>1, <2>2 DEF Inv, Running, Constructed, Generated
<1>5. CASE LoadBase
  <2>1. PICK b \in {RegisterMin(request), RegisterMax(request)} :
          Step([c \in Cores |-> Li(Temps[1], range[c].start + b)])
    BY <1>5 DEF LoadBase
  <2>2. b \in Int
    BY <1>2, <2>1 DEF RegisterMin, RegisterMax, AccessLimit, MaxAccessWidth, Request
  <2> DEFINE instruction == [c \in Cores |-> Li(Temps[1], range[c].start + b)]
  <2>3. ASSUME NEW c \in Cores PROVE instruction[c] \in Programs
    <3>1. phase = "running"
      BY <2>1 DEF Step
    <3>2. range[c].start \in Nat
      BY <1>0, <3>1, UsableHolds DEF Generated, Usable
    <3>3. range[c].start + b \in Int
      BY <2>2, <3>2
    <3> QED BY <1>1, <3>3, ProgramsTyped
  <2> HIDE DEF instruction
  <2>4. Step(instruction)
    BY <2>1 DEF instruction
  <2> QED BY <1>0, <2>3, <2>4, StepKeeps
<1>6. CASE Access
  <2>1. PICK w \in Widths(request), i \in {request.least, request.most} :
          Step([c \in Cores |-> Store("test", w, Temps[1], i)])
    BY <1>6 DEF Access
  <2>2. w \in {1, 2, 4, 8} /\ i \in Int
    BY <1>2, <2>1 DEF Widths
  <2> DEFINE instruction == [c \in Cores |-> Store("test", w, Temps[1], i)]
  <2>3. \A c \in Cores : instruction[c] \in Programs
    BY <1>1, <2>2, ProgramsTyped
  <2> HIDE DEF instruction
  <2>4. Step(instruction)
    BY <2>1 DEF instruction
  <2> QED BY <1>0, <2>3, <2>4, StepKeeps
<1>7. CASE Integer
  <2> DEFINE instruction == [c \in Cores |-> Li("test", 4 + steps)]
  <2>1. 4 + steps \in Int
    BY DEF Inv
  <2>2. \A c \in Cores : instruction[c] \in Programs
    BY <1>1, <2>1, ProgramsTyped
  <2> HIDE DEF instruction
  <2>3. Step(instruction)
    BY <1>7 DEF Integer, instruction
  <2> QED BY <1>0, <2>2, <2>3, StepKeeps
<1>8. CASE Floating
  <2>1. PICK upper \in {Box} \cup (IF 8 \in Widths(request) THEN {5} ELSE {}) :
          Step([c \in Cores |-> Float(upper * Half + 5)])
    BY <1>8 DEF Floating
  <2>2. upper * Half + 5 \in Int
    BY <2>1 DEF Box, Half
  <2> DEFINE instruction == [c \in Cores |-> Float(upper * Half + 5)]
  <2>3. \A c \in Cores : instruction[c] \in Programs
    BY <2>2, ProgramsTyped
  <2> HIDE DEF instruction
  <2>4. Step(instruction)
    BY <2>1 DEF instruction
  <2> QED BY <1>0, <2>3, <2>4, StepKeeps
<1>9. CASE Build
  <2>1. /\ phase = "running" /\ blocks' = [c \in Cores |-> Restore(c, machine[c])]
        /\ phase' = IF \A c, d \in Cores : Len(blocks'[c]) = Len(blocks'[d]) THEN "built" ELSE "mismatch"
        /\ UNCHANGED <<request, range, machine, steps, again>>
    BY <1>9 DEF Build
  <2>2. \A c \in Cores : machine'[c] \in Covered(c)'
    <3>1. \A c \in Cores : machine[c] \in Covered(c)
      BY <2>1 DEF Inv, Running
    <3> QED BY <2>1, <3>1, Unprimed
  <2>3. blocks' = [c \in Cores |-> Restore(c, machine[c])']
    BY <2>1, UnprimedRestore
  <2>4. /\ phase' = "mismatch" => ~SameLengths'
        /\ phase' # "mismatch" => phase' = "built" /\ SameLengths'
    BY <2>1 DEF SameLengths
  <2> QED BY <1>0, <2>1, <2>2, <2>3, <2>4 DEF Inv, Running, Constructed, Generated
<1>10. CASE Rerun
  <2>1. /\ phase = "built" /\ phase' = "replayed"
        /\ again' = [c \in Cores |-> RunBlock(c, Fresh(c), InitBlock(c) \o blocks[c])]
        /\ UNCHANGED <<request, range, machine, steps, blocks>>
    BY <1>10 DEF Rerun
  <2>2. /\ \A c \in Cores : machine[c] \in Covered(c)
        /\ blocks = [c \in Cores |-> Restore(c, machine[c])] /\ SameLengths
    BY <2>1 DEF Inv, Running, Constructed, Generated
  <2>3. \A c \in Cores : machine'[c] \in Covered(c)'
    BY <2>1, <2>2, Unprimed
  <2>4. blocks' = [c \in Cores |-> Restore(c, machine[c])'] /\ SameLengths'
    BY <2>1, <2>2, UnprimedRestore DEF SameLengths
  <2>5. ASSUME NEW c \in Cores PROVE <<again'[c], machine'[c]>> \in Pairs(c)'
    <3>1. Usable(c)
      BY <1>0, <2>1, UsableHolds DEF Generated
    <3>2. again'[c] = RunBlock(c, Fresh(c), InitBlock(c) \o Restore(c, machine[c]))
      BY <2>1, <2>2
    <3>3. again'[c] \in Tracked(c) /\ Alike(c, again'[c], machine[c])
      BY <2>2, <3>1, <3>2, RestoreRun
    <3>4. <<again'[c], machine'[c]>> \in Pairs(c)
      BY <2>1, <2>2, <3>3 DEF Pairs, Covered
    <3> QED BY <2>1, <3>4, UnprimedPairs
  <2> QED BY <1>0, <2>1, <2>3, <2>4, <2>5 DEF Inv, Running, Constructed, Generated
<1>11. CASE UNCHANGED vars
  <2>1. UNCHANGED <<request, phase, range, machine, steps, blocks, again>>
    BY <1>11 DEF vars
  <2>2. Running => \A c \in Cores : machine'[c] \in Covered(c)'
    BY <2>1, Unprimed DEF Inv
  <2>3. Constructed => blocks' = [c \in Cores |-> Restore(c, machine[c])']
    BY <2>1, UnprimedRestore DEF Inv
  <2>4. phase = "replayed" => \A c \in Cores : <<again'[c], machine'[c]>> \in Pairs(c)'
    BY <2>1, UnprimedPairs DEF Inv
  <2>5. SameLengths' <=> SameLengths
    BY <2>1 DEF SameLengths
  <2> QED BY <1>0, <2>1, <2>2, <2>3, <2>4, <2>5 DEF Inv, Running, Constructed, Generated
<1> QED BY <1>3, <1>4, <1>5, <1>6, <1>7, <1>8, <1>9, <1>10, <1>11 DEF Next

LEMMA InvTyped == Inv => TypeOK
<1> SUFFICES ASSUME Inv PROVE TypeOK
  OBVIOUS
<1>1. /\ request \in Requests /\ request \in Request /\ steps \in 0 .. MaxSteps
      /\ phase \in {"requested", "rejected", "generated", "running", "built", "mismatch", "replayed"}
  BY RequestsAssumption DEF Inv, Allotted
<1>2. RangeFits(request) => MemoryRange(request) \in [Cores -> [start : Nat, end : Nat]]
  <2> SUFFICES ASSUME RangeFits(request)
               PROVE  MemoryRange(request) \in [Cores -> [start : Nat, end : Nat]]
    OBVIOUS
  <2> DEFINE r == MemoryRange(request)
  <2>1. \A c \in Cores : r[c] \in [start : Nat, end : Nat]
    BY <1>1, Allocated
  <2>2. r = [c \in Cores |-> r[c]]
    BY DEF MemoryRange
  <2> HIDE DEF r
  <2>3. r \in [Cores -> [start : Nat, end : Nat]]
    BY <2>1, <2>2
  <2> QED BY <2>3 DEF r
<1>3. range \in [Cores -> [start : Nat, end : Nat]] \/ (phase \in {"requested", "rejected"} /\ range = <<>>)
  BY <1>2 DEF Inv, Allotted, Generated
<1>4. ASSUME NEW m, NEW c \in Cores, m[c] \in Tracked(c)
      PROVE  /\ m[c].regs \in [Registers -> Int] /\ m[c].mem \in [Ram[c] -> Int]
             /\ DOMAIN m[c].registers \subseteq Registers
             /\ DOMAIN m[c].memory \subseteq Nat
             /\ m[c].outside \subseteq Ram[c] /\ m[c].trapped \in BOOLEAN
  BY <1>4, StateFields DEF Tracked
<1>5. Running => Machine(machine)
  <2>1. Running => \A c \in Cores : machine[c] \in Tracked(c)
    BY DEF Inv, Covered
  <2> QED BY <1>4, <2>1 DEF Machine
<1>6. phase = "replayed" => Machine(again)
  <2>1. phase = "replayed" => \A c \in Cores : again[c] \in Tracked(c)
    BY DEF Inv, Pairs
  <2> QED BY <1>4, <2>1 DEF Machine
<1>7. Constructed => blocks \in [Cores -> Seq(Instructions)]
  <2> SUFFICES ASSUME Constructed PROVE blocks \in [Cores -> Seq(Instructions)]
    OBVIOUS
  <2>1. ASSUME NEW c \in Cores PROVE Restore(c, machine[c]) \in Seq(Instructions)
    <3>1. Usable(c)
      BY UsableHolds DEF Inv, Constructed, Generated
    <3>2. machine[c] \in Covered(c)
      BY DEF Inv, Constructed, Running
    <3> QED BY <3>1, <3>2, RestoreTyped
  <2>2. blocks = [c \in Cores |-> Restore(c, machine[c])]
    BY DEF Inv
  <2> QED BY <2>1, <2>2
<1> QED BY <1>1, <1>3, <1>5, <1>6, <1>7 DEF TypeOK, Running, Constructed

LEMMA InvReproduces == Inv => Reproduced
<1> SUFFICES ASSUME Inv, phase = "replayed", NEW c \in Cores
             PROVE  /\ \A r \in Registers :
                         Same(c, r) \/ (machine[c].trapped /\ r \in Scratch(request))
                    /\ \A a \in range[c].start .. range[c].end :
                         \/ again[c].mem[a] = machine[c].mem[a]
                         \/ a - range[c].start \in machine[c].outside
  BY DEF Reproduced
<1>1. Alike(c, again[c], machine[c])
  BY DEF Inv, Pairs
<1> QED BY <1>1 DEF Alike, Same, Inside

LEMMA InvBuilds == Inv => BuiltUnlessStray
<1> SUFFICES ASSUME Inv PROVE BuiltUnlessStray
  OBVIOUS
<1>1. ASSUME Constructed, NEW c \in Cores
      PROVE  Strays(c) \in Nat /\ Len(blocks[c]) = 3 * (request.size + Strays(c)) + 6
  <2>1. Usable(c)
    BY <1>1, UsableHolds DEF Inv, Constructed, Generated
  <2>2. machine[c] \in Covered(c) /\ blocks[c] = Restore(c, machine[c])
    BY <1>1 DEF Inv, Constructed, Running
  <2> QED BY <2>1, <2>2, RestoreTyped DEF Strays
<1>2. request.size \in Nat
  BY RequestsAssumption DEF Inv, Allotted, Request
<1>3. ASSUME Constructed, NEW c \in Cores, NEW d \in Cores
      PROVE  Len(blocks[c]) = Len(blocks[d]) <=> Strays(c) = Strays(d)
  <2>1. /\ Strays(c) \in Nat /\ Len(blocks[c]) = 3 * (request.size + Strays(c)) + 6
        /\ Strays(d) \in Nat /\ Len(blocks[d]) = 3 * (request.size + Strays(d)) + 6
    BY <1>1, <1>3
  <2> QED BY <1>2, <2>1
<1>4. phase = "mismatch" => \E c, d \in Cores : Strays(c) # Strays(d)
  BY <1>3 DEF Inv, Constructed, SameLengths
<1>5. phase = "replayed" => \A c, d \in Cores : Strays(c) = Strays(d)
  BY <1>3 DEF Inv, Constructed, SameLengths
<1> QED BY <1>4, <1>5 DEF BuiltUnlessStray

LEMMA InvHolds == Spec => []Inv
BY InvInit, InvNext, PTL DEF Spec

(* Every variable keeps its type: on every core the replay is a sequence   *)
(* of instructions, whatever was stored to before.                         *)
THEOREM TypeCorrect == Spec => []TypeOK
BY InvHolds, InvTyped, PTL

(* build_replay_testcase: for any memory sizes, cores and sequence of      *)
(* instructions, failed, trapped or not, what the instruction meets in the *)
(* replay is what it met in the testcase.                                  *)
THEOREM ReproducedHolds == Spec => []Reproduced
BY InvHolds, InvReproduces, PTL

(* build_replay_testcase: the cores' blocks differ in length for nothing   *)
(* but what was written outside of the range, and then they do.            *)
THEOREM BuiltUnlessStrayHolds == Spec => []BuiltUnlessStray
BY InvHolds, InvBuilds, PTL
=============================================================================

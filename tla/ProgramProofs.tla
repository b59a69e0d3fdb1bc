--------------------------- MODULE ProgramProofs ---------------------------
(***************************************************************************)
(* Theorems about Program, for testcases of any length, any sequence of    *)
(* instructions that trap, and any number of interrupts.                   *)
(*                                                                         *)
(* Where the instructions start is a recursive function of the testcase.   *)
(* What it computes is proved first, by induction in the form of a least   *)
(* counterexample; after that only Layout is used.                         *)
(***************************************************************************)
EXTENDS Program, SequenceTheorems, WellFoundedInduction, TLAPS

(* Sets of natural numbers have a least element.                           *)
LEMMA LeastNumber ==
  ASSUME NEW T \in SUBSET Nat, T # {}
  PROVE  \E x \in T : \A y \in T : x <= y
<1> DEFINE R == OpToRel(<, Nat)
<1>1. IsWellFoundedOn(R, Nat)
  BY NatLessThanWellFounded
<1>2. PICK x \in T : \A y \in T : ~(<<y, x>> \in R)
  <2> HIDE DEF R
  <2> QED BY <1>1, WFMin
<1>3. \A y \in T : ~(y < x)
  BY <1>2 DEF OpToRel
<1> QED BY <1>3

(* A set with 0 and the successors of its numbers holds all numbers.       *)
LEMMA Induction ==
  ASSUME NEW T, 0 \in T, \A n \in Nat : n \in T => n + 1 \in T
  PROVE  \A n \in Nat : n \in T
<1> DEFINE Missing == Nat \ T
<1> SUFFICES ASSUME Missing # {} PROVE FALSE
  OBVIOUS
<1>1. PICK x \in Missing : \A y \in Missing : x <= y
  <2>1. Missing \in SUBSET Nat
    OBVIOUS
  <2> HIDE DEF Missing
  <2> QED BY <2>1, LeastNumber
<1>2. x \in Nat /\ x \notin T
  OBVIOUS
<1>3. x # 0
  BY <1>2
<1>4. x - 1 \in Nat /\ ~(x <= x - 1)
  BY <1>2, <1>3
<1>5. x - 1 \in T
  BY <1>1, <1>4
<1>6. (x - 1) + 1 \in T
  BY <1>4, <1>5
<1> QED BY <1>2, <1>6

-----------------------------------------------------------------------------
(* The layout of the testcase and its report.                              *)

(* The recursion has a solution, for any number of instructions.           *)
LEMMA StartExists ==
  ASSUME NEW n \in Nat, NEW w
  PROVE  \E s : s = [i \in 1 .. n |-> IF i = 1 THEN 0 ELSE s[i - 1] + w[i - 1].size]
<1> DEFINE P(m) == \E s : s = [i \in 1 .. m |-> IF i = 1 THEN 0 ELSE s[i - 1] + w[i - 1].size]
           T == {m \in Nat : P(m)}
<1>1. 0 \in T
  <2>1. \A s : [i \in 1 .. 0 |-> IF i = 1 THEN 0 ELSE s[i - 1] + w[i - 1].size] = [i \in 1 .. 0 |-> 0]
    OBVIOUS
  <2> QED BY <2>1
<1>2. ASSUME NEW m \in Nat, m \in T PROVE m + 1 \in T
  <2>1. PICK s : s = [i \in 1 .. m |-> IF i = 1 THEN 0 ELSE s[i - 1] + w[i - 1].size]
    BY <1>2
  <2> DEFINE g == [i \in 1 .. m |-> IF i = 1 THEN 0 ELSE s[i - 1] + w[i - 1].size]
             u == [i \in 1 .. m + 1 |-> IF i = 1 THEN 0 ELSE s[i - 1] + w[i - 1].size]
  <2>2. \A i \in 1 .. m : u[i] = g[i]
    OBVIOUS
  <2>3. \A i \in 1 .. m : u[i] = s[i]
    <3> HIDE DEF u
    <3> QED BY <2>1, <2>2
  <2>4. \A i \in 1 .. m + 1 : u[i] = IF i = 1 THEN 0 ELSE u[i - 1] + w[i - 1].size
    <3> SUFFICES ASSUME NEW i \in 1 .. m + 1, i # 1
                 PROVE  u[i] = u[i - 1] + w[i - 1].size
      OBVIOUS
    <3>1. i - 1 \in 1 .. m
      OBVIOUS
    <3>2. u[i] = s[i - 1] + w[i - 1].size
      OBVIOUS
    <3> HIDE DEF u
    <3> QED BY <2>3, <3>1, <3>2
  <2>5. u = [i \in 1 .. m + 1 |-> u[i]]
    OBVIOUS
  <2> HIDE DEF u
  <2>6. u = [i \in 1 .. m + 1 |-> IF i = 1 THEN 0 ELSE u[i - 1] + w[i - 1].size]
    BY <2>4, <2>5
  <2> QED BY <2>6
<1> HIDE DEF T
<1>3. n \in T
  BY <1>1, <1>2, Induction
<1> QED BY <1>3 DEF T

(* Where an instruction ends.                                              *)
End(i) == Start[i] + Whole[i].size

(* What the proofs use of the layout: each instruction ends where the next *)
(* one starts, and none ends after a later one has started.                *)
Layout ==
  /\ Len(Whole) \in Nat \ {0} /\ DOMAIN Whole = 1 .. Len(Whole)
  /\ Len(Whole) = Len(code) + 1 /\ DOMAIN code = 1 .. Len(code) /\ Len(code) \in Nat
  /\ \A i \in DOMAIN Whole : Whole[i] \in Instruction /\ Whole[i].size \in {1, 2}
  /\ \A i \in DOMAIN code : Whole[i] = code[i]
  /\ Whole[Len(Whole)] = Report
  /\ \A i \in DOMAIN Whole : Start[i] \in Nat /\ End(i) \in Nat
  /\ Start[1] = 0
  /\ \A i \in DOMAIN Whole : i # Len(Whole) => i + 1 \in DOMAIN Whole /\ Start[i + 1] = End(i)
  /\ \A i, j \in DOMAIN Whole : i < j => End(i) <= Start[j]

LEMMA WholeTyped ==
  ASSUME code \in Seq(Instruction)
  PROVE  /\ Whole \in Seq(Instruction)
         /\ Len(Whole) = Len(code) + 1
         /\ \A i \in 1 .. Len(code) : Whole[i] = code[i]
         /\ Whole[Len(Whole)] = Report
<1>1. Report \in Instruction
  BY DEF Report, Instruction, Kinds
<1> QED BY <1>1, AppendProperties DEF Whole

LEMMA LayoutHolds ==
  ASSUME code \in Seq(Instruction)
  PROVE  Layout
<1> DEFINE n == Len(Whole)
<1>1. /\ n \in Nat \ {0} /\ n = Len(code) + 1 /\ Whole \in [1 .. n -> Instruction]
      /\ DOMAIN Whole = 1 .. n /\ DOMAIN code = 1 .. Len(code) /\ Len(code) \in Nat
  BY WholeTyped, LenProperties
<1>2. \A i \in 1 .. n : Whole[i] \in Instruction /\ Whole[i].size \in {1, 2}
  BY <1>1 DEF Instruction
<1>3. Start = [i \in 1 .. n |-> IF i = 1 THEN 0 ELSE Start[i - 1] + Whole[i - 1].size]
  <2>1. \E s : s = [i \in 1 .. n |-> IF i = 1 THEN 0 ELSE s[i - 1] + Whole[i - 1].size]
    BY <1>1, StartExists
  <2> QED BY <2>1 DEF Start
<1>4. Start[1] = 0
  BY <1>1, <1>3
<1>5. \A i \in 1 .. n : i # n => i + 1 \in 1 .. n /\ Start[i + 1] = End(i)
  <2> SUFFICES ASSUME NEW i \in 1 .. n, i # n
               PROVE  i + 1 \in 1 .. n /\ Start[i + 1] = Start[i] + Whole[i].size
    BY DEF End
  <2>1. i + 1 \in 1 .. n /\ i + 1 # 1 /\ (i + 1) - 1 = i
    BY <1>1
  <2>2. Start[i + 1] = Start[(i + 1) - 1] + Whole[(i + 1) - 1].size
    BY <1>3, <2>1
  <2> QED BY <2>1, <2>2
<1> HIDE DEF n
<1>6. \A i \in 1 .. n : Start[i] \in Nat
  <2> DEFINE T == {m \in Nat : m + 1 \in 1 .. n => Start[m + 1] \in Nat}
  <2>1. 0 \in T
    BY <1>4
  <2>2. ASSUME NEW m \in Nat, m \in T PROVE m + 1 \in T
    <3> SUFFICES ASSUME m + 2 \in 1 .. n PROVE Start[m + 2] \in Nat
      OBVIOUS
    <3>1. m + 1 \in 1 .. n /\ m + 1 # n /\ (m + 1) + 1 = m + 2
      BY <1>1
    <3>2. Start[m + 1] \in Nat /\ Whole[m + 1].size \in {1, 2}
      BY <1>2, <2>2, <3>1
    <3>3. Start[m + 2] = Start[m + 1] + Whole[m + 1].size
      BY <1>5, <3>1 DEF End
    <3> QED BY <3>2, <3>3
  <2>3. \A m \in Nat : m \in T
    <3> HIDE DEF T
    <3> QED BY <2>1, <2>2, Induction
  <2> SUFFICES ASSUME NEW i \in 1 .. n PROVE Start[i] \in Nat
    OBVIOUS
  <2>4. i - 1 \in Nat /\ (i - 1) + 1 = i
    BY <1>1
  <2>5. i - 1 \in T
    BY <2>3, <2>4
  <2> QED BY <2>4, <2>5
<1>7. \A i \in 1 .. n : End(i) \in Nat
  BY <1>2, <1>6 DEF End
<1>8. \A i, j \in 1 .. n : i < j => End(i) <= Start[j]
  <2> DEFINE T == {m \in Nat : \A i \in 1 .. n : i + 1 + m \in 1 .. n => End(i) <= Start[i + 1 + m]}
  <2>1. 0 \in T
    <3> SUFFICES ASSUME NEW i \in 1 .. n, i + 1 \in 1 .. n PROVE End(i) <= Start[i + 1]
      OBVIOUS
    <3>1. Start[i + 1] = End(i)
      BY <1>1, <1>5
    <3> QED BY <1>7, <3>1
  <2>2. ASSUME NEW m \in Nat, m \in T PROVE m + 1 \in T
    <3> SUFFICES ASSUME NEW i \in 1 .. n, i + 1 + (m + 1) \in 1 .. n
                 PROVE  End(i) <= Start[i + 1 + (m + 1)]
      OBVIOUS
    <3> DEFINE k == i + 1 + m
    <3>1. k \in 1 .. n /\ k # n /\ k + 1 = i + 1 + (m + 1)
      BY <1>1
    <3>2. End(i) <= Start[k]
      BY <2>2, <3>1
    <3> HIDE DEF k
    <3>3. Start[k + 1] = Start[k] + Whole[k].size
      BY <1>5, <3>1 DEF End
    <3>4. Start[k] \in Nat /\ Whole[k].size \in {1, 2} /\ End(i) \in Nat
      BY <1>2, <1>6, <1>7, <3>1
    <3> QED BY <3>1, <3>2, <3>3, <3>4
  <2>3. \A m \in Nat : m \in T
    <3> HIDE DEF T
    <3> QED BY <2>1, <2>2, Induction
  <2> SUFFICES ASSUME NEW i \in 1 .. n, NEW j \in 1 .. n, i < j PROVE End(i) <= Start[j]
    OBVIOUS
  <2>4. j - (i + 1) \in Nat /\ i + 1 + (j - (i + 1)) = j
    BY <1>1
  <2>5. j - (i + 1) \in T
    BY <2>3, <2>4
  <2> QED BY <2>4, <2>5
<1> QED BY <1>1, <1>2, <1>4, <1>5, <1>6, <1>7, <1>8, WholeTyped DEF Layout, n

(* Two instructions: one of them ends before the other starts.             *)
LEMMA Apart ==
  ASSUME Layout, NEW i \in DOMAIN Whole, NEW j \in DOMAIN Whole
  PROVE  /\ i \in Nat /\ j \in Nat /\ Start[i] \in Nat /\ Start[j] \in Nat
         /\ Whole[i].size \in {1, 2} /\ Whole[j].size \in {1, 2}
         /\ End(i) = Start[i] + Whole[i].size /\ End(j) = Start[j] + Whole[j].size
         /\ i < j => End(i) <= Start[j]
         /\ j < i => End(j) <= Start[i]
         /\ i < j \/ j < i \/ i = j
<1>1. i \in 1 .. Len(Whole) /\ j \in 1 .. Len(Whole) /\ Len(Whole) \in Nat
  BY DEF Layout
<1>2. i \in Nat /\ j \in Nat /\ (i < j \/ j < i \/ i = j)
  BY <1>1
<1> QED BY <1>2 DEF Layout, End

(* decode_length: the lowest bits of an instruction tell its size.         *)
LEMMA SizeTold ==
  ASSUME Layout, NEW i \in DOMAIN Whole
  PROVE  Length(Bits(Start[i])) = Whole[i].size
<1>1. CASE Whole[i].size = 2
  BY <1>1 DEF Bits, Length
<1>2. CASE Whole[i].size = 1
  <2>1. ASSUME NEW j \in DOMAIN Whole, Whole[j].size = 2,
               Start[i] = Start[j] \/ Start[i] = Start[j] + 1
        PROVE  FALSE
    BY <1>2, <2>1, Apart
  <2> QED BY <1>2, <2>1 DEF Bits, Length
<1> QED BY <1>1, <1>2, Apart

(* The halfword before an instruction that looks like the first one of     *)
(* another is the second one of the instruction before.                    *)
LEMMA TailBefore ==
  ASSUME Layout, NEW i \in DOMAIN Whole, Bits(Start[i] - 1) = "11"
  PROVE  i > 1 /\ Whole[i - 1].size = 2 /\ Whole[i - 1].tail
<1>1. PICK j \in DOMAIN Whole :
         Whole[j].size = 2 /\ (Start[i] - 1 = Start[j] \/ (Start[i] - 1 = Start[j] + 1 /\ Whole[j].tail))
  BY DEF Bits
<1>2. j < i /\ Start[i] = End(j) /\ Whole[j].tail
  BY <1>1, Apart
<1>3. i \in 1 .. Len(Whole) /\ j \in 1 .. Len(Whole) /\ Len(Whole) \in Nat
  BY DEF Layout
<1>4. j + 1 \in DOMAIN Whole /\ Start[j + 1] = End(j)
  BY <1>2, <1>3 DEF Layout
<1>5. j + 1 = i
  <2> DEFINE k == j + 1
  <2>1. k \in DOMAIN Whole /\ Start[k] = Start[i]
    BY <1>2, <1>4
  <2> HIDE DEF k
  <2>2. k = i
    BY <2>1, Apart
  <2> QED BY <2>2 DEF k
<1> QED BY <1>1, <1>2, <1>3, <1>5

-----------------------------------------------------------------------------
(* The inductive invariant.                                                *)

(* How far the program is: a handler of an exception will return behind    *)
(* the instruction.                                                        *)
Reached == IF state = "handler" /\ ~csr.interrupt THEN at + Skipped ELSE at

(* The processor is at an instruction, and so is what a handler returns    *)
(* to by.                                                                  *)
InPlace ==
  /\ state \in {"user", "handler"} => \E i \in DOMAIN Whole : at = Start[i]
  /\ state = "handler" => csr.epc = at

(* The machine is set up before the first instruction.                     *)
AtFirst == state = "boot" => at = 0

(* An exception is that of an instruction of the testcase, all of which    *)
(* the handler will skip.                                                  *)
ExceptionHandled ==
  state = "handler" /\ ~csr.interrupt =>
    \E i \in DOMAIN code : at = Start[i] /\ Skipped = Whole[i].size

(* An interrupt is the last one taken.                                     *)
InterruptHandled ==
  state = "handler" /\ csr.interrupt =>
    /\ taken # <<>>
    /\ taken[Len(taken)].cause = csr.cause
    /\ taken[Len(taken)].before \in DOMAIN Whole
    /\ at = Start[taken[Len(taken)].before]

(* The log ascends and holds nothing that is still ahead.                  *)
Ascending ==
  /\ \A i, j \in DOMAIN log : i < j => log[i] < log[j]
  /\ \A k \in DOMAIN log : End(log[k]) <= Reached

NoneMistaken == \A t \in Range(taken) : ~Mistaken(t)

(* What is behind was executed, trapped, or lost to an interrupt.          *)
NothingLost ==
  NoneMistaken =>
    /\ state # "astray"
    /\ \A i \in DOMAIN Whole :
         End(i) <= Reached => \/ i \in Range(log)
                              \/ \E t \in Range(taken) : t.before = i /\ Loses(i)

(* The mode is what the testcase has asked for, or will be after the       *)
(* handler.                                                                *)
Wanted == IF Asked THEN "S" ELSE "M"
ModeKept ==
  /\ mode = "S" \/ csr.mpp = "S" => Has("switches")
  /\ (\A t \in Range(taken) : t.cause # 9) =>
        /\ state \in {"boot", "user"} => mode = Wanted
        /\ state = "handler" => ModeAfter = Wanted

IInv == TypeOK /\ AtFirst /\ InPlace /\ ExceptionHandled /\ InterruptHandled /\ Ascending /\ NothingLost /\ ModeKept

(* The testcase, and all that is computed from it alone, stays.            *)
LEMMA TestcaseStays ==
  ASSUME [Next]_vars
  PROVE  core' = core /\ code' = code
BY DEF Next, vars, Boot, Return, Execute, Raise, Interrupt, Trap

LEMMA SameTestcase ==
  ASSUME core' = core, code' = code
  PROVE  /\ Whole' = Whole /\ Start' = Start
         /\ \A i : End(i)' = End(i)
         /\ \A what : Has(what)' = Has(what)
         /\ \A i : Loses(i)' = Loses(i)
         /\ \A t : Mistaken(t)' = Mistaken(t)
         /\ \A a : Bits(a)' = Bits(a)
<1>1. Whole' = Whole
  BY DEF Whole
<1>2. Start' = Start
  BY <1>1 DEF Start
<1>3. \A what : Has(what)' = Has(what)
  BY DEF Has
<1>4. \A i : End(i)' = End(i)
  BY <1>1, <1>2 DEF End
<1>5. \A i : Loses(i)' = Loses(i)
  BY <1>1, <1>3 DEF Loses
<1>6. \A t : Mistaken(t)' = Mistaken(t)
  BY <1>3 DEF Mistaken
<1>7. \A a : Bits(a)' = Bits(a)
  BY <1>1, <1>2 DEF Bits
<1> QED BY <1>1, <1>2, <1>3, <1>4, <1>5, <1>6, <1>7

LEMMA RangeAppend ==
  ASSUME NEW S, NEW s \in Seq(S), NEW e \in S
  PROVE  Range(Append(s, e)) = Range(s) \cup {e}
<1>1. /\ DOMAIN s = 1 .. Len(s) /\ Len(s) \in Nat
      /\ DOMAIN Append(s, e) = 1 .. Len(s) + 1
      /\ \A k \in 1 .. Len(s) : Append(s, e)[k] = s[k]
      /\ Append(s, e)[Len(s) + 1] = e
  BY AppendProperties, LenProperties
<1>2. \A k \in 1 .. Len(s) : k \in 1 .. Len(s) + 1
  BY <1>1
<1>3. \A k \in 1 .. Len(s) + 1 : k \in 1 .. Len(s) \/ k = Len(s) + 1
  BY <1>1
<1>4. Len(s) + 1 \in 1 .. Len(s) + 1
  BY <1>1
<1> QED BY <1>1, <1>2, <1>3, <1>4 DEF Range

(* The next instruction is logged: the log still ascends, to the end of    *)
(* this instruction, which is all that is behind in addition.              *)
LEMMA Logged ==
  ASSUME Layout, log \in Seq(1 .. Len(Whole)), NEW i \in DOMAIN Whole,
         Ascending, Reached = Start[i]
  PROVE  LET longer == Append(log, i) IN
         /\ longer \in Seq(1 .. Len(Whole))
         /\ Range(longer) = Range(log) \cup {i}
         /\ \A j \in Range(log) : j < i
         /\ \A j, k \in DOMAIN longer : j < k => longer[j] < longer[k]
         /\ \A k \in DOMAIN longer : End(longer[k]) <= End(i)
         /\ \A j \in DOMAIN Whole : End(j) <= End(i) => j = i \/ End(j) <= Start[i]
<1> DEFINE longer == Append(log, i)
<1>0. \A j \in DOMAIN Whole :
         /\ End(j) <= Start[i] => j < i /\ End(j) <= End(i)
         /\ End(j) <= End(i) => j = i \/ End(j) <= Start[i]
         /\ End(i) \in Nat
  <2> SUFFICES ASSUME NEW j \in DOMAIN Whole
               PROVE  /\ End(j) <= Start[i] => j < i /\ End(j) <= End(i)
                      /\ End(j) <= End(i) => j = i \/ End(j) <= Start[i]
                      /\ End(i) \in Nat
    OBVIOUS
  <2>1. /\ i \in Nat /\ j \in Nat /\ Start[i] \in Nat /\ Start[j] \in Nat
        /\ Whole[i].size \in {1, 2} /\ Whole[j].size \in {1, 2}
        /\ End(i) = Start[i] + Whole[i].size /\ End(j) = Start[j] + Whole[j].size
        /\ i < j => End(i) <= Start[j]
        /\ j < i => End(j) <= Start[i]
        /\ i < j \/ j < i \/ i = j
    BY Apart
  <2> QED BY <2>1
<1>1. /\ longer \in Seq(1 .. Len(Whole)) /\ Len(longer) = Len(log) + 1
      /\ DOMAIN log = 1 .. Len(log) /\ Len(log) \in Nat
      /\ DOMAIN longer = 1 .. Len(log) + 1
      /\ \A k \in 1 .. Len(log) : longer[k] = log[k]
      /\ longer[Len(log) + 1] = i
      /\ i \in 1 .. Len(Whole)
  BY AppendProperties, LenProperties DEF Layout
<1>2. Range(longer) = Range(log) \cup {i}
  BY <1>1, RangeAppend
<1>3. \A k \in 1 .. Len(log) : log[k] \in DOMAIN Whole /\ log[k] < i /\ End(log[k]) <= Start[i]
  <2> SUFFICES ASSUME NEW k \in 1 .. Len(log)
               PROVE  log[k] \in DOMAIN Whole /\ log[k] < i /\ End(log[k]) <= Start[i]
    OBVIOUS
  <2>1. log[k] \in DOMAIN Whole
    BY ElementOfSeq DEF Layout
  <2>2. End(log[k]) <= Start[i]
    BY <1>1 DEF Ascending
  <2> QED BY <1>0, <2>1, <2>2
<1>4. \A j \in Range(log) : j < i
  BY <1>1, <1>3 DEF Range
<1>5. ASSUME NEW j \in DOMAIN longer, NEW k \in DOMAIN longer, j < k
      PROVE  longer[j] < longer[k]
  <2>1. j \in 1 .. Len(log) /\ (k \in 1 .. Len(log) \/ k = Len(log) + 1)
    BY <1>1, <1>5
  <2>2. CASE k \in 1 .. Len(log)
    BY <1>1, <1>5, <2>1, <2>2 DEF Ascending
  <2>3. CASE k = Len(log) + 1
    BY <1>1, <1>3, <2>1, <2>3
  <2> QED BY <2>1, <2>2, <2>3
<1>6. ASSUME NEW k \in DOMAIN longer
      PROVE  End(longer[k]) <= End(i)
  <2>1. CASE k \in 1 .. Len(log)
    BY <1>0, <1>1, <1>3, <2>1
  <2>2. CASE k = Len(log) + 1
    BY <1>0, <1>1, <2>2
  <2> QED BY <1>1, <2>1, <2>2
<1> QED BY <1>0, <1>1, <1>2, <1>4, <1>5, <1>6

(* What the testcase asks for after the next instruction is logged.        *)
LEMMA AskedNext ==
  ASSUME Layout, NEW i \in DOMAIN Whole, code' = code,
         Range(log') = Range(log) \cup {i}, \A j \in Range(log) : j < i
  PROVE  /\ i \in DOMAIN code /\ Whole[i].does = "enters" => Asked'
         /\ i \in DOMAIN code /\ Whole[i].does = "ecall" => ~Asked'
         /\ i \notin DOMAIN code \/ Whole[i].does \notin {"enters", "ecall"} => (Asked' <=> Asked)
<1> DEFINE last == {k \in DOMAIN code : k \in Range(log) /\ code[k].does \in {"enters", "ecall"}}
           next == {k \in DOMAIN code : k \in Range(log) \cup {i} /\ code[k].does \in {"enters", "ecall"}}
<1>1. Asked <=> \E k \in last : code[k].does = "enters" /\ \A j \in last : j <= k
  BY DEF Asked
<1>2. Asked' <=> \E k \in next : code[k].does = "enters" /\ \A j \in next : j <= k
  BY DEF Asked
<1>3. /\ \A k \in DOMAIN code : Whole[k] = code[k] /\ k \in Nat
      /\ i \in Nat
  BY DEF Layout
<1>4. \A k \in last : k \in Nat /\ k < i
  BY <1>3
<1>5. CASE i \in DOMAIN code /\ Whole[i].does \in {"enters", "ecall"}
  <2>1. next = last \cup {i} /\ i \in next /\ code[i] = Whole[i]
    BY <1>3, <1>5
  <2> HIDE DEF last, next
  <2>2. \A k \in next : k <= i /\ (k # i => ~(i <= k))
    BY <1>3, <1>4, <2>1
  <2> QED BY <1>2, <1>5, <2>1, <2>2
<1>6. CASE i \notin DOMAIN code \/ Whole[i].does \notin {"enters", "ecall"}
  <2>1. next = last
    BY <1>3, <1>6
  <2> HIDE DEF last, next
  <2> QED BY <1>1, <1>2, <1>6, <2>1
<1> QED BY <1>5, <1>6

(* What a handler skips is one or two halfwords.                           *)
LEMMA SkippedSmall == Skipped \in {1, 2} /\ Stepped \in {0, 1}
BY DEF Skipped, Stepped, Length

LEMMA TypedLayout == TypeOK => Layout
BY LayoutHolds DEF TypeOK, Types

(* The handler of PicoRV32 does not tell interrupts apart.                 *)
LEMMA OneOrTheOther ==
  ASSUME core \in Cores
  PROVE  ~(Has("interrupts") /\ Has("last"))
<1>1. core \in {"Rocket", "Spike", "Boom", "PicoRV32", "Ibex", "XiangShan", "CVA6", "Vex", "Kronos", "Srv32"}
  BY DEF Cores, Programs
<1>2. CASE core = "PicoRV32"
  <2>1. Programs[core] = {"last"}
    BY <1>2 DEF Programs, PicoProgram
  <2> QED BY <2>1 DEF Has
<1>3. CASE core # "PicoRV32"
  <2>1. Programs[core] \in {RocketProgram, SpikeProgram, BoomProgram, IbexProgram, XiangShanProgram,
                            Cva6Program, VexProgram, KronosProgram, Srv32Program}
    BY <1>1, <1>3 DEF Programs
  <2>2. /\ "last" \notin RocketProgram /\ "last" \notin SpikeProgram /\ "last" \notin BoomProgram
        /\ "last" \notin IbexProgram /\ "last" \notin XiangShanProgram /\ "last" \notin Cva6Program
        /\ "last" \notin VexProgram /\ "last" \notin KronosProgram /\ "last" \notin Srv32Program
    BY DEF RocketProgram, SpikeProgram, BoomProgram, IbexProgram, XiangShanProgram, Cva6Program,
           VexProgram, KronosProgram, Srv32Program
  <2> QED BY <2>1, <2>2 DEF Has
<1> QED BY <1>2, <1>3

-----------------------------------------------------------------------------
(* The steps.                                                              *)

LEMMA InitHolds == Init => IInv
<1> SUFFICES ASSUME Init PROVE IInv
  OBVIOUS
<1>1. core \in Cores /\ code \in Seq(Instruction)
  BY TestcasesAssumption DEF Init, Types
<1>2. TypeOK
  <2>1. [core |-> core, code |-> code] \in Types
    BY <1>1 DEF Types
  <2>2. Clear \in Csr
    BY DEF Clear, Csr
  <2>3. <<>> \in Seq(1 .. Len(Whole)) /\ <<>> \in Seq([cause : {1, 7, 9}, before : 1 .. Len(Whole)])
    OBVIOUS
  <2> QED BY <2>1, <2>2, <2>3 DEF Init, TypeOK
<1>3. Layout
  BY <1>2, TypedLayout
<1>4. AtFirst /\ InPlace /\ ExceptionHandled /\ InterruptHandled
  BY DEF Init, AtFirst, InPlace, ExceptionHandled, InterruptHandled
<1>5. DOMAIN log = {} /\ Range(log) = {} /\ Reached = 0
  BY DEF Init, Range, Reached
<1>6. Ascending
  BY <1>5 DEF Ascending
<1>7. NothingLost
  <2>1. \A i \in DOMAIN Whole : ~(End(i) <= 0)
    BY <1>3, Apart
  <2> QED BY <1>5, <2>1 DEF NothingLost, Init
<1>8. ModeKept
  <2>1. ~Asked
    BY <1>5 DEF Asked
  <2> QED BY <2>1 DEF ModeKept, Init, Clear, Wanted
<1> QED BY <1>2, <1>4, <1>6, <1>7, <1>8 DEF IInv

(* The parts that an instruction moves, whether it runs or traps.          *)
LEMMA ForwardKeeps ==
  ASSUME IInv, NEW i \in DOMAIN Whole, Current(i), log' = Append(log, i), Reached' = End(i),
         core' = core, code' = code, taken' = taken, state' # "astray"
  PROVE  Ascending' /\ NothingLost' /\ log' \in Seq(1 .. Len(Whole))
<1>1. Layout /\ TypeOK
  BY TypedLayout DEF IInv
<1>2. Reached = Start[i]
  BY DEF Current, Reached
<1>3. /\ log' \in Seq(1 .. Len(Whole))
      /\ Range(log') = Range(log) \cup {i}
      /\ \A j, k \in DOMAIN log' : j < k => log'[j] < log'[k]
      /\ \A k \in DOMAIN log' : End(log'[k]) <= End(i)
      /\ \A j \in DOMAIN Whole : End(j) <= End(i) => j = i \/ End(j) <= Start[i]
  BY <1>1, <1>2, Logged DEF IInv, TypeOK
<1>4. \A j : End(j)' = End(j)
  BY SameTestcase
<1>5. Whole' = Whole /\ (\A j : Loses(j)' = Loses(j)) /\ (\A t : Mistaken(t)' = Mistaken(t))
  BY SameTestcase
<1>6. Ascending'
  BY <1>3, <1>4 DEF Ascending
<1>7. NothingLost'
  <2> SUFFICES ASSUME NoneMistaken', NEW j \in DOMAIN Whole, End(j) <= Reached'
               PROVE  j \in Range(log') \/ \E t \in Range(taken) : t.before = j /\ Loses(j)
    BY <1>4, <1>5 DEF NothingLost
  <2>1. NoneMistaken
    BY <1>5 DEF NoneMistaken
  <2>2. CASE j = i
    BY <1>3, <2>2
  <2>3. CASE End(j) <= Start[i]
    BY <1>2, <1>3, <2>1, <2>3 DEF IInv, NothingLost
  <2> QED BY <1>3, <2>2, <2>3
<1> QED BY <1>3, <1>6, <1>7

(* Nothing returns to the boot code.                                       *)
LEMMA BootLeft ==
  ASSUME [Next]_vars, AtFirst
  PROVE  AtFirst'
BY DEF AtFirst, Next, vars, Boot, Return, Execute, Raise, Interrupt, Trap

LEMMA ExecuteStep ==
  ASSUME IInv, NEW i \in 1 .. Len(code) + 1, Execute(i)
  PROVE  IInv'
<1>1. Layout /\ TypeOK /\ i \in DOMAIN Whole
  BY TypedLayout DEF IInv, Layout
<1>2. /\ Current(i) /\ log' = Append(log, i) /\ at' = End(i) /\ state' # "astray" /\ state' # "handler"
      /\ core' = core /\ code' = code /\ taken' = taken /\ csr' = csr /\ state = "user" /\ at = Start[i]
  BY DEF Execute, Current, End
<1>3. Whole' = Whole /\ Start' = Start
  BY <1>2, SameTestcase
<1>4. Reached' = End(i)
  BY <1>2 DEF Reached
<1>5. Ascending' /\ NothingLost' /\ log' \in Seq(1 .. Len(Whole))
  BY <1>1, <1>2, <1>4, ForwardKeeps
<1>6. TypeOK'
  <2>1. End(i) \in Nat
    BY <1>1 DEF Layout
  <2> QED BY <1>1, <1>2, <1>3, <1>5, <2>1 DEF TypeOK, Execute
<1>7. InPlace' /\ ExceptionHandled' /\ InterruptHandled'
  <2>1. state' = "user" => i # Len(Whole)
    BY <1>1 DEF Execute, Layout, Report
  <2>2. state' = "user" => i + 1 \in DOMAIN Whole /\ Start[i + 1] = End(i)
    BY <1>1, <2>1 DEF Layout
  <2> QED BY <1>2, <1>3, <2>2 DEF InPlace, ExceptionHandled, InterruptHandled
<1>8. ModeKept'
  <2>1. Range(log') = Range(log) \cup {i} /\ \A j \in Range(log) : j < i
    BY <1>1, <1>2, Logged DEF IInv, TypeOK, Reached
  <2>2. /\ i \in DOMAIN code /\ Whole[i].does = "enters" => Asked'
        /\ i \notin DOMAIN code \/ Whole[i].does \notin {"enters", "ecall"} => (Asked' <=> Asked)
    BY <1>1, <1>2, <2>1, AskedNext
  <2>3. Whole[i].does # "ecall" /\ (Whole[i].does = "enters" => Has("switches") /\ i \in DOMAIN code)
    <3>1. Runs(i)
      BY DEF Execute
    <3>2. i \notin DOMAIN code => Whole[i].does = "reports"
      BY <1>1 DEF Layout, Report
    <3> QED BY <3>1, <3>2 DEF Runs
  <2>4. mode' = IF Whole[i].does = "enters" THEN "S" ELSE mode
    BY DEF Execute
  <2>5. Has("switches")' = Has("switches")
    BY <1>2 DEF Has
  <2>6. state' \in {"user", "spin"}
    BY DEF Execute
  <2>7. (\A t \in Range(taken) : t.cause # 9) => mode = Wanted
    BY <1>2 DEF IInv, ModeKept
  <2>8. Wanted' = mode' \/ ~(\A t \in Range(taken) : t.cause # 9)
    BY <2>2, <2>3, <2>4, <2>7 DEF Wanted
  <2>9. mode' = "S" \/ csr'.mpp = "S" => Has("switches")
    BY <1>2, <2>3, <2>4 DEF IInv, ModeKept
  <2> QED BY <1>2, <2>5, <2>6, <2>8, <2>9 DEF ModeKept
<1> QED BY <1>5, <1>6, <1>7, <1>8, BootLeft DEF IInv, Next

LEMMA BootStep ==
  ASSUME IInv, Boot
  PROVE  IInv'
<1>1. Layout /\ TypeOK
  BY TypedLayout DEF IInv
<1>2. /\ UNCHANGED <<core, code, at, mode, csr, log, taken>> /\ state = "boot" /\ state' = "user"
      /\ enabled' = Has("floats")
  BY DEF Boot
<1>3. /\ Whole' = Whole /\ Start' = Start
      /\ (\A i : End(i)' = End(i)) /\ (\A i : Loses(i)' = Loses(i))
      /\ (\A t : Mistaken(t)' = Mistaken(t))
  BY <1>2, SameTestcase
<1>4. Reached' = Reached
  BY <1>2 DEF Reached
<1>5. TypeOK'
  BY <1>1, <1>2, <1>3 DEF TypeOK, Has
<1>6. InPlace' /\ ExceptionHandled' /\ InterruptHandled'
  <2>1. at = Start[1] /\ 1 \in DOMAIN Whole
    BY <1>1, <1>2 DEF IInv, AtFirst, Layout
  <2> QED BY <1>2, <1>3, <2>1 DEF InPlace, ExceptionHandled, InterruptHandled
<1>7. Ascending'
  BY <1>2, <1>3, <1>4 DEF IInv, Ascending
<1>8. NothingLost'
  BY <1>2, <1>3, <1>4 DEF IInv, NothingLost, NoneMistaken
<1>9. ModeKept'
  <2>1. Wanted' = Wanted /\ Has("switches")' = Has("switches")
    BY <1>2 DEF Wanted, Asked, Has
  <2> QED BY <1>2, <2>1 DEF IInv, ModeKept
<1> QED BY <1>2, <1>5, <1>6, <1>7, <1>8, <1>9 DEF IInv, AtFirst

LEMMA RaiseStep ==
  ASSUME IInv, NEW i \in 1 .. Len(code) + 1, Raise(i)
  PROVE  IInv'
<1>1. Layout /\ TypeOK /\ i \in DOMAIN Whole
  BY TypedLayout DEF IInv, Layout
<1>2. PICK cause \in Causes(i), mtval \in {Bits(at), "0"} :
         /\ cause = 2 /\ ~Has("checks") => mtval = Bits(at)
         /\ Trap(cause, FALSE, mtval)
  BY DEF Raise
<1>3. /\ Current(i) /\ ~Runs(i) /\ log' = Append(log, i) /\ at' = at /\ state' = "handler"
      /\ core' = core /\ code' = code /\ taken' = taken /\ state = "user" /\ at = Start[i]
      /\ csr' = [epc |-> at, cause |-> cause, interrupt |-> FALSE, mtval |-> mtval, mpp |-> mode]
      /\ mode' = "M" /\ enabled' = enabled
  BY <1>2 DEF Raise, Current, Trap
<1>4. /\ Whole' = Whole /\ Start' = Start /\ (\A a : Bits(a)' = Bits(a))
      /\ (\A what : Has(what)' = Has(what))
  BY <1>3, SameTestcase
<1>5. /\ cause \in {2, 3, 5, 9, 11, 13} /\ cause \in Nat
      /\ Whole[i].does \notin {"runs", "enters", "reports"}
      /\ cause = 9 => Whole[i].does = "ecall" /\ mode = "S"
      /\ cause = 11 => Whole[i].does = "ecall" /\ mode = "M"
      /\ cause \notin {9, 11} => Whole[i].does # "ecall"
  <2>1. Whole[i].does \in Kinds /\ mode \in {"M", "S"}
    BY <1>1 DEF Layout, Instruction, TypeOK
  <2>2. CASE Whole[i].does \in {"illegal", "floats"}
    BY <2>2 DEF Causes
  <2>3. CASE Whole[i].does = "ecall"
    BY <2>1, <2>3 DEF Causes
  <2>4. CASE Whole[i].does = "faults"
    BY <2>1, <2>4 DEF Causes
  <2>5. CASE Whole[i].does \in {"runs", "enters", "reports"}
    BY <2>5 DEF Causes
  <2> QED BY <2>1, <2>2, <2>3, <2>4, <2>5 DEF Kinds
<1>6. i \in DOMAIN code
  <2>1. i # Len(Whole)
    BY <1>1, <1>5 DEF Layout, Report
  <2> QED BY <1>1, <2>1 DEF Layout
<1>7. Skipped' = Whole[i].size
  <2>1. Length(Bits(at)) = Whole[i].size
    BY <1>1, <1>3, SizeTold
  <2>2. Skipped' = CASE cause = 9 /\ Has("switches") -> 2
                     [] cause \in {1, 12} /\ Has("skips 2") -> 1
                     [] cause \in {1, 12} /\ Has("skips 4") -> 2
                     [] cause = 2 /\ ~Has("last") /\ ~(Has("checks") /\ mtval = "0") -> Length(mtval)
                     [] OTHER -> Length(Bits(at))
    BY <1>3, <1>4 DEF Skipped, Has, Bits, Length
  <2>3. CASE cause = 9 /\ Has("switches")
    <3>1. Whole[i].size = 2
      BY <1>1, <1>5, <2>3 DEF Layout, Instruction
    <3> QED BY <2>2, <2>3, <3>1
  <2>4. CASE cause = 2 /\ ~Has("last") /\ ~(Has("checks") /\ mtval = "0")
    <3>1. mtval = Bits(at)
      BY <1>2, <2>4
    <3> QED BY <2>1, <2>2, <2>4, <3>1
  <2>5. CASE /\ ~(cause = 9 /\ Has("switches"))
             /\ ~(cause = 2 /\ ~Has("last") /\ ~(Has("checks") /\ mtval = "0"))
    <3>1. cause \notin {1, 12}
      BY <1>5 DEF Causes
    <3>2. Skipped' = Length(Bits(at))
      BY <2>2, <2>5, <3>1, Zenon
    <3> QED BY <2>1, <3>2
  <2> QED BY <2>3, <2>4, <2>5
<1>8. Reached' = End(i)
  BY <1>3, <1>7 DEF Reached, End
<1>9. Ascending' /\ NothingLost' /\ log' \in Seq(1 .. Len(Whole))
  BY <1>1, <1>3, <1>8, ForwardKeeps
<1>10. TypeOK'
  <2>1. at \in Int /\ mode \in {"M", "S"} /\ mtval \in {"11", "other", "0"}
    BY <1>1 DEF TypeOK, Bits
  <2>2. csr' \in Csr
    BY <1>3, <1>5, <2>1 DEF Csr
  <2> QED BY <1>1, <1>3, <1>4, <1>9, <2>2 DEF TypeOK
<1>11. InPlace' /\ ExceptionHandled' /\ InterruptHandled'
  BY <1>1, <1>3, <1>4, <1>6, <1>7 DEF InPlace, ExceptionHandled, InterruptHandled
<1>12. ModeKept'
  <2>1. Range(log') = Range(log) \cup {i} /\ \A j \in Range(log) : j < i
    BY <1>1, <1>3, Logged DEF IInv, TypeOK, Reached
  <2>2. /\ Whole[i].does = "ecall" => ~Asked'
        /\ Whole[i].does # "ecall" => (Asked' <=> Asked)
    BY <1>1, <1>3, <1>5, <1>6, <2>1, AskedNext
  <2>3. (\A t \in Range(taken) : t.cause # 9) => mode = Wanted
    BY <1>3 DEF IInv, ModeKept
  <2>4. mode = "S" => Has("switches")
    BY DEF IInv, ModeKept
  <2>5. ModeAfter' = IF cause = 9 /\ Has("switches") THEN "M" ELSE mode
    BY <1>3, <1>4 DEF ModeAfter, Has
  <2>6. (\A t \in Range(taken) : t.cause # 9) => ModeAfter' = Wanted'
    BY <1>5, <2>2, <2>3, <2>4, <2>5 DEF Wanted
  <2>7. mode' = "S" \/ csr'.mpp = "S" => Has("switches")
    BY <1>3, <2>4
  <2>8. Has("switches")' = Has("switches")
    BY <1>4
  <2> QED BY <1>3, <2>6, <2>7, <2>8 DEF ModeKept
<1> QED BY <1>9, <1>10, <1>11, <1>12, BootLeft DEF IInv, Next

LEMMA InterruptStep ==
  ASSUME IInv, NEW i \in 1 .. Len(code) + 1, Interrupt(i)
  PROVE  IInv'
<1>1. Layout /\ TypeOK /\ i \in DOMAIN Whole
  BY TypedLayout DEF IInv, Layout
<1>2. PICK cause \in Interrupts :
         /\ Trap(cause, TRUE, "0")
         /\ taken' = Append(taken, [cause |-> cause, before |-> i])
  BY DEF Interrupt
<1> DEFINE new == [cause |-> cause, before |-> i]
<1>3. /\ Current(i) /\ log' = log /\ at' = at /\ state' = "handler"
      /\ core' = core /\ code' = code /\ state = "user" /\ at = Start[i]
      /\ csr' = [epc |-> at, cause |-> cause, interrupt |-> TRUE, mtval |-> "0", mpp |-> mode]
      /\ mode' = "M" /\ enabled' = enabled
  BY <1>2 DEF Interrupt, Current, Trap
<1>4. /\ Whole' = Whole /\ Start' = Start
      /\ (\A j : End(j)' = End(j)) /\ (\A j : Loses(j)' = Loses(j))
      /\ (\A t : Mistaken(t)' = Mistaken(t)) /\ (\A what : Has(what)' = Has(what))
  BY <1>3, SameTestcase
<1>5. cause \in {1, 7, 9}
  BY DEF Interrupts
<1>6. /\ taken' \in Seq([cause : {1, 7, 9}, before : 1 .. Len(Whole)])
      /\ taken' # <<>> /\ taken'[Len(taken')] = new
      /\ Range(taken') = Range(taken) \cup {new}
  <2>1. new \in [cause : {1, 7, 9}, before : 1 .. Len(Whole)]
    BY <1>1, <1>5 DEF Layout
  <2>2. taken \in Seq([cause : {1, 7, 9}, before : 1 .. Len(Whole)]) /\ taken' = Append(taken, new)
    BY <1>1, <1>2 DEF TypeOK
  <2> HIDE DEF new
  <2> DEFINE T == [cause : {1, 7, 9}, before : 1 .. Len(Whole)]
  <2> SUFFICES /\ Append(taken, new) \in Seq(T)
               /\ Append(taken, new) # <<>> /\ Append(taken, new)[Len(Append(taken, new))] = new
               /\ Range(Append(taken, new)) = Range(taken) \cup {new}
    BY <2>2
  <2>3. new \in T /\ taken \in Seq(T)
    BY <2>1, <2>2
  <2> HIDE DEF T
  <2>4. Range(Append(taken, new)) = Range(taken) \cup {new}
    BY <2>3, RangeAppend
  <2> QED BY <2>3, <2>4, AppendProperties, LenProperties
<1>7. Reached' = Reached /\ Reached = at
  BY <1>3 DEF Reached
<1>8. TypeOK'
  <2>1. at \in Int /\ mode \in {"M", "S"}
    BY <1>1 DEF TypeOK
  <2>2. csr' \in Csr
    BY <1>3, <1>5, <2>1 DEF Csr
  <2> QED BY <1>1, <1>3, <1>4, <1>6, <2>2 DEF TypeOK
<1>9. InPlace' /\ ExceptionHandled' /\ InterruptHandled'
  BY <1>1, <1>3, <1>4, <1>6 DEF InPlace, ExceptionHandled, InterruptHandled
<1>10. Ascending'
  BY <1>3, <1>4, <1>7 DEF IInv, Ascending
<1>11. NothingLost'
  <2>1. NoneMistaken' => NoneMistaken
    BY <1>4, <1>6 DEF NoneMistaken
  <2> QED BY <1>3, <1>4, <1>6, <1>7, <2>1 DEF IInv, NothingLost
<1>12. ModeKept'
  <2>1. Wanted' = Wanted
    BY <1>3 DEF Wanted, Asked
  <2>2. (\A t \in Range(taken') : t.cause # 9) =>
           (\A t \in Range(taken) : t.cause # 9) /\ cause # 9
    BY <1>6
  <2>3. ModeAfter' = IF cause = 9 /\ Has("switches") THEN "M" ELSE mode
    BY <1>3, <1>4 DEF ModeAfter, Has
  <2>4. (\A t \in Range(taken) : t.cause # 9) => mode = Wanted
    BY <1>3 DEF IInv, ModeKept
  <2>5. mode = "S" => Has("switches")
    BY DEF IInv, ModeKept
  <2>6. Has("switches")' = Has("switches")
    BY <1>4
  <2> QED BY <1>3, <2>1, <2>2, <2>3, <2>4, <2>5, <2>6 DEF ModeKept
<1> QED BY <1>8, <1>9, <1>10, <1>11, <1>12, BootLeft DEF IInv, Next

(* A handler returns behind the instruction of an exception. An interrupt  *)
(* that is not mistaken costs the instruction it came before, if any.      *)
LEMMA ReturnsTo ==
  ASSUME IInv, state = "handler"
  PROVE  /\ Resumed \in Nat /\ Resumed >= Reached /\ Reached \in Nat
         /\ ~csr.interrupt => Resumed = Reached /\ \E i \in DOMAIN Whole : Start[i] = Resumed
         /\ csr.interrupt /\ NoneMistaken =>
              \E t \in Range(taken) :
                 /\ t.before \in DOMAIN Whole /\ Reached = Start[t.before]
                 /\ Resumed = Reached \/ (Resumed = End(t.before) /\ Loses(t.before))
<1>1. Layout /\ TypeOK /\ csr.epc = at /\ at \in Nat /\ csr.interrupt \in BOOLEAN /\ core \in Cores
  BY TypedLayout DEF IInv, InPlace, TypeOK, Csr, Types
<1>2. Skipped \in {1, 2} /\ Stepped \in {0, 1}
  BY SkippedSmall
<1>3. Resumed \in Nat /\ Resumed >= at
  <2>1. Resumed = at + (IF csr.interrupt /\ Has("interrupts") THEN Stepped
                        ELSE IF csr.interrupt /\ Has("last") THEN 0 ELSE Skipped)
    BY <1>1 DEF Resumed
  <2> QED BY <1>1, <1>2, <2>1
<1>4. CASE ~csr.interrupt
  <2>1. Resumed = at + Skipped /\ Reached = at + Skipped
    BY <1>1, <1>4 DEF Resumed, Reached
  <2>2. PICK i \in DOMAIN code : at = Start[i] /\ Skipped = Whole[i].size
    BY <1>4 DEF IInv, ExceptionHandled
  <2>3. i \in DOMAIN Whole /\ i # Len(Whole)
    BY <1>1 DEF Layout
  <2>4. i + 1 \in DOMAIN Whole /\ Start[i + 1] = at + Skipped
    BY <1>1, <2>2, <2>3 DEF Layout, End
  <2> QED BY <1>1, <1>2, <1>4, <2>1, <2>4
<1>5. CASE csr.interrupt
  <2>1. Reached = at
    BY <1>5 DEF Reached
  <2> SUFFICES ASSUME NoneMistaken
               PROVE  \E t \in Range(taken) :
                         /\ t.before \in DOMAIN Whole /\ Reached = Start[t.before]
                         /\ Resumed = Reached \/ (Resumed = End(t.before) /\ Loses(t.before))
    BY <1>1, <1>3, <1>5, <2>1
  <2> DEFINE t == taken[Len(taken)]
             i == t.before
  <2>2. /\ taken \in Seq([cause : {1, 7, 9}, before : 1 .. Len(Whole)])
        /\ taken # <<>> /\ t.cause = csr.cause /\ i \in DOMAIN Whole /\ at = Start[i]
    BY <1>1, <1>5 DEF IInv, InterruptHandled, TypeOK
  <2>3. Len(taken) \in DOMAIN taken /\ t \in [cause : {1, 7, 9}, before : 1 .. Len(Whole)]
    <3> DEFINE T == [cause : {1, 7, 9}, before : 1 .. Len(Whole)]
    <3>1. taken \in Seq(T) /\ taken # <<>>
      BY <2>2
    <3> HIDE DEF T
    <3>2. Len(taken) \in 1 .. Len(taken) /\ DOMAIN taken = 1 .. Len(taken)
      BY <3>1, LenProperties, EmptySeq
    <3>3. t \in T
      BY <3>1, <3>2, ElementOfSeq
    <3> QED BY <3>2, <3>3 DEF T
  <2>4. t \in Range(taken) /\ csr.cause \in {1, 7, 9}
    BY <2>2, <2>3 DEF Range
  <2>5. ~(csr.cause = 9 /\ Has("switches"))
        /\ ~(csr.cause = 1 /\ Has("skips 2")) /\ ~(csr.cause = 1 /\ Has("skips 4"))
    <3>1. ~Mistaken(t)
      BY <2>4 DEF NoneMistaken
    <3> QED BY <2>2, <3>1 DEF Mistaken
  <2> HIDE DEF t
  <2>6. CASE Has("interrupts")
    <3>1. Resumed = at + Stepped
      BY <1>1, <1>5, <2>6 DEF Resumed
    <3>2. ~Has("last")
      BY <1>1, <2>6, OneOrTheOther
    <3>3. CASE Stepped = 0
      BY <1>1, <2>1, <2>2, <2>4, <3>1, <3>3
    <3>4. CASE Stepped = 1
      <4>1. Bits(Start[i]) # "11" /\ Bits(Start[i] - 1) = "11"
        BY <1>1, <2>2, <3>4 DEF Stepped
      <4>2. Whole[i].size = 1
        BY <1>1, <2>2, <4>1, SizeTold DEF Length
      <4>3. i > 1 /\ Whole[i - 1].size = 2 /\ Whole[i - 1].tail
        BY <1>1, <2>2, <4>1, TailBefore
      <4>4. Loses(i) /\ Resumed = End(i)
        BY <2>2, <3>1, <3>2, <3>4, <4>2, <4>3 DEF Loses, End
      <4> QED BY <2>1, <2>2, <2>4, <4>4
    <3> QED BY <1>2, <3>3, <3>4
  <2>7. CASE ~Has("interrupts") /\ Has("last")
    <3>1. Resumed = at
      BY <1>1, <1>5, <2>7 DEF Resumed
    <3> QED BY <2>1, <2>2, <2>4, <3>1
  <2>8. CASE ~Has("interrupts") /\ ~Has("last")
    <3>1. Resumed = at + Skipped
      BY <1>1, <1>5, <2>8 DEF Resumed
    <3>2. ~(csr.cause \in {1, 12} /\ Has("skips 2")) /\ ~(csr.cause \in {1, 12} /\ Has("skips 4"))
          /\ ~(csr.cause = 2)
      <4>1. csr.cause # 2 /\ (csr.cause \in {1, 12} => csr.cause = 1)
        BY <2>4
      <4> QED BY <2>5, <4>1, Zenon
    <3>3. Skipped = Length(Bits(at))
      BY <1>1, <2>5, <3>2 DEF Skipped
    <3>4. Skipped = Whole[i].size
      BY <1>1, <2>2, <3>3, SizeTold
    <3>5. Loses(i) /\ Resumed = End(i)
      BY <2>2, <2>8, <3>1, <3>4 DEF Loses, End
    <3> QED BY <2>1, <2>2, <2>4, <3>5
  <2> QED BY <2>6, <2>7, <2>8
<1> QED BY <1>1, <1>4, <1>5

LEMMA ReturnStep ==
  ASSUME IInv, Return
  PROVE  IInv'
<1>1. Layout /\ TypeOK
  BY TypedLayout DEF IInv
<1>2. /\ UNCHANGED <<core, code, enabled, log, taken>> /\ state = "handler"
      /\ at' = Resumed /\ mode' = ModeAfter
      /\ csr' = [csr EXCEPT !.epc = Resumed, !.cause = 0, !.interrupt = FALSE, !.mtval = "0"]
      /\ state' \in {"user", "spin", "astray"}
      /\ state' = "user" <=> \E i \in DOMAIN Whole : Start[i] = Resumed
      /\ state' = "astray" => Resumed # Start[Len(Whole)] + Report.size
  BY DEF Return
<1>3. /\ Whole' = Whole /\ Start' = Start
      /\ (\A j : End(j)' = End(j)) /\ (\A j : Loses(j)' = Loses(j))
      /\ (\A t : Mistaken(t)' = Mistaken(t)) /\ (\A what : Has(what)' = Has(what))
  BY <1>2, SameTestcase
<1>4. Reached' = Resumed
  BY <1>2 DEF Reached
<1>5. Resumed \in Nat /\ Resumed >= Reached /\ Reached \in Nat
  BY <1>2, ReturnsTo
<1>6. TypeOK'
  <2>1. csr \in Csr /\ csr.mpp \in {"M", "S"}
    BY <1>1 DEF TypeOK, Csr
  <2>2. csr' \in Csr
    <3>1. csr' = [epc |-> Resumed, cause |-> 0, interrupt |-> FALSE, mtval |-> "0", mpp |-> csr.mpp]
      BY <1>2, <2>1 DEF Csr
    <3>2. Resumed \in Int
      BY <1>5
    <3> QED BY <2>1, <3>1, <3>2 DEF Csr
  <2>3. ModeAfter \in {"M", "S"}
    BY <2>1 DEF ModeAfter
  <2> QED BY <1>1, <1>2, <1>3, <1>5, <2>2, <2>3 DEF TypeOK
<1>7. InPlace' /\ ExceptionHandled' /\ InterruptHandled'
  <2>1. state' # "handler"
    BY <1>2
  <2>2. state' = "user" => \E i \in DOMAIN Whole : at' = Start[i]
    BY <1>2
  <2> QED BY <1>3, <2>1, <2>2 DEF InPlace, ExceptionHandled, InterruptHandled
<1>8. Ascending'
  <2>1. \A k \in DOMAIN log : End(log[k]) <= Resumed
    <3> SUFFICES ASSUME NEW k \in DOMAIN log PROVE End(log[k]) <= Resumed
      OBVIOUS
    <3>1. log[k] \in DOMAIN Whole
      BY <1>1, ElementOfSeq, LenProperties DEF TypeOK, Layout
    <3>2. End(log[k]) <= Reached /\ End(log[k]) \in Nat
      BY <1>1, <3>1 DEF IInv, Ascending, Layout
    <3> QED BY <1>5, <3>2
  <2> QED BY <1>2, <1>3, <1>4, <2>1 DEF IInv, Ascending
<1>9. NothingLost'
  <2> SUFFICES ASSUME NoneMistaken
               PROVE  /\ state' # "astray"
                      /\ \A j \in DOMAIN Whole :
                           End(j) <= Resumed => \/ j \in Range(log)
                                                \/ \E t \in Range(taken) : t.before = j /\ Loses(j)
    BY <1>2, <1>3, <1>4 DEF NothingLost, NoneMistaken
  <2>1. \A j \in DOMAIN Whole :
          End(j) <= Reached => j \in Range(log) \/ \E t \in Range(taken) : t.before = j /\ Loses(j)
    BY DEF IInv, NothingLost
  <2>2. CASE Resumed = Reached /\ \E i \in DOMAIN Whole : Start[i] = Resumed
    BY <1>2, <2>1, <2>2
  <2>3. CASE csr.interrupt
    <3>1. PICK t \in Range(taken) :
            /\ t.before \in DOMAIN Whole /\ Reached = Start[t.before]
            /\ Resumed = Reached \/ (Resumed = End(t.before) /\ Loses(t.before))
      BY <1>2, <2>3, ReturnsTo
    <3>2. CASE Resumed = Reached
      BY <2>2, <3>1, <3>2
    <3>3. CASE Resumed = End(t.before) /\ Loses(t.before)
      <4>1. state' # "astray"
        <5>1. CASE t.before = Len(Whole)
          <6>1. End(t.before) = Start[Len(Whole)] + Report.size
            BY <1>1, <5>1 DEF End, Layout
          <6> QED BY <1>2, <3>3, <6>1
        <5>2. CASE t.before # Len(Whole)
          <6>1. t.before + 1 \in DOMAIN Whole /\ Start[t.before + 1] = End(t.before)
            BY <1>1, <3>1, <5>2 DEF Layout
          <6> QED BY <1>2, <3>3, <6>1
        <5> QED BY <5>1, <5>2
      <4>2. ASSUME NEW j \in DOMAIN Whole, End(j) <= Resumed
            PROVE  j = t.before \/ End(j) <= Reached
        <5> DEFINE i == t.before
        <5>1. i \in DOMAIN Whole /\ Reached = Start[i] /\ Resumed = End(i)
          BY <3>1, <3>3
        <5> HIDE DEF i
        <5>2. j = i \/ End(j) <= Reached
          BY <1>1, <4>2, <5>1, Apart
        <5> QED BY <5>2 DEF i
      <4> QED BY <2>1, <3>1, <3>3, <4>1, <4>2
    <3> QED BY <3>1, <3>2, <3>3
  <2>4. csr.interrupt \in BOOLEAN
    BY <1>1 DEF TypeOK, Csr
  <2> QED BY <1>2, <2>2, <2>3, <2>4, ReturnsTo
<1>10. ModeKept'
  <2>1. Wanted' = Wanted /\ Has("switches")' = Has("switches")
    BY <1>2 DEF Wanted, Asked, Has
  <2>2. (\A t \in Range(taken) : t.cause # 9) => ModeAfter = Wanted
    BY <1>2 DEF IInv, ModeKept
  <2>3. csr'.mpp = csr.mpp
    BY <1>1, <1>2 DEF TypeOK, Csr
  <2>4. ModeAfter = "S" => csr.mpp = "S"
    BY DEF ModeAfter
  <2>5. csr.mpp = "S" => Has("switches")
    BY DEF IInv, ModeKept
  <2> QED BY <1>2, <2>1, <2>2, <2>3, <2>4, <2>5 DEF ModeKept
<1> QED BY <1>6, <1>7, <1>8, <1>9, <1>10, BootLeft DEF IInv, Next

LEMMA StutterStep ==
  ASSUME IInv, UNCHANGED vars
  PROVE  IInv'
<1>1. UNCHANGED <<core, code, state, at, mode, enabled, csr, log, taken>>
  BY DEF vars
<1>2. /\ Whole' = Whole /\ Start' = Start
      /\ (\A j : End(j)' = End(j)) /\ (\A j : Loses(j)' = Loses(j))
      /\ (\A t : Mistaken(t)' = Mistaken(t)) /\ (\A what : Has(what)' = Has(what))
      /\ (\A a : Bits(a)' = Bits(a))
  BY <1>1, SameTestcase
<1>3. Skipped' = Skipped /\ ModeAfter' = ModeAfter /\ Wanted' = Wanted
  <2>1. Skipped' = Skipped
    BY <1>1, <1>2 DEF Skipped, Has, Bits
  <2>2. ModeAfter' = ModeAfter
    BY <1>1 DEF ModeAfter, Has
  <2>3. Wanted' = Wanted
    BY <1>1 DEF Wanted, Asked
  <2> QED BY <2>1, <2>2, <2>3
<1>4. Reached' = Reached
  BY <1>1, <1>3 DEF Reached
<1>5. TypeOK' /\ AtFirst' /\ InPlace'
  BY <1>1, <1>2 DEF IInv, TypeOK, AtFirst, InPlace
<1>6. ExceptionHandled' /\ InterruptHandled'
  BY <1>1, <1>2, <1>3 DEF IInv, ExceptionHandled, InterruptHandled
<1>7. Ascending' /\ NothingLost'
  BY <1>1, <1>2, <1>4 DEF IInv, Ascending, NothingLost, NoneMistaken
<1>8. ModeKept'
  <2>1. Has("switches")' = Has("switches")
    BY <1>2
  <2> QED BY <1>1, <1>3, <2>1 DEF IInv, ModeKept
<1> QED BY <1>5, <1>6, <1>7, <1>8 DEF IInv

LEMMA NextHolds == IInv /\ [Next]_vars => IInv'
<1> SUFFICES ASSUME IInv, [Next]_vars PROVE IInv'
  OBVIOUS
<1>1. CASE Boot
  BY <1>1, BootStep
<1>2. CASE Return
  BY <1>2, ReturnStep
<1>3. ASSUME NEW i \in 1 .. Len(code) + 1, Execute(i) PROVE IInv'
  BY <1>3, ExecuteStep
<1>4. ASSUME NEW i \in 1 .. Len(code) + 1, Raise(i) PROVE IInv'
  BY <1>4, RaiseStep
<1>5. ASSUME NEW i \in 1 .. Len(code) + 1, Interrupt(i) PROVE IInv'
  BY <1>5, InterruptStep
<1>6. CASE UNCHANGED vars
  BY <1>6, StutterStep
<1> QED BY <1>1, <1>2, <1>3, <1>4, <1>5, <1>6 DEF Next

LEMMA IInvHolds == Spec => []IInv
BY InitHolds, NextHolds, PTL DEF Spec

-----------------------------------------------------------------------------
(* The theorems.                                                           *)

(* impls/*/config.rs: the registers of a trap, the program counter and the *)
(* log keep their types, for any testcase.                                 *)
THEOREM TypeCorrect == Spec => []TypeOK
<1>1. IInv => TypeOK
  BY DEF IInv
<1> QED BY <1>1, IInvHolds, PTL

(* trap_handler: on every core, a testcase of any length is run in order   *)
(* and once, whatever traps; only an interrupt loses an instruction, and   *)
(* only a mistaken one makes the program go on elsewhere.                  *)
THEOREM OrderedHolds == Spec => []Ordered
<1>1. IInv => Ordered
  <2> SUFFICES ASSUME IInv PROVE Ordered
    OBVIOUS
  <2>1. state \in {"user", "spin"} => Reached = at
    BY DEF Reached
  <2>2. \A i \in DOMAIN Whole : End(i) = Start[i] + Whole[i].size
    BY DEF End
  <2> QED BY <2>1, <2>2 DEF IInv, Ascending, NothingLost, NoneMistaken, Ordered, Passed
<1> QED BY <1>1, IInvHolds, PTL

(* switch_to_s_mode and trap_handler: an instruction runs in the mode that *)
(* the calls before it have asked for, whatever traps in between.          *)
THEOREM RightModeHolds == Spec => []RightMode
<1>1. IInv => RightMode
  BY DEF IInv, ModeKept, RightMode, Wanted
<1> QED BY <1>1, IInvHolds, PTL
=============================================================================

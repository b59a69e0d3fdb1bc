---------------------------- MODULE TracesProofs ----------------------------
(***************************************************************************)
(* Theorems about Traces, for executions of any length on every simulator  *)
(* and disassemblies of any length.                                        *)
(***************************************************************************)
EXTENDS Traces, FiniteSetTheorems, SequenceTheorems, WellFoundedInduction, TLAPS

(* Sets of natural numbers have a least element.                           *)
LEMMA LeastNumber ==
  ASSUME NEW T \in SUBSET Nat, T # {}
  PROVE  \E x \in T : \A y \in T : x <= y
  <1> DEFINE R == OpToRel(<, Nat)
  <1>1. IsWellFoundedOn(R, Nat)
    BY NatLessThanWellFounded
  <1>2. PICK x \in T : \A y \in T : ~(<<y, x>> \in R)
    <2> HIDE DEF R
    <2> QED BY <1>1, WFMin
  <1>3. \A y \in T : ~(y < x)
    BY <1>2 DEF OpToRel
  <1>4. QED BY <1>3

(* A set with 0 and the successors of its numbers holds all numbers.       *)
LEMMA Induction ==
  ASSUME NEW T, 0 \in T, \A n \in Nat : n \in T => n + 1 \in T
  PROVE  \A n \in Nat : n \in T
  <1> DEFINE Missing == Nat \ T
  <1> SUFFICES ASSUME Missing # {} PROVE FALSE
    OBVIOUS
  <1>1. PICK x \in Missing : \A y \in Missing : x <= y
    <2>1. Missing \in SUBSET Nat
      OBVIOUS
    <2> HIDE DEF Missing
    <2>2. QED BY <2>1, LeastNumber
  <1>2. x \in Nat /\ x \notin T
    OBVIOUS
  <1>3. x # 0
    BY <1>2
  <1>4. x - 1 \in Nat /\ ~(x <= x - 1)
    BY <1>2, <1>3
  <1>5. x - 1 \in T
    BY <1>1, <1>4
  <1>6. (x - 1) + 1 \in T
    BY <1>4, <1>5
  <1>7. QED BY <1>2, <1>6

-----------------------------------------------------------------------------
(* The reading of the disassembly.                                         *)

Lines == config.dump
Read  == Len(Lines) - Len(dump)

(* What has been found out when some lines are read: the instructions whose *)
(* source line is among them, the one that the next line belongs to, and   *)
(* the addresses that belong to one.                                       *)
FoundRight(at)  == \A i \in DOMAIN texts : i \in found <=> at[i] <= Read
ActiveRight(at) == \A i \in DOMAIN texts : active = i <=> Follows(config, at, Read + 1, i)
Belong(at, n, m) ==
  \E j \in 1..n, i \in DOMAIN texts :
    Lines[j].k = "pc" /\ Follows(config, at, j, i) /\ m = <<Lines[j].pc, i>>
PcsRight(at) == \A m : m \in pcOf <=> Belong(at, Read, m)

Mapping ==
  /\ config \in Configs /\ texts = config.texts
  /\ dump \in Seq(DumpLines) /\ Len(dump) <= Len(Lines)
  /\ \A j \in 1..Len(dump) : dump[j] = Lines[Read + j]
  /\ found \subseteq DOMAIN texts
  /\ \A i \in found : \E j \in DOMAIN Lines : Lines[j] = Source(texts[i])
  /\ active \in DOMAIN texts \cup {NoInst}
  /\ \A at \in [DOMAIN texts -> DOMAIN Lines] :
       Disassembled(config, at) => FoundRight(at) /\ ActiveRight(at) /\ PcsRight(at)

(* A line belongs to one instruction.                                      *)
LEMMA FollowsOne ==
  ASSUME NEW c \in Configs, NEW at \in [DOMAIN c.texts -> DOMAIN c.dump], Disassembled(c, at),
         NEW j \in Nat, NEW i \in DOMAIN c.texts, NEW o \in DOMAIN c.texts,
         Follows(c, at, j, i), Follows(c, at, j, o)
  PROVE  i = o
<1>1. c.dump \in Seq(DumpLines) /\ c.texts \in Seq(STRING)
  BY ConfigsAssumption DEF Listed
<1>2. DOMAIN c.dump \subseteq Nat /\ DOMAIN c.texts \subseteq Nat /\ DOMAIN at = DOMAIN c.texts
  BY <1>1
<1>3. ASSUME NEW x \in DOMAIN c.texts, NEW y \in DOMAIN c.texts, x < y,
             Follows(c, at, j, x), Follows(c, at, j, y)
      PROVE  FALSE
  <2>1. at[x] < at[y] /\ at[y] < j /\ at[x] \in Nat /\ at[y] \in Nat
    BY <1>2, <1>3 DEF Disassembled, Follows
  <2>2. at[y] \in at[x] + 1 .. j - 1
    BY <2>1
  <2> QED BY <1>2, <1>3, <2>2 DEF Follows
<1> QED BY <1>2, <1>3

(* How the instruction that lines belong to changes at line n.             *)
LEMMA FollowsNext ==
  ASSUME NEW c \in Configs, NEW at \in [DOMAIN c.texts -> DOMAIN c.dump], Disassembled(c, at),
         NEW n \in DOMAIN c.dump, NEW i \in DOMAIN c.texts
  PROVE  /\ c.dump[n].k # "label" /\ (\A o \in DOMAIN at : at[o] # n) =>
              (Follows(c, at, n + 1, i) <=> Follows(c, at, n, i))
         /\ c.dump[n].k = "label" => ~Follows(c, at, n + 1, i)
         /\ \A o \in DOMAIN at : at[o] = n => (Follows(c, at, n + 1, i) <=> i = o)
<1>1. c.dump \in Seq(DumpLines) /\ c.texts \in Seq(STRING)
  BY ConfigsAssumption DEF Listed
<1>2. DOMAIN c.dump \subseteq Nat /\ DOMAIN c.texts \subseteq Nat /\ DOMAIN at = DOMAIN c.texts
      /\ n \in Nat /\ i \in Nat
  BY <1>1
<1>3. \A o \in DOMAIN at : at[o] \in Nat /\ c.dump[at[o]].k = "src"
  <2> SUFFICES ASSUME NEW o \in DOMAIN at PROVE at[o] \in Nat /\ c.dump[at[o]].k = "src"
    OBVIOUS
  <2>1. c.dump[at[o]] = Source(c.texts[o])
    BY DEF Disassembled
  <2>2. at[o] \in DOMAIN c.dump
    BY <1>2
  <2> QED BY <1>2, <2>1, <2>2 DEF Source
<1>4. at[i] \in Nat
  BY <1>2, <1>3
<1>5. ASSUME c.dump[n].k # "label", \A o \in DOMAIN at : at[o] # n
      PROVE  Follows(c, at, n + 1, i) <=> Follows(c, at, n, i)
  <2>1. at[i] < n + 1 <=> at[i] < n
    BY <1>2, <1>4, <1>5
  <2>2. ASSUME at[i] < n PROVE \A m : m \in at[i] + 1 .. (n + 1) - 1 <=> m \in at[i] + 1 .. n - 1 \/ m = n
    BY <1>2, <1>4, <2>2
  <2> QED BY <1>5, <2>1, <2>2 DEF Follows
<1>6. ASSUME c.dump[n].k = "label" PROVE ~Follows(c, at, n + 1, i)
  <2>1. at[i] # n
    BY <1>2, <1>3, <1>6
  <2>2. at[i] < n + 1 => n \in at[i] + 1 .. (n + 1) - 1
    BY <1>2, <1>4, <2>1
  <2> QED BY <1>6, <2>2 DEF Follows
<1>7. ASSUME NEW o \in DOMAIN at, at[o] = n PROVE Follows(c, at, n + 1, i) <=> i = o
  <2>1. CASE i = o
    <3>1. at[i] + 1 .. (n + 1) - 1 = {}
      BY <1>2, <1>7, <2>1
    <3> QED BY <1>2, <1>7, <2>1, <3>1 DEF Follows
  <2>2. CASE i # o
    <3>1. at[i] # n
      BY <1>2, <1>4, <1>7, <2>2 DEF Disassembled
    <3>2. at[i] < n + 1 => n \in at[i] + 1 .. (n + 1) - 1
      BY <1>2, <1>4, <3>1
    <3> QED BY <1>7, <2>2, <3>2 DEF Follows
  <2> QED BY <2>1, <2>2
<1> QED BY <1>5, <1>6, <1>7

LEMMA MappingInit == Init => Mapping
<1> SUFFICES ASSUME Init PROVE Mapping
  OBVIOUS
<1>1. /\ config \in Configs /\ dump = Lines /\ texts = config.texts
      /\ active = NoInst /\ found = {} /\ pcOf = {}
  BY DEF Init, Lines
<1>2. Lines \in Seq(DumpLines) /\ texts \in Seq(STRING)
  BY <1>1, ConfigsAssumption DEF Listed, Lines
<1>3. Read = 0 /\ Len(dump) \in Nat
  BY <1>1, <1>2 DEF Read
<1>4. ASSUME NEW at \in [DOMAIN texts -> DOMAIN Lines], NEW i \in DOMAIN texts
      PROVE  at[i] \in Nat /\ at[i] >= 1
  BY <1>2
<1>5. ASSUME NEW at \in [DOMAIN texts -> DOMAIN Lines]
      PROVE  FoundRight(at) /\ ActiveRight(at) /\ PcsRight(at)
  <2>1. FoundRight(at)
    BY <1>1, <1>3, <1>4 DEF FoundRight
  <2>2. ASSUME NEW i \in DOMAIN texts PROVE ~(active = i) /\ ~Follows(config, at, Read + 1, i)
    <3>1. i # NoInst
      BY <1>2 DEF NoInst
    <3>2. ~(at[i] < Read + 1)
      BY <1>3, <1>4
    <3> QED BY <1>1, <3>1, <3>2 DEF Follows
  <2>3. \A m : ~Belong(at, Read, m)
    BY <1>3 DEF Belong
  <2> QED BY <1>1, <2>1, <2>2, <2>3 DEF ActiveRight, PcsRight
<1>6. \A j \in 1..Len(dump) : dump[j] = Lines[Read + j]
  BY <1>1, <1>3
<1> QED BY <1>1, <1>2, <1>3, <1>5, <1>6 DEF Mapping

(* The next line is taken off.                                             *)
LEMMA LineTaken ==
  ASSUME Mapping, dump # <<>>, dump' = Tail(dump), config' = config
  PROVE  /\ Read \in Nat /\ Read + 1 \in DOMAIN Lines /\ Read' = Read + 1 /\ Lines' = Lines
         /\ Head(dump) = Lines[Read + 1] /\ Lines[Read + 1] \in DumpLines
         /\ dump' \in Seq(DumpLines) /\ Len(dump') <= Len(Lines')
         /\ \A j \in 1..Len(dump') : dump'[j] = Lines'[Read' + j]
<1>1. Lines \in Seq(DumpLines) /\ dump \in Seq(DumpLines) /\ Len(dump) <= Len(Lines)
  BY ConfigsAssumption DEF Listed, Lines, Mapping
<1>2. Len(dump) \in Nat \ {0} /\ Len(Lines) \in Nat
  BY <1>1
<1>3. Lines' = Lines
  BY DEF Lines
<1>4. Len(dump') = Len(dump) - 1 /\ dump' \in Seq(DumpLines)
      /\ \A j \in 1..Len(dump') : dump'[j] = dump[j + 1]
  BY <1>1, <1>2
<1>5. Read \in Nat /\ Read + 1 \in 1..Len(Lines) /\ Read' = Read + 1
  BY <1>1, <1>2, <1>3, <1>4 DEF Read
<1>6. Head(dump) = Lines[Read + 1]
  <2>1. dump[1] = Lines[Read + 1]
    BY <1>2 DEF Mapping
  <2> QED BY <1>1, <1>2, <2>1
<1>7. \A j \in 1..Len(dump') : dump'[j] = Lines'[Read' + j]
  <2> SUFFICES ASSUME NEW j \in 1..Len(dump') PROVE dump'[j] = Lines'[Read' + j]
    OBVIOUS
  <2>1. j + 1 \in 1..Len(dump) /\ Read + (j + 1) = Read' + j
    BY <1>2, <1>4, <1>5
  <2>2. dump[j + 1] = Lines[Read + (j + 1)]
    BY <2>1 DEF Mapping
  <2> QED BY <1>3, <1>4, <2>1, <2>2
<1>8. Lines[Read + 1] \in DumpLines
  BY <1>1, <1>5
<1> QED BY <1>1, <1>2, <1>3, <1>4, <1>5, <1>6, <1>7, <1>8

(* A line that is no address adds none.                                    *)
LEMMA BelongNext ==
  ASSUME NEW n \in Nat, NEW at, NEW m
  PROVE  Belong(at, n + 1, m) <=>
           \/ Belong(at, n, m)
           \/ \E i \in DOMAIN texts : Lines[n + 1].k = "pc" /\ Follows(config, at, n + 1, i)
                                      /\ m = <<Lines[n + 1].pc, i>>
<1>1. \A j : j \in 1..(n + 1) <=> j \in 1..n \/ j = n + 1
  OBVIOUS
<1> QED BY <1>1 DEF Belong

LEMMA MappingNext ==
  ASSUME Mapping, TraceDump, config' = config
  PROVE  Mapping'
<1> DEFINE n == Read + 1
<1>1. dump # <<>> /\ dump' = Tail(dump) /\ texts' = texts
  BY DEF TraceDump, TraceAddress, TraceReset, TraceBlank, TraceSource
<1>2. /\ Read \in Nat /\ n \in DOMAIN Lines /\ Read' = n /\ Lines' = Lines
      /\ Head(dump) = Lines[n] /\ Lines[n] \in DumpLines
      /\ dump' \in Seq(DumpLines) /\ Len(dump') <= Len(Lines')
      /\ \A j \in 1..Len(dump') : dump'[j] = Lines'[Read' + j]
  BY <1>1, LineTaken
<1> HIDE DEF n
<1>3. config \in Configs /\ config.dump = Lines /\ config.texts = texts /\ n \in Nat /\ n = Read + 1
  BY <1>2 DEF Mapping, Lines, n
<1>4. texts \in Seq(STRING) /\ DOMAIN texts \subseteq Nat \ {NoInst}
  <2>1. texts \in Seq(STRING)
    BY <1>3, ConfigsAssumption DEF Listed
  <2> QED BY <2>1 DEF NoInst
<1>5. ASSUME NEW at \in [DOMAIN texts -> DOMAIN Lines], Disassembled(config, at)
      PROVE  /\ FoundRight(at) /\ ActiveRight(at) /\ PcsRight(at)
             /\ \A o \in DOMAIN texts : at[o] \in Nat /\ Lines[at[o]] = Source(texts[o])
             /\ DOMAIN at = DOMAIN texts
  <2>1. FoundRight(at) /\ ActiveRight(at) /\ PcsRight(at)
    BY <1>5 DEF Mapping
  <2>2. Lines \in Seq(DumpLines)
    BY <1>3, ConfigsAssumption DEF Listed
  <2>3. \A o \in DOMAIN texts : at[o] \in Nat
    BY <2>2
  <2> QED BY <1>3, <1>5, <2>1, <2>3 DEF Disassembled
<1>6. CASE Lines[n].k # "src"
  <2>1. /\ found' = found
        /\ Lines[n].k = "label" => active' = NoInst /\ pcOf' = pcOf
        /\ Lines[n].k # "label" => active' = active
        /\ Lines[n].k = "pc" => pcOf' = IF active = NoInst THEN pcOf
                                        ELSE {m \in pcOf : m[1] # Lines[n].pc} \cup {<<Lines[n].pc, active>>}
        /\ Lines[n].k # "pc" => pcOf' = pcOf
    BY <1>2, <1>6 DEF TraceDump, TraceAddress, TraceReset, TraceBlank, TraceSource
  <2>2. ASSUME NEW at \in [DOMAIN texts -> DOMAIN Lines], Disassembled(config, at)
        PROVE  FoundRight(at)' /\ ActiveRight(at)' /\ PcsRight(at)'
    <3>1. \A o \in DOMAIN texts : at[o] # n /\ at[o] \in Nat
      <4> SUFFICES ASSUME NEW o \in DOMAIN texts PROVE at[o] # n /\ at[o] \in Nat
        OBVIOUS
      <4>1. at[o] \in Nat /\ Lines[at[o]] = Source(texts[o])
        BY <1>5, <2>2
      <4>2. Lines[at[o]].k = "src"
        BY <4>1 DEF Source
      <4> QED BY <1>6, <4>1, <4>2
    <3>2. FoundRight(at)'
      <4>1. \A o \in DOMAIN texts : at[o] <= n <=> at[o] <= Read
        BY <1>2, <1>3, <3>1
      <4> QED BY <1>1, <1>2, <1>5, <2>1, <2>2, <4>1 DEF FoundRight
    <3>3. \A i \in DOMAIN texts :
            /\ Lines[n].k # "label" => (Follows(config, at, n + 1, i) <=> Follows(config, at, n, i))
            /\ Lines[n].k = "label" => ~Follows(config, at, n + 1, i)
      BY <1>2, <1>3, <1>5, <2>2, <3>1, FollowsNext, ZenonT(40)
    <3>4. ActiveRight(at)'
      <4>1. \A i \in DOMAIN texts : active' = i <=> Follows(config, at, n + 1, i)
        <5>1. CASE Lines[n].k = "label"
          BY <1>4, <2>1, <3>3, <5>1
        <5>2. CASE Lines[n].k # "label"
          BY <1>3, <1>5, <2>1, <2>2, <3>3, <5>2 DEF ActiveRight
        <5> QED BY <5>1, <5>2
      <4>2. \A i : Follows(config', at, Read' + 1, i) <=> Follows(config, at, n + 1, i)
        BY <1>2
      <4> QED BY <1>1, <4>1, <4>2 DEF ActiveRight
    <3>5. \A m : m \in pcOf <=> Belong(at, Read, m)
      BY <1>5, <2>2 DEF PcsRight
    <3>6. \A m : Belong(at, n, m) <=>
             \/ m \in pcOf
             \/ \E i \in DOMAIN texts : Lines[n].k = "pc" /\ Follows(config, at, n, i) /\ m = <<Lines[n].pc, i>>
      <4>1. \A m : Belong(at, Read + 1, m) <=>
               \/ Belong(at, Read, m)
               \/ \E i \in DOMAIN texts : Lines[Read + 1].k = "pc" /\ Follows(config, at, Read + 1, i)
                                          /\ m = <<Lines[Read + 1].pc, i>>
        BY <1>2, BelongNext
      <4> QED BY <1>3, <3>5, <4>1
    <3>7. \A i \in DOMAIN texts : active = i <=> Follows(config, at, n, i)
      BY <1>3, <1>5, <2>2 DEF ActiveRight
    <3>8. \A m : m \in pcOf' <=> Belong(at, n, m)
      <4>1. CASE Lines[n].k # "pc"
        BY <2>1, <3>6, <4>1
      <4>2. CASE Lines[n].k = "pc" /\ active = NoInst
        <5>1. \A i \in DOMAIN texts : ~Follows(config, at, n, i)
          BY <1>4, <3>7, <4>2
        <5> QED BY <2>1, <3>6, <4>2, <5>1
      <4>3. CASE Lines[n].k = "pc" /\ active # NoInst
        <5>1. active \in DOMAIN texts
          BY <4>3 DEF Mapping
        <5>2. ASSUME NEW m \in pcOf PROVE m[1] # Lines[n].pc
          <6>1. PICK j \in 1..Read, i \in DOMAIN texts :
                  Lines[j].k = "pc" /\ Follows(config, at, j, i) /\ m = <<Lines[j].pc, i>>
            BY <3>5 DEF Belong
          <6>2. j \in DOMAIN Lines /\ j # n
            <7>1. Lines \in Seq(DumpLines)
              BY <1>3, ConfigsAssumption DEF Listed
            <7> QED BY <1>2, <1>3, <6>1, <7>1
          <6>3. Lines[j].pc # Lines[n].pc
            BY <1>2, <1>3, <2>2, <4>3, <6>1, <6>2 DEF Disassembled
          <6> QED BY <6>1, <6>3
        <5>3. pcOf' = pcOf \cup {<<Lines[n].pc, active>>}
          BY <2>1, <4>3, <5>2
        <5> QED BY <3>6, <3>7, <4>3, <5>1, <5>3
      <4> QED BY <4>1, <4>2, <4>3
    <3>9. PcsRight(at)'
      <4>1. \A m : Belong(at, Read, m)' <=> Belong(at, n, m)
        BY <1>1, <1>2 DEF Belong
      <4> QED BY <3>8, <4>1 DEF PcsRight
    <3> QED BY <3>2, <3>4, <3>9
  <2>3. active' \in DOMAIN texts \cup {NoInst}
    BY <2>1 DEF Mapping
  <2> QED BY <1>1, <1>2, <2>1, <2>2, <2>3 DEF Mapping
<1>7. CASE Lines[n].k = "src"
  <2> DEFINE same == Unfound(Lines[n].text)
  <2>1. /\ pcOf' = pcOf
        /\ same = {} => UNCHANGED <<active, found>>
        /\ same # {} => /\ active' = CHOOSE i \in same : \A j \in same : i <= j
                        /\ found' = found \cup {active'}
    BY <1>2, <1>7 DEF TraceDump, TraceAddress, TraceReset, TraceBlank, TraceSource
  <2>2. same \subseteq DOMAIN texts /\ \A i \in same : Lines[n] = Source(texts[i])
    <3>1. Lines[n] = Source(Lines[n].text)
      <4>1. Lines[n] \in [k : {"src"}, text : STRING]
        BY <1>2, <1>7 DEF DumpLines
      <4> QED BY <4>1 DEF Source
    <3> QED BY <3>1 DEF Unfound
  <2>3. same # {} => active' \in same
    <3> SUFFICES ASSUME same # {} PROVE active' \in same
      OBVIOUS
    <3>1. same \in SUBSET Nat
      BY <1>4, <2>2
    <3>2. \E i \in same : \A j \in same : i <= j
      <4> HIDE DEF same
      <4> QED BY <3>1, LeastNumber
    <3> HIDE DEF same
    <3> QED BY <2>1, <3>2
  <2>4. /\ found' \subseteq DOMAIN texts /\ active' \in DOMAIN texts \cup {NoInst}
        /\ \A i \in found' : \E j \in DOMAIN Lines : Lines[j] = Source(texts[i])
    <3> HIDE DEF same
    <3> QED BY <1>2, <2>1, <2>2, <2>3 DEF Mapping
  <2>5. ASSUME NEW at \in [DOMAIN texts -> DOMAIN Lines], Disassembled(config, at)
        PROVE  FoundRight(at)' /\ ActiveRight(at)' /\ PcsRight(at)'
    <3>1. \A o \in DOMAIN texts : at[o] \in Nat /\ Lines[at[o]] = Source(texts[o])
      BY <1>5, <2>5
    <3>2. PcsRight(at)'
      <4>1. \A m : m \in pcOf <=> Belong(at, Read, m)
        BY <1>5, <2>5 DEF PcsRight
      <4>2. \A m : Belong(at, n, m) <=> Belong(at, Read, m)
        BY <1>2, <1>3, <1>7, BelongNext
      <4>3. \A m : Belong(at, Read, m)' <=> Belong(at, n, m)
        BY <1>1, <1>2 DEF Belong
      <4> QED BY <2>1, <4>1, <4>2, <4>3 DEF PcsRight
    <3>3. \A i \in DOMAIN texts : i \in found <=> at[i] <= Read
      BY <1>5, <2>5 DEF FoundRight
    <3>4. \A i \in DOMAIN texts : active = i <=> Follows(config, at, n, i)
      BY <1>3, <1>5, <2>5 DEF ActiveRight
    <3>5. CASE \A o \in DOMAIN texts : at[o] # n
      <4>1. same = {}
        <5> SUFFICES ASSUME NEW i \in same PROVE FALSE
          OBVIOUS
        <5>1. Lines[n] = Source(texts[i]) /\ i \in DOMAIN at
          BY <1>5, <2>2, <2>5
        <5> QED BY <1>2, <1>3, <2>5, <3>5, <5>1 DEF Disassembled
      <4>2. active' = active /\ found' = found
        BY <2>1, <4>1
      <4>3. \A o \in DOMAIN texts : at[o] <= n <=> at[o] <= Read
        BY <1>2, <1>3, <3>1, <3>5
      <4>4. \A i \in DOMAIN texts : Follows(config, at, n + 1, i) <=> Follows(config, at, n, i)
        BY <1>2, <1>3, <1>5, <1>7, <2>5, <3>5, FollowsNext
      <4>5. FoundRight(at)'
        BY <1>1, <1>2, <3>3, <4>2, <4>3 DEF FoundRight
      <4>6. ActiveRight(at)'
        <5>1. \A i : Follows(config', at, Read' + 1, i) <=> Follows(config, at, n + 1, i)
          BY <1>2
        <5> QED BY <1>1, <3>4, <4>2, <4>4, <5>1 DEF ActiveRight
      <4> QED BY <3>2, <4>5, <4>6
    <3>6. CASE \E o \in DOMAIN texts : at[o] = n
      <4>1. PICK o \in DOMAIN texts : at[o] = n
        BY <3>6
      <4>2. \A i \in DOMAIN texts : at[i] <= Read <=> at[i] < at[o]
        BY <1>2, <1>3, <3>1, <4>1
      <4>3. \A i, j \in DOMAIN texts : i < j => at[i] < at[j]
        BY <1>5, <2>5 DEF Disassembled
      <4>4. \A i \in DOMAIN texts : (at[i] < at[o] <=> i < o) /\ (at[i] = at[o] <=> i = o)
        BY <1>4, <3>1, <4>3
      <4>5. o \in same /\ \A i \in same : o <= i
        <5>1. o \notin found
          BY <3>1, <3>3, <4>2
        <5>2. texts[o] = Lines[n].text
          <6>1. Lines[n] = Source(texts[o])
            BY <3>1, <4>1
          <6> QED BY <6>1 DEF Source
        <5>3. \A i \in same : ~(i < o)
          BY <3>3, <4>2, <4>4 DEF Unfound
        <5> QED BY <1>4, <2>2, <5>1, <5>2, <5>3 DEF Unfound
      <4>6. active' = o /\ found' = found \cup {o}
        <5>1. same \subseteq Nat
          BY <1>4, <2>2
        <5> HIDE DEF same
        <5>2. active' \in same /\ \A j \in same : active' <= j
          <6>1. \E i \in same : \A j \in same : i <= j
            BY <4>5
          <6> QED BY <2>1, <4>5, <6>1
        <5>3. active' = o
          BY <4>5, <5>1, <5>2
        <5> QED BY <2>1, <4>5, <5>3
      <4>7. FoundRight(at)'
        <5>1. \A i \in DOMAIN texts : at[i] <= n <=> at[i] <= Read \/ i = o
          BY <1>2, <1>3, <3>1, <4>1, <4>4
        <5> QED BY <1>1, <1>2, <3>3, <4>6, <5>1 DEF FoundRight
      <4>8. ActiveRight(at)'
        <5>1. \A i : Follows(config', at, Read' + 1, i) <=> Follows(config, at, n + 1, i)
          BY <1>2
        <5>2. \A i \in DOMAIN texts : Follows(config, at, n + 1, i) <=> i = o
          BY <1>2, <1>3, <1>5, <2>5, <4>1, FollowsNext
        <5> QED BY <1>1, <4>6, <5>1, <5>2 DEF ActiveRight
      <4> QED BY <3>2, <4>7, <4>8
    <3> QED BY <3>5, <3>6
  <2> HIDE DEF same
  <2> QED BY <1>1, <1>2, <2>4, <2>5 DEF Mapping
<1> QED BY <1>6, <1>7

(* When all lines are read, the instructions have the addresses that the   *)
(* disassembly lists below them; one without a source line was not found.  *)
LEMMA AllRead ==
  ASSUME Mapping, dump = <<>>, ~MissingSource, NEW i \in DOMAIN texts
  PROVE  PcsOf(i) = config.expansion[i]
<1>1. config \in Configs /\ texts = config.texts /\ Lines = config.dump
  BY DEF Mapping, Lines
<1>2. Listed(config)
  BY <1>1, ConfigsAssumption
<1>3. ~Incomplete(config)
  <2>1. \A o \in DOMAIN texts : \E j \in DOMAIN Lines : Lines[j] = Source(texts[o])
    BY DEF Mapping, MissingSource
  <2> QED BY <1>1, <2>1 DEF Incomplete
<1>4. PICK at \in [DOMAIN texts -> DOMAIN Lines] : Disassembled(config, at)
  BY <1>1, <1>2, <1>3 DEF Listed
<1>5. \A m : m \in pcOf <=> Belong(at, Read, m)
  BY <1>4 DEF Mapping, PcsRight
<1>6. Lines \in Seq(DumpLines) /\ Read = Len(Lines)
  BY <1>1, <1>2 DEF Listed, Read
<1>7. 1..Read = DOMAIN Lines
  BY <1>6
<1>8. config.expansion[i] =
        {Lines[j].pc : j \in {m \in DOMAIN Lines : Lines[m].k = "pc" /\ Follows(config, at, m, i)}}
  BY <1>1, <1>4 DEF Disassembled
<1>9. ASSUME NEW p PROVE p \in PcsOf(i) <=> p \in config.expansion[i]
  <2>1. p \in PcsOf(i) <=> \E m \in pcOf : m[2] = i /\ p = m[1]
    BY DEF PcsOf
  <2>2. (\E m \in pcOf : m[2] = i /\ p = m[1]) <=>
          \E j \in DOMAIN Lines : Lines[j].k = "pc" /\ Follows(config, at, j, i) /\ p = Lines[j].pc
    <3>1. ASSUME NEW m \in pcOf, m[2] = i, p = m[1]
          PROVE  \E j \in DOMAIN Lines : Lines[j].k = "pc" /\ Follows(config, at, j, i) /\ p = Lines[j].pc
      <4>1. PICK j \in 1..Read, o \in DOMAIN texts :
              Lines[j].k = "pc" /\ Follows(config, at, j, o) /\ m = <<Lines[j].pc, o>>
        BY <1>5, <3>1 DEF Belong
      <4>2. o = i /\ p = Lines[j].pc
        BY <3>1, <4>1
      <4> QED BY <1>7, <4>1, <4>2
    <3>2. ASSUME NEW j \in DOMAIN Lines, Lines[j].k = "pc", Follows(config, at, j, i), p = Lines[j].pc
          PROVE  \E m \in pcOf : m[2] = i /\ p = m[1]
      <4>1. Belong(at, Read, <<p, i>>)
        BY <1>7, <3>2 DEF Belong
      <4>2. <<p, i>> \in pcOf
        BY <1>5, <4>1
      <4> QED BY <4>2
    <3> QED BY <3>1, <3>2
  <2> QED BY <1>8, <2>1, <2>2
<1> QED BY <1>9

(* What was mapped at the end stays.                                       *)
MappingInv == Mapping /\ (pc = "done" => dump = <<>> /\ ~MissingSource)

LEMMA StepsOfMapping ==
  ASSUME [Next]_vars
  PROVE  /\ config' = config
         /\ (TraceDump /\ pc = "map" /\ pc' = pc) \/ UNCHANGED tvars
         /\ pc' = "done" => pc = "done" \/ (dump = <<>> /\ ~MissingSource /\ UNCHANGED tvars)
<1> USE DEF Others, Consumed, Plain, Reads
<1>1. CASE Execute \/ PrintWrite \/ PrintNoise \/ Exit
  BY <1>1 DEF Execute, PrintWrite, PrintNoise, Exit
<1>2. CASE RocketRegister \/ RocketFloat \/ RocketStore \/ RocketException \/ SpikeCommit \/ SpikeException
  BY <1>2 DEF RocketRegister, RocketFloat, RocketStore, RocketException, SpikeCommit, SpikeException
<1>3. CASE Cva6Register \/ Cva6Atomic \/ Cva6Store \/ Cva6Exception \/ PicoLine \/ XsCommit \/ XsMemory \/ XsException
  BY <1>3 DEF Cva6Register, Cva6Atomic, Cva6Store, Cva6Exception, PicoLine, XsCommit, XsMemory, XsException
<1>4. CASE VexWrite \/ VexException \/ IbexLine \/ KronosLine \/ Srv32Line \/ Ignore
  BY <1>4 DEF VexWrite, VexException, IbexLine, KronosLine, Srv32Line, Ignore
<1>5. CASE BoomInstruction \/ BoomRegister \/ BoomFloat \/ BoomStore \/ BoomException \/ BoomWrite
  BY <1>5 DEF BoomInstruction, BoomRegister, BoomFloat, BoomStore, BoomException, BoomWrite
<1>6. CASE EndOfLog \/ MapLine \/ MapFails \/ Build \/ UNCHANGED vars
  BY <1>6 DEF EndOfLog, MapLine, MapFails, Build, vars
<1> QED BY <1>1, <1>2, <1>3, <1>4, <1>5, <1>6 DEF Next, ReadLine

LEMMA MappingHolds == Spec => []MappingInv
<1>1. Init => MappingInv
  BY MappingInit DEF MappingInv, Init
<1>2. ASSUME MappingInv, [Next]_vars PROVE MappingInv'
  <2>1. CASE TraceDump /\ pc = "map" /\ pc' = pc
    BY <1>2, <2>1, StepsOfMapping, MappingNext DEF MappingInv
  <2>2. CASE UNCHANGED tvars
    <3>1. config' = config
      BY <1>2, StepsOfMapping
    <3>2. Mapping'
      <4>1. Mapping
        BY <1>2 DEF MappingInv
      <4> QED BY <2>2, <3>1, <4>1 DEF tvars, Mapping, FoundRight, ActiveRight, PcsRight, Belong, Lines, Read
    <3>3. MissingSource' = MissingSource /\ dump' = dump
      BY <2>2 DEF tvars, MissingSource
    <3> QED BY <1>2, <3>2, <3>3, StepsOfMapping DEF MappingInv
  <2> QED BY <1>2, <2>1, <2>2, StepsOfMapping
<1> QED BY <1>1, <1>2, PTL DEF Spec

(* Each instruction gets exactly the addresses that the disassembly lists  *)
(* for it, whatever texts repeat, for disassemblies of any length.         *)
THEOREM MappedRightHolds == Spec => []MappedRight
<1>1. MappingInv => MappedRight
  BY AllRead DEF MappingInv, MappedRight
<1> QED BY <1>1, MappingHolds, PTL

-----------------------------------------------------------------------------
(* The lines of a log.                                                     *)

Fields == {"k", "pc", "reg", "val", "addr", "size", "mask", "data", "segments", "cause", "irq",
           "insn", "csr", "file"}
IsLine(l) == DOMAIN l = Fields /\ l = [f \in Fields |-> l[f]]

(* Two lines show the same, the store and where it comes from apart.       *)
SameCommit(l, o) ==
  /\ l.k = o.k /\ l.pc = o.pc /\ l.reg = o.reg /\ l.val = o.val /\ l.irq = o.irq
  /\ l.csr = o.csr /\ l.cause = o.cause /\ l.file = o.file /\ l.insn = o.insn
SameStore(l, o) ==
  l.addr = o.addr /\ l.size = o.size /\ l.mask = o.mask /\ l.data = o.data /\ l.segments = o.segments

IsRegLine(l, p, r, v) ==
  /\ IsLine(l) /\ SameStore(l, NoLine) /\ l.k = IF r = "f1" THEN "freg" ELSE "reg"
  /\ l.pc = p /\ l.reg = r /\ l.val = v /\ l.cause = 0 /\ l.irq = FALSE
  /\ l.csr = None /\ l.insn = None /\ l.file = None

LEMMA NoLineFields ==
  /\ IsLine(NoLine) /\ NoLine.k = "noise" /\ NoLine.pc = 0 /\ NoLine.reg = None
  /\ NoLine.val = 0 /\ NoLine.addr = None /\ NoLine.size = 0 /\ NoLine.mask = {}
  /\ NoLine.segments = {} /\ NoLine.cause = 0 /\ NoLine.irq = FALSE /\ NoLine.insn = None
  /\ NoLine.csr = None /\ NoLine.file = None
BY DEF NoLine, IsLine, Fields, HandlerPc

LEMMA RegLineFields ==
  ASSUME NEW p, NEW r, NEW v
  PROVE  IsRegLine(RegLine(p, r, v), p, r, v)
BY DEF RegLine, NoLine, IsRegLine, IsLine, Fields, SameStore

IsExcLine(l, p, c, i) ==
  /\ IsLine(l) /\ SameStore(l, NoLine) /\ l.k = "exc" /\ l.pc = p /\ l.reg = None /\ l.val = 0
  /\ l.cause = c /\ l.irq = i /\ l.csr = None /\ l.insn = None

LEMMA ExcLineFields ==
  ASSUME NEW p, NEW c, NEW i, NEW f
  PROVE  /\ IsExcLine(ExcLine(p, c, i), p, c, i)
         /\ IsExcLine([ExcLine(p, c, i) EXCEPT !.file = f], p, c, i)
         /\ [ExcLine(p, c, i) EXCEPT !.file = f].file = f
BY DEF ExcLine, NoLine, IsExcLine, IsLine, Fields, SameStore

(* How a line shows a store, by simulator.                                 *)
Wide     == {"rocket", "boom", "srv32"}
Narrow   == {"spike", "picorv32", "vex", "ibex"}
Blocks   == {"kronos", "xiangshan"}
ByteList(c, op, v) ==
  IF c.segments THEN {<<a, <<v, a - op.addr>> >> : a \in Covered(op)} ELSE {}
ShowsStore(c, l, op, v) ==
  /\ c.sim \in Wide => l.addr = op.addr /\ l.size = op.size /\ l.data = Low(v)
  /\ c.sim \in Narrow => l.addr = op.addr /\ l.size = 2^op.size /\ l.data = Low(v)
  /\ c.sim \in Blocks => /\ l.addr = Aligned(op.addr) /\ l.mask = LaneMask(op)
                              /\ l.data = Moved(v, op.addr)
  /\ c.sim = "cva6" => /\ l.addr = op.addr /\ l.mask = LaneMask(op)
                            /\ l.data = Moved(v, op.addr) /\ l.segments = ByteList(c, op, v)

LEMMA StoreLineFields ==
  ASSUME NEW l, IsLine(l), NEW op, NEW v, config.sim \in Simulators
  PROVE  /\ IsLine(StoreLine(l, op, v)) /\ SameCommit(StoreLine(l, op, v), l)
         /\ ShowsStore(config, StoreLine(l, op, v), op, v)
<1> DEFINE o == StoreLine(l, op, v)
<1>1. CASE config.sim \in Wide
  <2>1. o = [l EXCEPT !.addr = op.addr, !.size = op.size, !.data = Low(v)]
    BY <1>1 DEF StoreLine, Wide
  <2> HIDE DEF o
  <2>2. IsLine(o) /\ SameCommit(o, l) /\ o.addr = op.addr /\ o.size = op.size /\ o.data = Low(v)
    BY <2>1 DEF IsLine, Fields, SameCommit
  <2> QED BY <1>1, <2>2 DEF ShowsStore, Wide, Narrow, Blocks, o
<1>2. CASE config.sim \in Narrow
  <2>1. o = [l EXCEPT !.addr = op.addr, !.size = 2^op.size, !.data = Low(v)]
    BY <1>2 DEF StoreLine, Narrow
  <2> HIDE DEF o
  <2>2. IsLine(o) /\ SameCommit(o, l) /\ o.addr = op.addr /\ o.size = 2^op.size /\ o.data = Low(v)
    BY <2>1 DEF IsLine, Fields, SameCommit
  <2> QED BY <1>2, <2>2 DEF ShowsStore, Wide, Narrow, Blocks, o
<1>3. CASE config.sim \in Blocks
  <2>1. o = [l EXCEPT !.addr = Aligned(op.addr), !.mask = LaneMask(op), !.data = Moved(v, op.addr)]
    BY <1>3 DEF StoreLine, Blocks
  <2> HIDE DEF o
  <2>2. IsLine(o) /\ SameCommit(o, l) /\ o.addr = Aligned(op.addr) /\ o.mask = LaneMask(op)
        /\ o.data = Moved(v, op.addr)
    BY <2>1 DEF IsLine, Fields, SameCommit
  <2> QED BY <1>3, <2>2 DEF ShowsStore, Wide, Narrow, Blocks, o
<1>4. CASE config.sim = "cva6"
  <2>1. o = [l EXCEPT !.addr = op.addr, !.mask = LaneMask(op), !.data = Moved(v, op.addr),
                      !.segments = ByteList(config, op, v)]
    BY <1>4 DEF StoreLine, ByteList
  <2> HIDE DEF o
  <2>2. IsLine(o) /\ SameCommit(o, l) /\ o.addr = op.addr /\ o.mask = LaneMask(op)
        /\ o.data = Moved(v, op.addr) /\ o.segments = ByteList(config, op, v)
    BY <2>1 DEF IsLine, Fields, SameCommit
  <2> QED BY <1>4, <2>2 DEF ShowsStore, Wide, Narrow, Blocks, o
<1> QED BY <1>1, <1>2, <1>3, <1>4 DEF Simulators, Wide, Narrow, Blocks

(* Step t of a history took a trap, and what a trap shows.                 *)
Struck(h, t) == t \in DOMAIN h /\ (h[t].op.traps \/ h[t].op.irq)
ToldTrap(h, p, c, i) == \E t \in DOMAIN h : Struck(h, t) /\ p = h[t].pc /\ c = t /\ i = h[t].op.irq

(* What a line tells of step k of a history.                               *)
ToldKind(l) ==
  /\ IsLine(l)
  /\ l.k \in {"noise", "insn", "reg", "freg", "store", "mt", "exc"}
  /\ l.reg # None <=> l.k \in {"reg", "freg"}
  /\ l.k \in {"store", "mt"} => l.addr # None
  /\ l.addr # None => l.k \in {"store", "mt", "reg", "freg"}
  /\ l.csr \in {"mepc", "mcause", None}
  /\ l.csr # None => l.k = "reg" /\ l.val \in Nat
ToldExc(c, l, h, k) ==
  l.k = "exc" => /\ Struck(h, k) /\ l.pc = h[k].pc /\ l.cause = k /\ l.irq = h[k].op.irq
                 /\ l.reg = None /\ l.addr = None
                 /\ c.sim = "vex" => l.file = c.file
ToldReg(c, l, h, k) ==
  l.reg # None =>
    IF l.pc = HandlerPc
    THEN /\ l.addr = None /\ l.insn = None
         /\ <<l.csr, l.reg>> \in {<<"mepc", "x5">>, <<"mcause", "x6">>}
    ELSE /\ l.pc = h[k].pc /\ l.reg = h[k].op.reg /\ l.val = Value(h, k)
         /\ c.sim = "boom" \/ l.csr = None
ToldStore(c, l, h, k) ==
  l.addr # None => /\ Writes(h[k].op) /\ ShowsStore(c, l, h[k].op, k)
                   /\ l.pc = h[k].pc \/ (l.k = "mt" /\ l.pc = HandlerPc /\ ~c.patched)
ToldBoom(c, l, h, k) ==
  /\ l.k = "mt" => c.sim = "boom" /\ l.insn = h[k].op /\ (c.patched \/ l.pc = HandlerPc)
  /\ l.k = "insn" \/ (l.k = "freg" /\ c.sim = "boom") => l.insn # None
  /\ l.insn # None =>
       /\ l.insn = h[k].op
       /\ l.k = "mt" \/ (l.k \in {"insn", "reg", "freg"} /\ l.pc = h[k].pc /\ l.val = Value(h, k))
Told(c, l, h, k) ==
  ToldKind(l) /\ ToldExc(c, l, h, k) /\ ToldReg(c, l, h, k) /\ ToldStore(c, l, h, k) /\ ToldBoom(c, l, h, k)

(* Steps of a history.                                                     *)
Executable(c) == {[pc |-> p, op |-> c.program[p]] : p \in DOMAIN c.program}
History(c, h) == /\ h \in Seq(Executable(c)) /\ c \in Configs

LEMMA StepTyped ==
  ASSUME NEW h, History(config, h), NEW k \in DOMAIN h
  PROVE  /\ k \in Nat \ {0} /\ h[k].pc \in Nat \ {HandlerPc} /\ h[k].pc \in DOMAIN config.program
         /\ h[k].op = config.program[h[k].pc] /\ h[k].op \in Operations /\ Proper(h[k].op)
         /\ h[k].op.irq => config.sim \in TellsInterrupts
         /\ h[k].op.fails => config.sim = "boom" /\ h[k].op.addr # None
         /\ h[k].op.killed => config.sim = "boom"
         /\ config.sim \in Simulators
<1>1. Runnable(config)
  BY ConfigsAssumption DEF History
<1>2. h[k] \in Executable(config) /\ k \in Nat \ {0}
  BY DEF History
<1>3. PICK p \in DOMAIN config.program : h[k] = [pc |-> p, op |-> config.program[p]]
  BY <1>2 DEF Executable
<1>4. h[k].pc = p /\ h[k].op = config.program[p]
  BY <1>3
<1> QED BY <1>1, <1>2, <1>4 DEF Runnable

(* The last trap.                                                          *)
LastTrap(h, k) == IF Taken(h, k) = {} THEN 0 ELSE Max(Taken(h, k))

LEMMA LastTrapTyped ==
  ASSUME NEW h, History(config, h), NEW k \in DOMAIN h
  PROVE  /\ LastTrap(h, k) \in 0..k
         /\ LastTrap(h, k) # 0 => Struck(h, LastTrap(h, k))
         /\ \A j \in 1..k : Struck(h, j) => j <= LastTrap(h, k)
<1> DEFINE T == Taken(h, k)
<1>1. k \in Nat \ {0} /\ 1..k \subseteq DOMAIN h
  BY DEF History
<1>2. T \subseteq 1..k /\ \A j : j \in T <=> j \in 1..k /\ Struck(h, j)
  BY <1>1 DEF Taken, Struck
<1>3. CASE T = {}
  BY <1>1, <1>2, <1>3 DEF LastTrap
<1>4. CASE T # {}
  <2>1. Max(T) \in T /\ \A j \in T : j <= Max(T)
    <3> HIDE DEF T
    <3>2. \E m \in T : \A j \in T : m >= j
      <4>1. T \in SUBSET Nat
        BY <1>1, <1>2
      <4> DEFINE Bounds == {b \in Nat : \A j \in T : j <= b}
      <4>2. k \in Bounds
        BY <1>1, <1>2
      <4>3. PICK b \in Bounds : \A c \in Bounds : b <= c
        <5> HIDE DEF Bounds
        <5> QED BY <4>2, LeastNumber DEF Bounds
      <4>4. b \in T
        <5> SUFFICES ASSUME b \notin T PROVE FALSE
          OBVIOUS
        <5>1. PICK j \in T : TRUE
          BY <1>4
        <5>2. b - 1 \in Bounds
          BY <4>1, <4>3, <5>1
        <5> QED BY <4>3, <5>2
      <4> QED BY <4>1, <4>3, <4>4
    <3> QED BY <3>2, <1>1, <1>2 DEF Max
  <2> QED BY <1>1, <1>2, <1>4, <2>1 DEF LastTrap
<1> QED BY <1>3, <1>4

(* Sequences, of whatever elements.                                        *)
IsLog(s) == \E S : s \in Seq(S)

LEMMA LogFacts ==
  ASSUME NEW a, IsLog(a), NEW b, IsLog(b)
  PROVE  /\ IsLog(a \o b) /\ Len(a) \in Nat /\ Len(b) \in Nat /\ Len(a \o b) = Len(a) + Len(b)
         /\ DOMAIN a = 1..Len(a) /\ DOMAIN (a \o b) = 1..Len(a) + Len(b)
         /\ \A i \in 1..Len(a) : (a \o b)[i] = a[i]
         /\ \A i \in 1..Len(b) : (a \o b)[Len(a) + i] = b[i]
<1>1. PICK S : a \in Seq(S)
  BY DEF IsLog
<1>2. PICK T : b \in Seq(T)
  BY DEF IsLog
<1>3. a \in Seq(S \cup T) /\ b \in Seq(S \cup T)
  BY <1>1, <1>2
<1>4. a \o b \in Seq(S \cup T)
  BY <1>3
<1> QED BY <1>3, <1>4 DEF IsLog

LEMMA LogAssoc ==
  ASSUME NEW a, IsLog(a), NEW b, IsLog(b), NEW c, IsLog(c)
  PROVE  a \o (b \o c) = (a \o b) \o c
<1>1. PICK S : a \in Seq(S)
  BY DEF IsLog
<1>2. PICK T : b \in Seq(T)
  BY DEF IsLog
<1>3. PICK U : c \in Seq(U)
  BY DEF IsLog
<1>4. a \in Seq(S \cup T \cup U) /\ b \in Seq(S \cup T \cup U) /\ c \in Seq(S \cup T \cup U)
  BY <1>1, <1>2, <1>3
<1> QED BY <1>4, ConcatAssociative

LEMMA LogOne ==
  ASSUME NEW x, NEW y
  PROVE  /\ IsLog(<<>>) /\ Len(<<>>) = 0 /\ IsLog(<<x>>) /\ Len(<<x>>) = 1 /\ <<x>>[1] = x
         /\ IsLog(<<x, y>>) /\ <<x, y>> = <<x>> \o <<y>>
<1>1. <<x>> \in Seq({x, y}) /\ <<y>> \in Seq({x, y}) /\ <<x, y>> \in Seq({x, y})
      /\ <<>> \in Seq({x})
  OBVIOUS
<1>2. IsLog(<<>>) /\ IsLog(<<x>>) /\ IsLog(<<x, y>>)
  BY <1>1 DEF IsLog
<1>3. Len(<<>>) = 0 /\ Len(<<x>>) = 1 /\ <<x>>[1] = x
  OBVIOUS
<1>4. <<x, y>> = <<x>> \o <<y>>
  <2> DEFINE s == <<x, y>>  t == <<x>> \o <<y>>
  <2>1. s \in Seq({x, y}) /\ t \in Seq({x, y})
    BY <1>1
  <2>2. Len(s) = 2 /\ Len(t) = 2
    BY <1>1
  <2>3. \A i \in 1..2 : s[i] = t[i]
    BY <1>1
  <2> HIDE DEF s, t
  <2>4. s = t
    BY <2>1, <2>2, <2>3, SeqEqual
  <2> QED BY <2>4 DEF s, t
<1> QED BY <1>2, <1>3, <1>4

(* All elements satisfy a condition, given as a set.                       *)
LEMMA AllOf ==
  ASSUME NEW a, IsLog(a), NEW b, IsLog(b), NEW T,
         \A i \in DOMAIN a : a[i] \in T, \A i \in DOMAIN b : b[i] \in T
  PROVE  \A i \in DOMAIN (a \o b) : (a \o b)[i] \in T
<1> SUFFICES ASSUME NEW i \in 1..Len(a) + Len(b) PROVE (a \o b)[i] \in T
  BY LogFacts
<1>0. Len(a) \in Nat /\ Len(b) \in Nat /\ DOMAIN a = 1..Len(a) /\ DOMAIN b = 1..Len(b)
  BY LogFacts
<1>1. CASE i <= Len(a)
  <2>1. i \in 1..Len(a)
    BY <1>0, <1>1
  <2>2. (a \o b)[i] = a[i]
    BY <2>1, LogFacts
  <2> QED BY <1>0, <2>1, <2>2
<1>2. CASE ~(i <= Len(a))
  <2>1. i - Len(a) \in 1..Len(b) /\ i = Len(a) + (i - Len(a))
    BY <1>0, <1>2
  <2>2. (a \o b)[Len(a) + (i - Len(a))] = b[i - Len(a)]
    BY <2>1, LogFacts
  <2> QED BY <1>0, <2>1, <2>2
<1> QED BY <1>1, <1>2

-----------------------------------------------------------------------------
(* Reads of mepc and mcause in a log.                                      *)

Quiet(lg, a, b) == \A m \in a..b : lg[m].csr = None

(* A read of mcause after one of mepc is about the same trap, and the last *)
(* read of mepc shows e, if none of mcause followed.                       *)
Closed(lg, h) ==
  \A a, b \in DOMAIN lg :
    a < b /\ lg[a].csr = "mepc" /\ lg[b].csr = "mcause" /\ Quiet(lg, a + 1, b - 1)
      => lg[a].val = HandlerPc \/ ToldTrap(h, lg[a].val, lg[b].val, lg[b].irq)
Open(lg, e) ==
  \A a \in DOMAIN lg : lg[a].csr = "mepc" /\ Quiet(lg, a + 1, Len(lg)) => lg[a].val = e
Paired(lg, h, e) == Closed(lg, h) /\ Open(lg, e)

(* What has been printed is not disturbed.                                 *)
LEMMA PairedBefore ==
  ASSUME NEW lg, IsLog(lg), NEW l, NEW h, Closed(lg, h)
  PROVE  LET lh == lg \o <<l>> IN
         /\ \A a \in DOMAIN lh, b \in DOMAIN lg :
               a < b /\ lh[a].csr = "mepc" /\ lh[b].csr = "mcause" /\ Quiet(lh, a + 1, b - 1)
                 => lh[a].val = HandlerPc \/ ToldTrap(h, lh[a].val, lh[b].val, lh[b].irq)
         /\ Len(lg) \in Nat /\ Len(lh) = Len(lg) + 1 /\ lh[Len(lg) + 1] = l
         /\ DOMAIN lh = DOMAIN lg \cup {Len(lg) + 1} /\ DOMAIN lg = 1..Len(lg)
         /\ \A a \in DOMAIN lg : lh[a] = lg[a] /\ (Quiet(lh, a + 1, Len(lg)) <=> Quiet(lg, a + 1, Len(lg)))
<1> DEFINE lh == lg \o <<l>>
<1>1. IsLog(<<l>>) /\ Len(<<l>>) = 1 /\ <<l>>[1] = l
  BY LogOne
<1> HIDE DEF lh
<1>2. Len(lg) \in Nat /\ Len(lh) = Len(lg) + 1 /\ DOMAIN lg = 1..Len(lg) /\ DOMAIN lh = 1..Len(lg) + 1
      /\ \A a \in 1..Len(lg) : lh[a] = lg[a]
  BY <1>1, LogFacts DEF lh
<1>3. lh[Len(lg) + 1] = l
  <2>1. 1 \in 1..Len(<<l>>)
    BY <1>1
  <2>2. lh[Len(lg) + 1] = <<l>>[1]
    BY <1>1, <2>1, LogFacts DEF lh
  <2> QED BY <1>1, <2>2
<1>4. DOMAIN lh = DOMAIN lg \cup {Len(lg) + 1}
  BY <1>2
<1>5. ASSUME NEW a \in DOMAIN lg, NEW b \in 0..Len(lg)
      PROVE  Quiet(lh, a + 1, b) <=> Quiet(lg, a + 1, b)
  <2>1. \A m \in a + 1..b : lh[m] = lg[m]
    BY <1>2
  <2> QED BY <2>1 DEF Quiet
<1>6. ASSUME NEW a \in DOMAIN lh, NEW b \in DOMAIN lg, a < b, lh[a].csr = "mepc",
             lh[b].csr = "mcause", Quiet(lh, a + 1, b - 1)
      PROVE  lh[a].val = HandlerPc \/ ToldTrap(h, lh[a].val, lh[b].val, lh[b].irq)
  <2>1. a \in DOMAIN lg /\ b - 1 \in 0..Len(lg) /\ lh[a] = lg[a] /\ lh[b] = lg[b]
    BY <1>2, <1>6
  <2>2. Quiet(lg, a + 1, b - 1)
    BY <1>5, <1>6, <2>1
  <2> QED BY <1>6, <2>1, <2>2 DEF Closed
<1>7. \A a \in DOMAIN lg : lh[a] = lg[a] /\ (Quiet(lh, a + 1, Len(lg)) <=> Quiet(lg, a + 1, Len(lg)))
  BY <1>2, <1>5
<1> QED BY <1>2, <1>3, <1>4, <1>6, <1>7 DEF lh

(* A line that reads neither.                                              *)
LEMMA PairedQuiet ==
  ASSUME NEW lg, IsLog(lg), NEW l, l.csr = None, NEW h, NEW e, Paired(lg, h, e)
  PROVE  Paired(lg \o <<l>>, h, e)
<1> DEFINE lh == lg \o <<l>>
<1>1. /\ \A a \in DOMAIN lh, b \in DOMAIN lg :
            a < b /\ lh[a].csr = "mepc" /\ lh[b].csr = "mcause" /\ Quiet(lh, a + 1, b - 1)
              => lh[a].val = HandlerPc \/ ToldTrap(h, lh[a].val, lh[b].val, lh[b].irq)
      /\ Len(lg) \in Nat /\ Len(lh) = Len(lg) + 1 /\ lh[Len(lg) + 1] = l
      /\ DOMAIN lh = DOMAIN lg \cup {Len(lg) + 1} /\ DOMAIN lg = 1..Len(lg)
      /\ \A a \in DOMAIN lg : lh[a] = lg[a] /\ (Quiet(lh, a + 1, Len(lg)) <=> Quiet(lg, a + 1, Len(lg)))
  BY PairedBefore DEF Paired
<1> HIDE DEF lh
<1>2. None \notin {"mepc", "mcause"}
  BY NoneAssumption
<1>3. Closed(lh, h)
  <2>1. \A b \in DOMAIN lh : lh[b].csr = "mcause" => b \in DOMAIN lg
    BY <1>1, <1>2
  <2> QED BY <1>1, <2>1 DEF Closed
<1>4. Open(lh, e)
  <2> SUFFICES ASSUME NEW a \in DOMAIN lh, lh[a].csr = "mepc", Quiet(lh, a + 1, Len(lh))
               PROVE  lh[a].val = e
    BY DEF Open
  <2>1. a \in DOMAIN lg
    BY <1>1, <1>2
  <2>2. a + 1..Len(lg) \subseteq a + 1..Len(lh)
    BY <1>1, <2>1
  <2>3. Quiet(lg, a + 1, Len(lg))
    BY <1>1, <2>1, <2>2 DEF Quiet
  <2> QED BY <1>1, <2>1, <2>3 DEF Paired, Open
<1> QED BY <1>3, <1>4 DEF Paired, lh

(* A read of mepc.                                                         *)
LEMMA PairedEpc ==
  ASSUME NEW lg, IsLog(lg), NEW l, l.csr = "mepc", NEW h, NEW e, Paired(lg, h, e)
  PROVE  Paired(lg \o <<l>>, h, l.val)
<1> DEFINE lh == lg \o <<l>>
<1>1. /\ \A a \in DOMAIN lh, b \in DOMAIN lg :
            a < b /\ lh[a].csr = "mepc" /\ lh[b].csr = "mcause" /\ Quiet(lh, a + 1, b - 1)
              => lh[a].val = HandlerPc \/ ToldTrap(h, lh[a].val, lh[b].val, lh[b].irq)
      /\ Len(lg) \in Nat /\ Len(lh) = Len(lg) + 1 /\ lh[Len(lg) + 1] = l
      /\ DOMAIN lh = DOMAIN lg \cup {Len(lg) + 1} /\ DOMAIN lg = 1..Len(lg)
  BY PairedBefore DEF Paired
<1> HIDE DEF lh
<1>2. None \notin {"mepc", "mcause"}
  BY NoneAssumption
<1>3. Closed(lh, h)
  <2>1. \A b \in DOMAIN lh : lh[b].csr = "mcause" => b \in DOMAIN lg
    BY <1>1
  <2> QED BY <1>1, <2>1 DEF Closed
<1>4. Open(lh, l.val)
  <2> SUFFICES ASSUME NEW a \in DOMAIN lh, lh[a].csr = "mepc", Quiet(lh, a + 1, Len(lh))
               PROVE  lh[a].val = l.val
    BY DEF Open
  <2>1. ~(a \in DOMAIN lg)
    <3> SUFFICES ASSUME a \in DOMAIN lg PROVE FALSE
      OBVIOUS
    <3>1. Len(lg) + 1 \in a + 1..Len(lh)
      BY <1>1
    <3> QED BY <1>1, <1>2, <3>1 DEF Quiet
  <2> QED BY <1>1, <2>1
<1> QED BY <1>3, <1>4 DEF Paired, lh

(* A read of mcause.                                                       *)
LEMMA PairedCause ==
  ASSUME NEW lg, IsLog(lg), NEW l, l.csr = "mcause", NEW h, NEW e, Paired(lg, h, e),
         e = HandlerPc \/ ToldTrap(h, e, l.val, l.irq)
  PROVE  Paired(lg \o <<l>>, h, e)
<1> DEFINE lh == lg \o <<l>>
<1>1. /\ \A a \in DOMAIN lh, b \in DOMAIN lg :
            a < b /\ lh[a].csr = "mepc" /\ lh[b].csr = "mcause" /\ Quiet(lh, a + 1, b - 1)
              => lh[a].val = HandlerPc \/ ToldTrap(h, lh[a].val, lh[b].val, lh[b].irq)
      /\ Len(lg) \in Nat /\ Len(lh) = Len(lg) + 1 /\ lh[Len(lg) + 1] = l
      /\ DOMAIN lh = DOMAIN lg \cup {Len(lg) + 1} /\ DOMAIN lg = 1..Len(lg)
      /\ \A a \in DOMAIN lg : lh[a] = lg[a] /\ (Quiet(lh, a + 1, Len(lg)) <=> Quiet(lg, a + 1, Len(lg)))
  BY PairedBefore DEF Paired
<1> HIDE DEF lh
<1>2. None \notin {"mepc", "mcause"}
  BY NoneAssumption
<1>3. Closed(lh, h)
  <2> SUFFICES ASSUME NEW a \in DOMAIN lh, NEW b \in DOMAIN lh, a < b, lh[a].csr = "mepc",
                      lh[b].csr = "mcause", Quiet(lh, a + 1, b - 1)
               PROVE  lh[a].val = HandlerPc \/ ToldTrap(h, lh[a].val, lh[b].val, lh[b].irq)
    BY DEF Closed
  <2>1. CASE b \in DOMAIN lg
    BY <1>1, <2>1
  <2>2. CASE b = Len(lg) + 1
    <3>1. a \in DOMAIN lg /\ b - 1 = Len(lg)
      BY <1>1, <2>2
    <3>2. lg[a].csr = "mepc" /\ Quiet(lg, a + 1, Len(lg))
      BY <1>1, <3>1
    <3>3. lg[a].val = e /\ lh[a].val = e
      BY <1>1, <3>1, <3>2 DEF Paired, Open
    <3> QED BY <1>1, <2>2, <3>3
  <2> QED BY <1>1, <2>1, <2>2
<1>4. Open(lh, e)
  <2> SUFFICES ASSUME NEW a \in DOMAIN lh, lh[a].csr = "mepc", Quiet(lh, a + 1, Len(lh))
               PROVE  lh[a].val = e
    BY DEF Open
  <2>1. a \in DOMAIN lg
    BY <1>1
  <2>2. Len(lg) + 1 \in a + 1..Len(lh)
    BY <1>1, <2>1
  <2>3. l.csr = None
    BY <1>1, <2>2 DEF Quiet
  <2> QED BY <1>2, <2>3
<1> QED BY <1>3, <1>4 DEF Paired, lh

-----------------------------------------------------------------------------
(* What the processor prints.                                              *)

EpcLine(p) == [RegLine(HandlerPc, "x5", p) EXCEPT !.csr = "mepc"]
CauseLine(c, i) == [RegLine(HandlerPc, "x6", c) EXCEPT !.csr = "mcause", !.irq = i]

LEMMA HandlerLineFields ==
  ASSUME NEW p, NEW c, NEW i, NEW l, l = EpcLine(p) \/ l = CauseLine(c, i)
  PROVE  /\ IsLine(l) /\ l.k = "reg" /\ l.pc = HandlerPc /\ l.insn = None /\ l.addr = None
         /\ l = EpcLine(p) => l.reg = "x5" /\ l.csr = "mepc" /\ l.val = p
         /\ l # EpcLine(p) => l.reg = "x6" /\ l.csr = "mcause" /\ l.val = c /\ l.irq = i
<1>1. CASE l = EpcLine(p)
  <2>1. l = [RegLine(HandlerPc, "x5", p) EXCEPT !.csr = "mepc"]
    BY <1>1 DEF EpcLine
  <2>2. IsRegLine(RegLine(HandlerPc, "x5", p), HandlerPc, "x5", p)
    BY RegLineFields
  <2> QED BY <1>1, <2>1, <2>2, NoLineFields DEF IsRegLine, SameStore, IsLine, Fields
<1>2. CASE l # EpcLine(p)
  <2>1. l = [RegLine(HandlerPc, "x6", c) EXCEPT !.csr = "mcause", !.irq = i]
    BY <1>2 DEF CauseLine
  <2>2. IsRegLine(RegLine(HandlerPc, "x6", c), HandlerPc, "x6", c)
    BY RegLineFields
  <2> QED BY <1>2, <2>1, <2>2, NoLineFields DEF IsRegLine, SameStore, IsLine, Fields
<1> QED BY <1>1, <1>2

LEMMA HandlerTold ==
  ASSUME NEW h, History(config, h), NEW k \in DOMAIN h, NEW c \in Nat, NEW i,
         NEW l, l = EpcLine(h[k].pc) \/ l = CauseLine(c, i)
  PROVE  Told(config, l, h, k)
<1>1. h[k].pc \in Nat
  BY StepTyped
<1>2. /\ IsLine(l) /\ l.k = "reg" /\ l.pc = HandlerPc /\ l.insn = None /\ l.addr = None
      /\ <<l.csr, l.reg>> \in {<<"mepc", "x5">>, <<"mcause", "x6">>}
      /\ l.val \in Nat
  <2> QED BY <1>1, HandlerLineFields
<1> QED BY <1>2, NoneAssumption DEF Told, ToldKind, ToldExc, ToldReg, ToldStore, ToldBoom

LEMMA ExcTold ==
  ASSUME NEW h, History(config, h), NEW k \in DOMAIN h, Struck(h, k), NEW l,
         LET o == ExcLine(h[k].pc, k, h[k].op.irq) IN
           \/ l = o /\ config.sim # "vex"
           \/ l = [o EXCEPT !.file = config.file]
  PROVE  Told(config, l, h, k) /\ l.csr = None
<1>1. /\ IsLine(l) /\ l.k = "exc" /\ l.pc = h[k].pc /\ l.reg = None /\ l.val = 0
      /\ l.cause = k /\ l.irq = h[k].op.irq /\ l.csr = None /\ l.insn = None
      /\ l.addr = None /\ (config.sim = "vex" => l.file = config.file)
  <2>1. CASE l = ExcLine(h[k].pc, k, h[k].op.irq) /\ config.sim # "vex"
    BY <2>1 DEF ExcLine, NoLine, IsLine, Fields
  <2>2. CASE l = [ExcLine(h[k].pc, k, h[k].op.irq) EXCEPT !.file = config.file]
    BY <2>2 DEF ExcLine, NoLine, IsLine, Fields
  <2> QED BY <2>1, <2>2
<1> QED BY <1>1 DEF Told, ToldKind, ToldExc, ToldReg, ToldStore, ToldBoom

(* The lines a log holds when all of them tell of steps of a history.      *)
AllTold(c, lg, h) == \A i \in DOMAIN lg : \E k \in DOMAIN h : Told(c, lg[i], h, k)

LEMMA ToldMore ==
  ASSUME NEW lg, IsLog(lg), NEW h, AllTold(config, lg, h), NEW k \in DOMAIN h, NEW l, Told(config, l, h, k)
  PROVE  AllTold(config, lg \o <<l>>, h)
<1>1. IsLog(<<l>>) /\ Len(<<l>>) = 1 /\ <<l>>[1] = l
  BY LogOne
<1>2. Len(lg) \in Nat /\ DOMAIN lg = 1..Len(lg) /\ DOMAIN (lg \o <<l>>) = 1..Len(lg) + 1
      /\ \A i \in 1..Len(lg) : (lg \o <<l>>)[i] = lg[i]
  BY <1>1, LogFacts
<1>3. (lg \o <<l>>)[Len(lg) + 1] = l
  <2>1. 1 \in 1..Len(<<l>>)
    BY <1>1
  <2> QED BY <1>1, <2>1, LogFacts
<1>4. \A i \in 1..Len(lg) + 1 : i \in 1..Len(lg) \/ i = Len(lg) + 1
  BY <1>2
<1> QED BY <1>2, <1>3, <1>4 DEF AllTold

(* Lines after those of a log: an exception line, perhaps, and the reads   *)
(* of the handler.                                                         *)
LEMMA TrapLinesTold ==
  ASSUME NEW h, History(config, h), NEW k \in DOMAIN h, Struck(h, k),
         NEW lg, IsLog(lg), AllTold(config, lg, h), NEW e, Paired(lg, h, e)
  PROVE  LET s == TrapLines(h[k].pc, h[k].op, k) IN
         IsLog(s) /\ AllTold(config, lg \o s, h) /\ Paired(lg \o s, h, h[k].pc)
<1> DEFINE before ==
      CASE config.sim = "srv32" \/ (config.sim = "boom" /\ ~config.explicit) -> << >>
        [] config.sim = "vex" -> <<[ExcLine(h[k].pc, k, h[k].op.irq) EXCEPT !.file = config.file]>>
        [] OTHER -> <<ExcLine(h[k].pc, k, h[k].op.irq)>>
      epc == EpcLine(h[k].pc)
      cause == CauseLine(k, h[k].op.irq)
      lb == lg \o before
      s == TrapLines(h[k].pc, h[k].op, k)
<1>1. s = before \o <<epc, cause>>
  BY DEF TrapLines, HandlerLines, EpcLine, CauseLine
<1>2. k \in Nat
  BY StepTyped
<1>3. Told(config, epc, h, k) /\ Told(config, cause, h, k)
  BY <1>2, HandlerTold
<1>4. epc.csr = "mepc" /\ epc.val = h[k].pc /\ cause.csr = "mcause" /\ cause.val = k
      /\ cause.irq = h[k].op.irq
  <2>1. epc # cause
    BY DEF EpcLine, CauseLine, RegLine, NoLine
  <2> HIDE DEF epc, cause
  <2>2. /\ epc.csr = "mepc" /\ epc.val = h[k].pc
    BY HandlerLineFields DEF epc
  <2>3. cause.csr = "mcause" /\ cause.val = k /\ cause.irq = h[k].op.irq
    BY <2>1, HandlerLineFields DEF epc, cause
  <2> QED BY <2>2, <2>3
<1>5. \/ before = <<>>
      \/ \E l : before = <<l>> /\ Told(config, l, h, k) /\ l.csr = None
  <2>1. CASE config.sim = "srv32" \/ (config.sim = "boom" /\ ~config.explicit)
    BY <2>1
  <2>2. CASE config.sim = "vex"
    <3>1. before = <<[ExcLine(h[k].pc, k, h[k].op.irq) EXCEPT !.file = config.file]>>
      BY <2>2
    <3> QED BY <3>1, ExcTold
  <2>3. CASE ~(config.sim = "srv32" \/ (config.sim = "boom" /\ ~config.explicit)) /\ config.sim # "vex"
    <3>1. before = <<ExcLine(h[k].pc, k, h[k].op.irq)>>
      BY <2>3
    <3> QED BY <2>3, <3>1, ExcTold
  <2> QED BY <2>1, <2>2, <2>3
<1> HIDE DEF before, epc, cause, lb, s
<1>6. IsLog(before) /\ IsLog(lb) /\ AllTold(config, lb, h) /\ Paired(lb, h, e)
  <2>1. CASE before = <<>>
    <3>1. PICK S : lg \in Seq(S)
      BY DEF IsLog
    <3>2. lb = lg
      BY <2>1, <3>1 DEF lb
    <3> QED BY <2>1, <3>2, LogOne
  <2>2. ASSUME NEW l, before = <<l>>, Told(config, l, h, k), l.csr = None
        PROVE  IsLog(before) /\ IsLog(lb) /\ AllTold(config, lb, h) /\ Paired(lb, h, e)
    <3>1. IsLog(before) /\ IsLog(lb)
      BY <2>2, LogOne, LogFacts DEF lb
    <3>2. AllTold(config, lb, h)
      BY <2>2, ToldMore DEF lb
    <3>3. Paired(lb, h, e)
      BY <2>2, PairedQuiet DEF lb
    <3> QED BY <3>1, <3>2, <3>3
  <2> QED BY <1>5, <2>1, <2>2
<1>7. LET lc == lb \o <<epc>> IN IsLog(lc) /\ AllTold(config, lc, h) /\ Paired(lc, h, h[k].pc)
  BY <1>3, <1>4, <1>6, LogOne, LogFacts, ToldMore, PairedEpc
<1>8. LET lc == (lb \o <<epc>>) \o <<cause>> IN IsLog(lc) /\ AllTold(config, lc, h) /\ Paired(lc, h, h[k].pc)
  <2>1. ToldTrap(h, h[k].pc, cause.val, cause.irq)
    BY <1>4 DEF ToldTrap
  <2> QED BY <1>3, <1>4, <1>7, <2>1, LogOne, LogFacts, ToldMore, PairedCause
<1>9. lg \o s = (lb \o <<epc>>) \o <<cause>> /\ IsLog(s)
  <2>1. IsLog(<<epc>>) /\ IsLog(<<cause>>) /\ IsLog(<<epc, cause>>) /\ <<epc, cause>> = <<epc>> \o <<cause>>
    BY LogOne
  <2>2. lg \o (before \o <<epc, cause>>) = (lg \o before) \o <<epc, cause>>
    BY <1>6, <2>1, LogAssoc, SMTT(30)
  <2>5. IsLog(before \o <<epc, cause>>)
    BY <1>6, <2>1, LogFacts
  <2>3. lg \o s = lb \o (<<epc>> \o <<cause>>)
    BY <1>1, <2>1, <2>2 DEF lb
  <2>4. lb \o (<<epc>> \o <<cause>>) = (lb \o <<epc>>) \o <<cause>>
    BY <1>6, <2>1, LogAssoc
  <2> QED BY <1>1, <2>3, <2>4, <2>5
<1> QED BY <1>8, <1>9 DEF s

(* A history grows by a step; what it was told of stays.                   *)
LEMMA HistoryGrows ==
  ASSUME NEW h, History(config, h), NEW s \in Executable(config)
  PROVE  LET g == Append(h, s) IN
         /\ History(config, g) /\ Len(h) \in Nat /\ Len(g) = Len(h) + 1 /\ g[Len(g)] = s
         /\ DOMAIN h = 1..Len(h) /\ DOMAIN g = DOMAIN h \cup {Len(g)} /\ Len(g) \notin DOMAIN h
         /\ \A k \in DOMAIN h : g[k] = h[k]
<1>1. h \in Seq(Executable(config)) /\ config \in Configs
  BY DEF History
<1> HIDE DEF History
<1>2. Append(h, s) \in Seq(Executable(config))
  BY <1>1
<1> QED BY <1>1, <1>2 DEF History

LEMMA TakenGrows ==
  ASSUME NEW h, History(config, h), NEW s \in Executable(config), NEW k \in DOMAIN h
  PROVE  LET g == Append(h, s) IN
         Taken(g, k) = Taken(h, k) /\ Value(g, k) = Value(h, k) /\ (Struck(g, k) <=> Struck(h, k))
<1> DEFINE g == Append(h, s)
<1>1. DOMAIN h = 1..Len(h) /\ Len(h) \in Nat /\ DOMAIN h \subseteq DOMAIN g
      /\ \A j \in DOMAIN h : g[j] = h[j]
  BY HistoryGrows
<1> HIDE DEF g
<1>2. 1..k \subseteq DOMAIN h
  BY <1>1
<1>3. Taken(g, k) = Taken(h, k)
  BY <1>1, <1>2 DEF Taken
<1>4. Taken(h, k) # {} => Max(Taken(h, k)) \in DOMAIN h
  <2> SUFFICES ASSUME Taken(h, k) # {} PROVE Max(Taken(h, k)) \in DOMAIN h
    OBVIOUS
  <2>1. LastTrap(h, k) = Max(Taken(h, k)) /\ LastTrap(h, k) \in 0..k
        /\ \A j \in 1..k : Struck(h, j) => j <= LastTrap(h, k)
    BY LastTrapTyped DEF LastTrap
  <2>2. PICK j \in 1..k : Struck(h, j)
    BY <1>2 DEF Taken, Struck
  <2>3. LastTrap(h, k) \in 1..k
    BY <1>1, <2>1, <2>2
  <2> QED BY <1>2, <2>1, <2>3
<1>5. Value(g, k) = Value(h, k)
  BY <1>1, <1>3, <1>4 DEF Value
<1>6. Struck(g, k) <=> Struck(h, k)
  BY <1>1 DEF Struck
<1> QED BY <1>3, <1>5, <1>6 DEF g

LEMMA ToldGrows ==
  ASSUME NEW h, History(config, h), NEW s \in Executable(config), NEW k \in DOMAIN h, NEW l, Told(config, l, h, k)
  PROVE  k \in DOMAIN Append(h, s) /\ Told(config, l, Append(h, s), k)
<1> DEFINE g == Append(h, s)
<1>1. k \in DOMAIN g /\ g[k] = h[k] /\ Value(g, k) = Value(h, k) /\ (Struck(g, k) <=> Struck(h, k))
  BY HistoryGrows, TakenGrows
<1> HIDE DEF g
<1> QED BY <1>1 DEF Told, ToldExc, ToldReg, ToldStore, ToldBoom, g

LEMMA PairedGrows ==
  ASSUME NEW h, History(config, h), NEW s \in Executable(config), NEW lg, NEW e, Paired(lg, h, e)
  PROVE  Paired(lg, Append(h, s), e)
<1> DEFINE g == Append(h, s)
<1>1. \A k \in DOMAIN h : k \in DOMAIN g /\ g[k] = h[k] /\ (Struck(g, k) <=> Struck(h, k))
  BY HistoryGrows, TakenGrows
<1> HIDE DEF g
<1>2. \A p, c, i : ToldTrap(h, p, c, i) => ToldTrap(g, p, c, i)
  BY <1>1 DEF ToldTrap
<1>3. Closed(lg, g)
  BY <1>2 DEF Paired, Closed
<1> QED BY <1>3 DEF Paired, g

(* The address of the last trap.                                           *)
Epc(h) ==
  IF LastTrap(h, Len(h)) = 0 THEN HandlerPc ELSE h[LastTrap(h, Len(h))].pc

LEMMA EpcGrows ==
  ASSUME NEW h, History(config, h), NEW s \in Executable(config)
  PROVE  LET g == Append(h, s) IN
         /\ s.op.traps \/ s.op.irq => Struck(g, Len(g)) /\ Epc(g) = s.pc
         /\ ~(s.op.traps \/ s.op.irq) => Epc(g) = Epc(h)
<1> DEFINE g == Append(h, s)  k == Len(g)
<1>1. /\ History(config, g) /\ Len(h) \in Nat /\ k = Len(h) + 1 /\ g[k] = s /\ History(config, h)
      /\ DOMAIN h = 1..Len(h) /\ DOMAIN g = DOMAIN h \cup {k} /\ k \notin DOMAIN h
      /\ \A j \in DOMAIN h : g[j] = h[j]
  BY HistoryGrows
<1> HIDE DEF g, k
<1>2. k \in DOMAIN g /\ k \in Nat \ {0}
  BY <1>1
<1>3. ASSUME s.op.traps \/ s.op.irq PROVE Struck(g, k) /\ Epc(g) = s.pc
  <2>1. Struck(g, k)
    BY <1>1, <1>3 DEF Struck
  <2>2. LastTrap(g, k) \in 0..k /\ k <= LastTrap(g, k)
    <3>1. k \in 1..k
      BY <1>2
    <3> QED BY <1>1, <1>2, <2>1, <3>1, LastTrapTyped
  <2>3. LastTrap(g, k) = k
    BY <1>2, <2>2
  <2> QED BY <1>1, <1>2, <2>1, <2>3 DEF Epc, k
<1>4. ASSUME ~(s.op.traps \/ s.op.irq) PROVE Epc(g) = Epc(h)
  <2>1. 1..k = 1..Len(h) \cup {k}
    BY <1>1
  <2>2. Taken(g, k) = Taken(h, Len(h))
    <3>1. \A j : j \in Taken(g, k) <=> j \in 1..Len(h) /\ (g[j].op.traps \/ g[j].op.irq)
      BY <1>1, <1>4, <2>1 DEF Taken
    <3>2. \A j : j \in Taken(h, Len(h)) <=> j \in 1..Len(h) /\ (h[j].op.traps \/ h[j].op.irq)
      BY DEF Taken
    <3> QED BY <1>1, <3>1, <3>2
  <2>3. LastTrap(g, k) = LastTrap(h, Len(h))
    BY <2>2 DEF LastTrap
  <2>4. CASE LastTrap(h, Len(h)) = 0
    BY <2>3, <2>4 DEF Epc, k
  <2>5. CASE LastTrap(h, Len(h)) # 0
    <3>1. LastTrap(g, k) \in 0..k /\ Struck(g, LastTrap(g, k))
      BY <1>1, <1>2, <2>3, <2>5, LastTrapTyped
    <3>2. LastTrap(g, k) # k
      BY <1>1, <1>4, <3>1 DEF Struck
    <3>3. LastTrap(h, Len(h)) \in DOMAIN h
      BY <1>1, <2>3, <2>5, <3>1, <3>2
    <3> QED BY <1>1, <2>3, <2>5, <3>3 DEF Epc, k
  <2> QED BY <2>4, <2>5
<1> QED BY <1>3, <1>4 DEF g, k

(* What a read of mepc or mcause by the last step returns.                 *)
LEMMA ValueRead ==
  ASSUME NEW h, History(config, h), NEW k \in DOMAIN h, k = Len(h), h[k].op.csr # None
  PROVE  /\ Value(h, k) \in Nat
         /\ h[k].op.csr = "mepc" => Value(h, k) = Epc(h)
         /\ h[k].op.csr # "mepc" =>
              Epc(h) = HandlerPc \/ ToldTrap(h, Epc(h), Value(h, k), ReadsInterrupt(h, k))
<1>1. k \in Nat \ {0}
  BY StepTyped
<1>2. /\ LastTrap(h, k) \in 0..k
      /\ LastTrap(h, k) # 0 => Struck(h, LastTrap(h, k))
  BY LastTrapTyped
<1>3. CASE Taken(h, k) = {}
  BY <1>3 DEF Value, LastTrap, Epc, HandlerPc
<1>4. CASE Taken(h, k) # {}
  <2>1. LastTrap(h, k) = Max(Taken(h, k))
    BY <1>4 DEF LastTrap
  <2>2. LastTrap(h, k) # 0
    <3>1. PICK j \in 1..k : h[j].op.traps \/ h[j].op.irq
      BY <1>4 DEF Taken
    <3>2. j \in DOMAIN h
      BY <1>1, <3>1 DEF History
    <3>3. j <= LastTrap(h, k)
      BY <3>1, <3>2, LastTrapTyped DEF Struck
    <3> QED BY <1>1, <1>2, <3>1, <3>3
  <2>3. LastTrap(h, k) \in DOMAIN h
    BY <1>2, <2>2 DEF Struck
  <2>4. h[LastTrap(h, k)].pc \in Nat /\ LastTrap(h, k) \in Nat
    BY <2>3, StepTyped
  <2>5. Epc(h) = h[LastTrap(h, k)].pc
    BY <2>2 DEF Epc
  <2>6. Value(h, k) = IF h[k].op.csr = "mepc" THEN h[LastTrap(h, k)].pc ELSE LastTrap(h, k)
    BY <1>4, <2>1 DEF Value
  <2>7. ReadsInterrupt(h, k) = h[LastTrap(h, k)].op.irq
    <3>1. h[LastTrap(h, k)].op.irq \in BOOLEAN
      BY <2>3, StepTyped DEF Operations
    <3> QED BY <1>4, <2>1, <3>1 DEF ReadsInterrupt
  <2>8. ToldTrap(h, Epc(h), LastTrap(h, k), ReadsInterrupt(h, k))
    BY <1>2, <2>2, <2>3, <2>5, <2>7 DEF ToldTrap
  <2> QED BY <2>4, <2>5, <2>6, <2>8
<1> QED BY <1>3, <1>4

(* A line for a register, a line for a store, and one for both.            *)
LEMMA RegTold ==
  ASSUME NEW h, History(config, h), NEW k \in DOMAIN h, h[k].op.reg # None, config.sim # "boom",
         NEW l, l = RegLine(h[k].pc, h[k].op.reg, Value(h, k))
  PROVE  Told(config, l, h, k) /\ l.csr = None /\ IsLine(l) /\ l.reg = h[k].op.reg /\ l.pc = h[k].pc
         /\ l.k \in {"reg", "freg"} /\ l.insn = None
<1>1. h[k].op.reg \in Registers /\ h[k].pc # HandlerPc
  BY StepTyped DEF Operations
<1>2. IsRegLine(l, h[k].pc, h[k].op.reg, Value(h, k))
  BY RegLineFields
<1>3. l.addr = None
  BY <1>2, NoLineFields DEF IsRegLine, SameStore
<1> QED BY <1>1, <1>2, <1>3 DEF IsRegLine, Told, ToldKind, ToldExc, ToldReg, ToldStore, ToldBoom

MemLine(p) == [NoLine EXCEPT !.k = "store", !.pc = p]

LEMMA MemLineFields ==
  ASSUME NEW p
  PROVE  \A l \in {MemLine(p), OwnLine(p)} :
           /\ IsLine(l) /\ l.k = "store" /\ l.pc = p /\ l.reg = None /\ l.csr = None
           /\ l.insn = None
BY DEF MemLine, OwnLine, NoLine, IsLine, Fields

LEMMA AlignedTyped ==
  ASSUME NEW a \in Nat PROVE Aligned(a) \in Nat /\ Aligned(a) <= a /\ a - Aligned(a) = a % Lanes
<1>1. Lanes \in Nat \ {0}
  BY LanesAssumption
<1>2. a % Lanes \in 0..a
  BY <1>1
<1> QED BY <1>1, <1>2 DEF Aligned

LEMMA StoreTold ==
  ASSUME NEW h, History(config, h), NEW k \in DOMAIN h, Writes(h[k].op),
         NEW o, IsLine(o), o.pc = h[k].pc, o.csr = None, o.insn = None,
         o \in {MemLine(h[k].pc), OwnLine(h[k].pc)} \/ (Told(config, o, h, k) /\ o.reg # None),
         NEW l, l = StoreLine(o, h[k].op, k)
  PROVE  Told(config, l, h, k) /\ l.csr = None
<1>1. config.sim \in Simulators /\ h[k].op \in Operations /\ h[k].pc # HandlerPc /\ Proper(h[k].op)
  BY StepTyped
<1>2. IsLine(l) /\ SameCommit(l, o) /\ ShowsStore(config, l, h[k].op, k)
  BY <1>1, StoreLineFields
<1>3. l.addr # None
  <2>1. h[k].op.addr \in Nat
    BY <1>1, LanesAssumption DEF Operations, Writes, Memory
  <2>2. Aligned(h[k].op.addr) \in Nat
    BY <2>1, LanesAssumption, AlignedTyped
  <2> QED BY <1>1, <1>2, <2>1, <2>2, NoneAssumption DEF ShowsStore, Wide, Narrow, Blocks, Simulators
<1>4. CASE o \in {MemLine(h[k].pc), OwnLine(h[k].pc)}
  <2>1. o.k = "store" /\ o.reg = None
    BY <1>4, MemLineFields
  <2> QED BY <1>2, <1>3, <2>1 DEF SameCommit, Told, ToldKind, ToldExc, ToldReg, ToldStore, ToldBoom
<1>5. CASE Told(config, o, h, k) /\ o.reg # None
  <2>1. o.k \in {"reg", "freg"}
    BY <1>5 DEF Told, ToldKind
  <2>2. o.pc # HandlerPc
    BY <1>1
  <2>3. ToldReg(config, l, h, k)
    BY <1>2, <1>5, <2>2 DEF SameCommit, Told, ToldReg
  <2>4. ToldKind(l) /\ ToldExc(config, l, h, k) /\ ToldStore(config, l, h, k) /\ ToldBoom(config, l, h, k)
    BY <1>2, <1>3, <1>5, <2>1 DEF SameCommit, Told, ToldKind, ToldExc, ToldStore, ToldBoom
  <2>5. l.csr = None
    BY <1>2 DEF SameCommit
  <2> QED BY <2>3, <2>4, <2>5 DEF Told
<1> QED BY <1>4, <1>5

(* A line is added to a log.                                               *)
Good(c, lg, h, e) == IsLog(lg) /\ AllTold(c, lg, h) /\ Paired(lg, h, e)

LEMMA QuietAdds ==
  ASSUME NEW h, NEW k \in DOMAIN h, NEW l, Told(config, l, h, k), l.csr = None, NEW lg, NEW e, Good(config, lg, h, e)
  PROVE  Good(config, lg \o <<l>>, h, e) /\ IsLog(<<l>>)
BY LogOne, LogFacts, ToldMore, PairedQuiet DEF Good

LEMMA EffectAdds ==
  ASSUME NEW h, History(config, h), NEW k \in DOMAIN h, ~h[k].op.traps, config.sim # "boom",
         NEW lg, NEW e, Good(config, lg, h, e)
  PROVE  LET s == EffectLines(h[k].pc, h[k].op, Value(h, k)) IN
         Good(config, lg \o s, h, e) /\ IsLog(s)
<1> DEFINE p == h[k].pc  op == h[k].op  v == Value(h, k)
           s == EffectLines(p, op, v)
<1>1. (op.csr # None => op.addr = None) /\ ~op.killed
  BY StepTyped DEF Proper
<1>2. op.addr # None => v = k /\ Writes(op)
  BY <1>1 DEF Value, Writes
<1> HIDE DEF s
<1>3. CASE op.addr = None /\ op.reg = None
  <2> DEFINE l == [NoLine EXCEPT !.pc = p]
  <2>1. s = <<l>>
    BY <1>3 DEF s, EffectLines
  <2>2. IsLine(l) /\ l.k = "noise" /\ l.reg = None /\ l.addr = None /\ l.insn = None /\ l.csr = None
    BY DEF NoLine, IsLine, Fields
  <2> HIDE DEF l
  <2>3. Told(config, l, h, k)
    BY <2>2 DEF Told, ToldKind, ToldExc, ToldReg, ToldStore, ToldBoom
  <2> QED BY <2>1, <2>2, <2>3, QuietAdds DEF s
<1>4. CASE op.addr = None /\ op.reg # None
  <2> DEFINE l == RegLine(p, op.reg, v)
  <2>1. s = <<l>>
    BY <1>4 DEF s, EffectLines
  <2>2. Told(config, l, h, k) /\ l.csr = None
    BY <1>4, RegTold
  <2> HIDE DEF l
  <2> QED BY <2>1, <2>2, QuietAdds DEF s
<1>5. CASE op.addr # None /\ op.reg = None
  <2> DEFINE l == StoreLine(MemLine(p), op, k)
  <2>1. s = <<l>>
    BY <1>2, <1>5 DEF s, EffectLines, MemLine
  <2>2. Told(config, l, h, k) /\ l.csr = None
    <3> DEFINE o == MemLine(p)
    <3>1. IsLine(o) /\ o.pc = p /\ o.csr = None /\ o.insn = None
      BY MemLineFields
    <3> HIDE DEF o
    <3> QED BY <1>2, <1>5, <3>1, StoreTold DEF o
  <2> HIDE DEF l
  <2> QED BY <2>1, <2>2, QuietAdds DEF s
<1>6. CASE op.addr # None /\ op.reg # None
  <2> DEFINE r == RegLine(p, op.reg, v)
             l == StoreLine(r, op, k)
             m == StoreLine(MemLine(p), op, k)
  <2>1. IF config.sim \in OneLine THEN s = <<l>> ELSE s = <<r, m>>
    BY <1>2, <1>6 DEF s, EffectLines, MemLine
  <2>2. Told(config, r, h, k) /\ IsLine(r) /\ r.pc = p /\ r.csr = None /\ r.insn = None /\ r.reg # None
    BY <1>6, RegTold
  <2>3. Told(config, l, h, k) /\ l.csr = None
    <3> HIDE DEF r
    <3> QED BY <1>2, <1>6, <2>2, StoreTold
  <2>4. Told(config, m, h, k) /\ m.csr = None
    <3> DEFINE o == MemLine(p)
    <3>1. IsLine(o) /\ o.pc = p /\ o.csr = None /\ o.insn = None
      BY MemLineFields
    <3> HIDE DEF o
    <3> QED BY <1>2, <1>6, <3>1, StoreTold DEF o
  <2> HIDE DEF r, l, m
  <2>5. Good(config, lg \o <<l>>, h, e) /\ IsLog(<<l>>)
    BY <2>3, QuietAdds
  <2>6. Good(config, (lg \o <<r>>) \o <<m>>, h, e) /\ IsLog(<<r>>) /\ IsLog(<<m>>)
    BY <2>2, <2>4, QuietAdds
  <2>7. lg \o <<r, m>> = (lg \o <<r>>) \o <<m>> /\ IsLog(<<r, m>>)
    <3>1. <<r, m>> = <<r>> \o <<m>> /\ IsLog(<<r, m>>)
      BY LogOne
    <3>2. lg \o (<<r>> \o <<m>>) = (lg \o <<r>>) \o <<m>>
      BY <2>6, LogAssoc DEF Good
    <3> QED BY <3>1, <3>2
  <2> QED BY <2>1, <2>5, <2>6, <2>7 DEF s
<1> QED BY <1>3, <1>4, <1>5, <1>6 DEF s

LEMMA OwnLineTold ==
  ASSUME NEW h, History(config, h), NEW k \in DOMAIN h, Writes(h[k].op)
  PROVE  LET l == StoreLine(OwnLine(h[k].pc), h[k].op, k) IN Told(config, l, h, k) /\ l.csr = None
<1> DEFINE o == OwnLine(h[k].pc)
<1>1. IsLine(o) /\ o.pc = h[k].pc /\ o.csr = None /\ o.insn = None
  BY MemLineFields
<1>2. o \in {MemLine(h[k].pc), OwnLine(h[k].pc)}
  OBVIOUS
<1> HIDE DEF o
<1> QED BY <1>1, <1>2, StoreTold DEF o

LEMMA CommitAdds ==
  ASSUME NEW h, History(config, h), NEW k \in DOMAIN h, ~h[k].op.traps, config.sim # "boom",
         NEW lg, NEW e, Good(config, lg, h, e)
  PROVE  LET s == CommitLines(h[k].pc, h[k].op, Value(h, k)) IN
         Good(config, lg \o s, h, e) /\ IsLog(s)
<1> DEFINE p == h[k].pc  op == h[k].op  v == Value(h, k)
           s == CommitLines(p, op, v)
           t == EffectLines(p, op, v)
           b == IF config.style = "apart" /\ op.addr # None THEN <<StoreLine(OwnLine(p), op, v)>> ELSE <<>>
<1>1. s = b \o t
  BY DEF CommitLines
<1>2. Good(config, lg \o b, h, e) /\ IsLog(b)
  <2>1. CASE config.style = "apart" /\ op.addr # None
    <3>1. (op.csr # None => op.addr = None) /\ ~op.killed
      BY StepTyped DEF Proper
    <3>2. v = k /\ Writes(op)
      BY <2>1, <3>1 DEF Value, Writes
    <3>3. Told(config, StoreLine(OwnLine(p), op, k), h, k) /\ StoreLine(OwnLine(p), op, k).csr = None
      BY <3>2, OwnLineTold
    <3> DEFINE l == StoreLine(OwnLine(p), op, k)
    <3>4. b = <<l>>
      BY <2>1, <3>2
    <3> HIDE DEF b, l
    <3> QED BY <3>3, <3>4, QuietAdds DEF l
  <2>2. CASE ~(config.style = "apart" /\ op.addr # None)
    <3>1. b = <<>>
      BY <2>2
    <3> HIDE DEF b
    <3>2. lg \o <<>> = lg
      <4>1. PICK S : lg \in Seq(S)
        BY DEF Good, IsLog
      <4> QED BY <4>1
    <3> QED BY <3>1, <3>2, LogOne
  <2> QED BY <2>1, <2>2
<1>3. Good(config, (lg \o b) \o t, h, e) /\ IsLog(t)
  <2> HIDE DEF b
  <2> QED BY <1>2, EffectAdds
<1> HIDE DEF b, t
<1>4. IsLog(lg) /\ IsLog(b) /\ IsLog(t)
  BY <1>2, <1>3 DEF Good
<1>5. lg \o (b \o t) = (lg \o b) \o t
  BY <1>4, LogAssoc
<1>6. IsLog(b \o t)
  BY <1>4, LogFacts
<1> HIDE DEF s
<1> QED BY <1>1, <1>3, <1>5, <1>6 DEF s

(* BOOM's line for an instruction.                                         *)
LEMMA BoomLineFields ==
  ASSUME NEW p, NEW op, NEW v, NEW i
  PROVE  LET l == BoomLine(p, op, v, i) IN
         /\ IsLine(l) /\ l.pc = p /\ l.insn = op /\ l.csr = op.csr /\ l.irq = i /\ l.addr = None
         /\ l.k = IF op.reg = None THEN "insn" ELSE IF op.reg = "f1" THEN "freg" ELSE "reg"
         /\ l.reg = op.reg /\ l.val = v
<1> DEFINE l == BoomLine(p, op, v, i)
<1>1. CASE op.reg = None
  <2>1. l = [NoLine EXCEPT !.k = "insn", !.pc = p, !.val = v, !.irq = i, !.insn = op, !.csr = op.csr]
    BY <1>1 DEF BoomLine
  <2> HIDE DEF l
  <2> QED BY <1>1, <2>1 DEF NoLine, IsLine, Fields, l
<1>2. CASE op.reg # None
  <2> DEFINE o == RegLine(p, op.reg, v)
  <2>1. l = [o EXCEPT !.k = @, !.pc = p, !.val = v, !.irq = i, !.insn = op, !.csr = op.csr]
    BY <1>2 DEF BoomLine
  <2>2. IsRegLine(o, p, op.reg, v)
    BY RegLineFields
  <2> HIDE DEF l, o
  <2> QED BY <1>2, <2>1, <2>2, NoLineFields DEF IsRegLine, SameStore, IsLine, Fields, l
<1> QED BY <1>1, <1>2

LEMMA BoomTold ==
  ASSUME NEW h, History(config, h), NEW k \in DOMAIN h, k = Len(h), config.sim = "boom",
         NEW l, l = BoomLine(h[k].pc, h[k].op, Value(h, k), ReadsInterrupt(h, k))
  PROVE  Told(config, l, h, k)
<1> DEFINE op == h[k].op
<1>1. /\ IsLine(l) /\ l.pc = h[k].pc /\ l.insn = op /\ l.csr = op.csr /\ l.addr = None
      /\ l.irq = ReadsInterrupt(h, k)
      /\ l.k = IF op.reg = None THEN "insn" ELSE IF op.reg = "f1" THEN "freg" ELSE "reg"
      /\ l.reg = op.reg /\ l.val = Value(h, k)
  BY BoomLineFields
<1>2. /\ op \in Operations /\ Proper(op) /\ h[k].pc # HandlerPc
  BY StepTyped
<1>3. op.csr # None => Value(h, k) \in Nat
  BY ValueRead
<1>4. op.csr # None => op.reg = "x1"
  BY <1>2 DEF Proper
<1>5. op.csr \in {"mepc", "mcause", None}
  BY <1>2 DEF Operations
<1>6. op.csr # None => l.k = "reg" /\ l.val \in Nat
  BY <1>1, <1>3, <1>4, NoneAssumption
<1>7. ToldKind(l)
  BY <1>1, <1>5, <1>6, NoneAssumption DEF ToldKind
<1>8. op # None
  BY <1>2, NoneAssumption
<1> QED BY <1>1, <1>2, <1>7, <1>8 DEF Told, ToldExc, ToldReg, ToldStore, ToldBoom

LEMMA BoomAdds ==
  ASSUME NEW h, History(config, h), NEW k \in DOMAIN h, k = Len(h), config.sim = "boom",
         NEW lg, NEW e, Good(config, lg, h, e), h[k].op.csr # None => e = Epc(h)
  PROVE  LET s == <<BoomLine(h[k].pc, h[k].op, Value(h, k), ReadsInterrupt(h, k))>> IN
         Good(config, lg \o s, h, e) /\ IsLog(s)
<1> DEFINE l == BoomLine(h[k].pc, h[k].op, Value(h, k), ReadsInterrupt(h, k))
           op == h[k].op
<1>1. l.csr = op.csr /\ l.irq = ReadsInterrupt(h, k) /\ (op.reg # None => l.val = Value(h, k))
  BY BoomLineFields
<1>6. Told(config, l, h, k)
  BY BoomTold
<1> HIDE DEF l
<1>4. op.csr # None => op.reg = "x1"
  BY StepTyped DEF Proper
<1>5. op.csr \in {"mepc", "mcause", None}
  BY StepTyped DEF Operations
<1>7. IsLog(<<l>>) /\ IsLog(lg \o <<l>>) /\ AllTold(config, lg \o <<l>>, h)
  BY <1>6, LogOne, LogFacts, ToldMore DEF Good
<1>8. Paired(lg \o <<l>>, h, e)
  <2>1. CASE l.csr = None
    BY <2>1, PairedQuiet DEF Good
  <2>2. CASE l.csr = "mepc"
    <3>1. l.val = e
      BY <1>1, <1>4, <2>2, ValueRead, NoneAssumption
    <3> QED BY <2>2, <3>1, PairedEpc DEF Good
  <2>3. CASE l.csr = "mcause"
    <3>1. e = HandlerPc \/ ToldTrap(h, e, l.val, l.irq)
      BY <1>1, <1>4, <2>3, ValueRead, NoneAssumption
    <3> QED BY <2>3, <3>1, PairedCause DEF Good
  <2> QED BY <1>1, <1>5, <2>1, <2>2, <2>3
<1> QED BY <1>7, <1>8 DEF Good, l

(* Every line printed tells of a step that was executed, every memory      *)
(* write that waits is of one, and the reads of mepc and mcause belong     *)
(* together.                                                               *)
Stored(c, w, h) ==
  \E k \in DOMAIN h : /\ c.sim = "boom" /\ Writes(h[k].op)
                      /\ w = [pc |-> h[k].pc, op |-> h[k].op, val |-> k]
Printing ==
  /\ History(config, history) /\ Good(config, log, history, Epc(history))
  /\ IsLog(store) /\ \A i \in DOMAIN store : Stored(config, store[i], history)

LEMMA NothingAdds ==
  ASSUME NEW lg, NEW h, NEW e, Good(config, lg, h, e)
  PROVE  lg \o <<>> = lg /\ IsLog(<<>>)
<1>1. PICK S : lg \in Seq(S)
  BY DEF Good, IsLog
<1>2. lg \o <<>> = lg
  BY <1>1
<1> QED BY <1>2, LogOne

LEMMA OneAdds ==
  ASSUME NEW lg, IsLog(lg), NEW l
  PROVE  Append(lg, l) = lg \o <<l>> /\ IsLog(Append(lg, l)) /\ Len(Append(lg, l)) = Len(lg) + 1
         /\ DOMAIN Append(lg, l) = DOMAIN lg \cup {Len(lg) + 1}
         /\ Append(lg, l)[Len(lg) + 1] = l
         /\ \A i \in DOMAIN lg : Append(lg, l)[i] = lg[i]
<1>1. PICK S : lg \in Seq(S)
  BY DEF IsLog
<1>2. lg \in Seq(S \cup {l}) /\ l \in S \cup {l}
  BY <1>1
<1>3. Append(lg, l) \in Seq(S \cup {l})
  BY <1>2
<1>4. Append(lg, l) = lg \o <<l>>
  BY <1>2, AppendIsConcat
<1>5. IsLog(Append(lg, l))
  BY <1>3 DEF IsLog
<1> QED BY <1>2, <1>4, <1>5

LEMMA ExecutePrints ==
  ASSUME Printing, Execute
  PROVE  Printing'
<1> DEFINE h == history  k == Len(h) + 1  p == config.path[k]  op == config.program[p]
           s == [pc |-> p, op |-> op]  g == Append(h, s)
           atEnd == IF op.traps THEN TrapLines(p, op, k) ELSE <<>>
           before == IF op.irq THEN TrapLines(p, op, k) ELSE <<>>
           between == CASE config.sim = "boom" /\ Printed /\ Writes(op) ->
                             <<StoreLine([NoLine EXCEPT !.k = "store", !.pc = p], op, k)>>
                        [] config.sim = "boom" /\ ~(Printed /\ Writes(op)) ->
                             <<BoomLine(p, op, Value(g, k), ReadsInterrupt(g, k))>>
                        [] config.sim # "boom" /\ ~op.traps -> CommitLines(p, op, Value(g, k))
                        [] OTHER -> <<>>
           la == log \o before
           lb == la \o between
           ea == IF op.irq THEN p ELSE Epc(h)
<1>1. /\ history' = g /\ log' = lb \o atEnd /\ config' = config
      /\ store' = IF config.sim = "boom" /\ Writes(op) /\ ~Printed
                  THEN Append(store, [pc |-> p, op |-> op, val |-> k])
                  ELSE store
  BY DEF Execute, Executed
<1>2. s \in Executable(config)
  <2>1. Runnable(config) /\ Len(h) \in Nat
    BY ConfigsAssumption DEF Printing, History
  <2>3. k <= Len(config.path)
    <3>1. Len(history) < Len(config.path)
      BY DEF Execute, Executed
    <3>2. Len(config.path) \in Nat
      BY <2>1 DEF Runnable
    <3> QED BY <2>1, <3>1, <3>2
  <2>2. p \in DOMAIN config.program
    BY <2>1, <2>3 DEF Runnable
  <2> QED BY <2>2 DEF Executable
<1>3. /\ History(config, h) /\ History(config, g) /\ Len(h) \in Nat /\ Len(g) = k /\ g[k] = s
      /\ k \in DOMAIN g /\ g[k].pc = p /\ g[k].op = op
  BY <1>2, HistoryGrows DEF Printing
<1>4. /\ op \in Operations /\ Proper(op)
      /\ op.irq => config.sim \in TellsInterrupts
  <2> HIDE DEF h, k, p, op, s, g
  <2> QED BY <1>3, StepTyped
<1>5. /\ op.traps \/ op.irq => Struck(g, k) /\ Epc(g) = p
      /\ ~(op.traps \/ op.irq) => Epc(g) = Epc(h)
  BY <1>2, <1>3, EpcGrows
<1> HIDE DEF h, k, s, g
<1>6. Good(config, log, g, Epc(h))
  <2>1. Good(config, log, h, Epc(h)) /\ History(config, h) /\ s \in Executable(config)
    BY <1>2 DEF Printing, h
  <2>2. AllTold(config, log, g)
    <3> SUFFICES ASSUME NEW i \in DOMAIN log PROVE \E j \in DOMAIN g : Told(config, log[i], g, j)
      BY DEF AllTold
    <3>1. PICK j \in DOMAIN h : Told(config, log[i], h, j)
      BY <2>1 DEF Good, AllTold
    <3> QED BY <2>1, <3>1, ToldGrows DEF g
  <2> QED BY <2>1, <2>2, PairedGrows DEF Good, g
<1> HIDE DEF p, op
<1>7. Good(config, la, g, ea)
  <2>1. CASE op.irq
    <3>1. Struck(g, k)
      BY <1>5, <2>1
    <3>2. Good(config, log \o TrapLines(p, op, k), g, p)
      BY <1>3, <1>6, <3>1, TrapLinesTold, LogFacts DEF Good
    <3> QED BY <2>1, <3>2
  <2>2. CASE ~op.irq
    BY <1>6, <2>2, NothingAdds
  <2> QED BY <2>1, <2>2
<1>8. Good(config, lb, g, ea)
  <2> HIDE DEF la, ea
  <2>1. CASE config.sim = "boom" /\ Printed /\ Writes(op)
    <3> DEFINE o == MemLine(p)  l == StoreLine(o, op, k)
    <3>1. between = <<l>>
      BY <2>1 DEF MemLine
    <3>2. IsLine(o) /\ o.pc = p /\ o.csr = None /\ o.insn = None
      BY MemLineFields
    <3> HIDE DEF o
    <3>3. Told(config, l, g, k) /\ l.csr = None
      BY <1>3, <2>1, <3>2, StoreTold DEF o
    <3> HIDE DEF l, between
    <3> QED BY <1>3, <1>7, <3>1, <3>3, QuietAdds
  <2>2. CASE config.sim = "boom" /\ ~(Printed /\ Writes(op))
    <3>1. between = <<BoomLine(p, op, Value(g, k), ReadsInterrupt(g, k))>>
      BY <2>2
    <3>2. op.csr # None => ea = Epc(g)
      <4>1. op.csr # None => ~op.traps
        BY <1>4, NoneAssumption DEF Proper
      <4> QED BY <1>5, <4>1 DEF ea
    <3> HIDE DEF between
    <3> QED BY <1>3, <1>7, <2>2, <3>1, <3>2, BoomAdds
  <2>3. CASE config.sim # "boom" /\ ~op.traps
    <3>1. between = CommitLines(p, op, Value(g, k))
      BY <2>3
    <3> HIDE DEF between
    <3> QED BY <1>3, <1>7, <2>3, <3>1, CommitAdds
  <2>4. CASE config.sim # "boom" /\ op.traps
    <3>1. between = <<>>
      BY <2>4
    <3> HIDE DEF between
    <3> QED BY <1>7, <3>1, NothingAdds
  <2> QED BY <2>1, <2>2, <2>3, <2>4
<1>9. Good(config, log', g, Epc(g))
  <2> HIDE DEF lb, ea
  <2>1. CASE op.traps
    <3>1. Struck(g, k) /\ Epc(g) = p
      BY <1>5, <2>1
    <3>2. Good(config, lb \o TrapLines(p, op, k), g, p)
      <4>1. IsLog(lb) /\ AllTold(config, lb, g) /\ Paired(lb, g, ea)
        BY <1>8 DEF Good
      <4>2. /\ IsLog(TrapLines(p, op, k)) /\ AllTold(config, lb \o TrapLines(p, op, k), g)
            /\ Paired(lb \o TrapLines(p, op, k), g, p)
        BY <1>3, <3>1, <4>1, TrapLinesTold
      <4> QED BY <4>1, <4>2, LogFacts DEF Good
    <3> QED BY <1>1, <2>1, <3>1, <3>2
  <2>2. CASE ~op.traps
    <3>1. ea = Epc(g)
      BY <1>5, <2>2 DEF ea
    <3> QED BY <1>1, <1>8, <2>2, <3>1, NothingAdds
  <2> QED BY <2>1, <2>2
<1> HIDE DEF la, lb, ea, before, between, atEnd
<1>10. IsLog(store') /\ \A i \in DOMAIN store' : Stored(config, store'[i], g)
  <2> DEFINE w == [pc |-> p, op |-> op, val |-> k]
  <2>1. ASSUME NEW v, Stored(config, v, h) PROVE Stored(config, v, g)
    <3>1. PICK j \in DOMAIN h : config.sim = "boom" /\ Writes(h[j].op)
                                /\ v = [pc |-> h[j].pc, op |-> h[j].op, val |-> j]
      BY <2>1 DEF Stored
    <3>2. j \in DOMAIN g /\ g[j] = h[j]
      BY <1>2, <1>3, HistoryGrows DEF g
    <3> QED BY <3>1, <3>2 DEF Stored
  <2>2. CASE config.sim = "boom" /\ Writes(op) /\ ~Printed
    <3>1. Stored(config, w, g)
      BY <1>3, <2>2 DEF Stored
    <3>2. store' = Append(store, w) /\ IsLog(store)
      BY <1>1, <2>2 DEF Printing
    <3>3. \A i \in DOMAIN store : Stored(config, store[i], g)
      BY <2>1 DEF Printing, h
    <3> HIDE DEF w
    <3>4. IsLog(Append(store, w))
      BY <3>2, OneAdds
    <3>5. \A i \in DOMAIN Append(store, w) : Stored(config, Append(store, w)[i], g)
      BY <3>1, <3>2, <3>3, OneAdds
    <3> QED BY <3>2, <3>4, <3>5
  <2>3. CASE ~(config.sim = "boom" /\ Writes(op) /\ ~Printed)
    BY <1>1, <2>1, <2>3 DEF Printing, h
  <2> QED BY <2>2, <2>3
<1> QED BY <1>1, <1>3, <1>9, <1>10 DEF Printing

(* The line of a memory write.                                             *)
MtLine(w) ==
  [StoreLine([NoLine EXCEPT !.k = "mt"], w.op, w.val)
     EXCEPT !.pc = IF config.patched THEN w.pc ELSE HandlerPc, !.insn = w.op]

LEMMA WriteTold ==
  ASSUME Printing, NEW k \in DOMAIN history, config.sim = "boom", Writes(history[k].op),
         NEW w, w = [pc |-> history[k].pc, op |-> history[k].op, val |-> k]
  PROVE  /\ Told(config, MtLine(w), history, k) /\ MtLine(w).k = "mt" /\ MtLine(w).csr = None
         /\ MtLine(w).pc = IF config.patched THEN history[k].pc ELSE HandlerPc
<1> DEFINE o == [NoLine EXCEPT !.k = "mt"]
           q == StoreLine(o, w.op, w.val)
           l == [q EXCEPT !.pc = IF config.patched THEN w.pc ELSE HandlerPc, !.insn = w.op]
<1>1. w.pc = history[k].pc /\ w.op = history[k].op /\ w.val = k
  OBVIOUS
<1>2. History(config, history) /\ config.sim \in Simulators /\ w.op \in Operations /\ w.pc # HandlerPc
  BY <1>1, StepTyped DEF Printing
<1>3. IsLine(o) /\ o.k = "mt" /\ o.reg = None /\ o.csr = None
  BY DEF NoLine, IsLine, Fields
<1>4. l = MtLine(w)
  BY DEF MtLine
<1> HIDE DEF o, q
<1>5. IsLine(q) /\ SameCommit(q, o) /\ ShowsStore(config, q, w.op, k)
  BY <1>1, <1>2, <1>3, StoreLineFields DEF q
<1>6. q.addr # None
  <2>1. w.op.addr \in Nat
    BY <1>1, <1>2, LanesAssumption DEF Operations, Writes, Memory
  <2> QED BY <1>5, <2>1, NoneAssumption DEF ShowsStore, Wide
<1>7. /\ IsLine(l) /\ l.k = "mt" /\ l.reg = None /\ l.csr = None /\ l.insn = w.op
      /\ l.addr = q.addr /\ l.size = q.size /\ l.data = q.data /\ l.mask = q.mask
      /\ l.segments = q.segments /\ l.pc = IF config.patched THEN w.pc ELSE HandlerPc
  <2>1. q.k = "mt" /\ q.reg = None /\ q.csr = None
    BY <1>3, <1>5 DEF SameCommit
  <2> QED BY <1>5, <2>1 DEF IsLine, Fields
<1> HIDE DEF l
<1>8. Told(config, l, history, k)
  <2>1. ShowsStore(config, l, w.op, k)
    BY <1>5, <1>7 DEF ShowsStore
  <2> QED BY <1>1, <1>6, <1>7, <2>1 DEF Told, ToldKind, ToldExc, ToldReg, ToldStore, ToldBoom
<1> QED BY <1>1, <1>4, <1>7, <1>8

LEMMA PrintWritePrints ==
  ASSUME Printing, PrintWrite
  PROVE  Printing'
<1> DEFINE w == Head(store)  l == MtLine(w)
<1>1. log' = Append(log, l) /\ store' = Tail(store) /\ history' = history /\ config' = config
      /\ store # <<>>
  BY DEF PrintWrite, MtLine
<1>2. PICK S : store \in Seq(S)
  BY DEF Printing, IsLog
<1>3. w = store[1] /\ 1 \in DOMAIN store
  BY <1>1, <1>2
<1>4. PICK k \in DOMAIN history : /\ config.sim = "boom" /\ Writes(history[k].op)
                                  /\ w = [pc |-> history[k].pc, op |-> history[k].op, val |-> k]
  BY <1>3 DEF Printing, Stored
<1> HIDE DEF w
<1>5. Told(config, l, history, k) /\ l.csr = None
  BY <1>4, WriteTold
<1> HIDE DEF l
<1>6. Good(config, log', history, Epc(history))
  <2>1. Good(config, log \o <<l>>, history, Epc(history))
    BY <1>5, QuietAdds DEF Printing
  <2> QED BY <1>1, <2>1, OneAdds DEF Printing, Good
<1>7. IsLog(store') /\ \A i \in DOMAIN store' : Stored(config, store'[i], history)
  <2>1. Tail(store) \in Seq(S) /\ \A i \in DOMAIN Tail(store) : i + 1 \in DOMAIN store
                                     /\ Tail(store)[i] = store[i + 1]
    BY <1>1, <1>2
  <2>2. IsLog(store')
    BY <1>1, <2>1 DEF IsLog
  <2> QED BY <1>1, <2>1, <2>2 DEF Printing
<1> QED BY <1>1, <1>6, <1>7 DEF Printing

LEMMA PrintNoisePrints ==
  ASSUME Printing, PrintNoise
  PROVE  Printing'
<1>1. log' = Append(log, NoLine) /\ store' = store /\ history' = history /\ config' = config
      /\ store # <<>>
  BY DEF PrintNoise
<1>2. PICK S : store \in Seq(S)
  BY DEF Printing, IsLog
<1>3. 1 \in DOMAIN store
  BY <1>1, <1>2
<1>4. PICK k \in DOMAIN history : TRUE
  BY <1>3 DEF Printing, Stored
<1>5. Told(config, NoLine, history, k) /\ NoLine.csr = None
  BY NoLineFields DEF Told, ToldKind, ToldExc, ToldReg, ToldStore, ToldBoom
<1>6. Good(config, log', history, Epc(history))
  <2>1. Good(config, log \o <<NoLine>>, history, Epc(history))
    BY <1>5, QuietAdds DEF Printing
  <2> QED BY <1>1, <2>1, OneAdds DEF Printing, Good
<1> QED BY <1>1, <1>6 DEF Printing

(* Only the processor prints, and before anything is read.                 *)
ReadersIdle == pos = 0 /\ trace = <<{}, {}, {}>> /\ boom = NoBoom /\ trap = NoTrap
PrintingInv ==
  /\ Printing
  /\ pc \in {"run", "read", "map", "done", "failed"}
  /\ pc = "run" => ReadersIdle

LEMMA PrintingInit == Init => PrintingInv
<1> SUFFICES ASSUME Init PROVE PrintingInv
  OBVIOUS
<1>1. history = <<>> /\ store = <<>> /\ log = <<>> /\ config \in Configs
  BY DEF Init
<1>2. History(config, history) /\ Len(history) = 0 /\ DOMAIN history = {}
  BY <1>1 DEF History
<1>3. IsLog(log) /\ IsLog(store) /\ DOMAIN log = {} /\ DOMAIN store = {}
  <2>1. IsLog(<<>>)
    BY LogOne
  <2> QED BY <1>1, <2>1
<1>4. Good(config, log, history, Epc(history))
  BY <1>3 DEF Good, AllTold, Paired, Closed, Open
<1>5. Printing
  BY <1>2, <1>3, <1>4 DEF Printing
<1>6. pc = "run" /\ ReadersIdle
  BY DEF Init, ReadersIdle, trace
<1> QED BY <1>5, <1>6 DEF PrintingInv

LEMMA PrintingNext ==
  ASSUME PrintingInv, [Next]_vars
  PROVE  PrintingInv'
<1>1. CASE Execute
  <2>1. Printing'
    BY <1>1, ExecutePrints DEF PrintingInv
  <2>2. UNCHANGED <<pos, trace, boom, trap, pc>>
    BY <1>1 DEF Execute
  <2> QED BY <2>1, <2>2 DEF PrintingInv, ReadersIdle, trace
<1>2. CASE PrintWrite \/ PrintNoise
  <2>1. Printing'
    BY <1>2, PrintWritePrints, PrintNoisePrints DEF PrintingInv
  <2>2. UNCHANGED <<pos, trace, boom, trap, pc>>
    BY <1>2 DEF PrintWrite, PrintNoise
  <2> QED BY <2>1, <2>2 DEF PrintingInv, ReadersIdle, trace
<1>3. CASE ~(Execute \/ PrintWrite \/ PrintNoise)
  <2>1. /\ UNCHANGED <<config, history, store, log>> /\ pc' \in {"run", "read", "map", "done", "failed"}
        /\ pc' = "run" => pc = "run" /\ UNCHANGED <<pos, trace, boom, trap>>
    <3> USE DEF Others, Consumed, Plain, Reads, trace
    <3>1. CASE Exit \/ EndOfLog \/ MapLine \/ MapFails \/ Build \/ UNCHANGED vars
      BY <3>1 DEF Exit, EndOfLog, MapLine, MapFails, Build, vars, PrintingInv
    <3>2. CASE RocketRegister \/ RocketFloat \/ RocketStore \/ RocketException \/ SpikeCommit \/ SpikeException
      BY <3>2 DEF RocketRegister, RocketFloat, RocketStore, RocketException, SpikeCommit, SpikeException
    <3>3. CASE Cva6Register \/ Cva6Atomic \/ Cva6Store \/ Cva6Exception \/ PicoLine \/ XsCommit \/ XsMemory \/ XsException
      BY <3>3 DEF Cva6Register, Cva6Atomic, Cva6Store, Cva6Exception, PicoLine, XsCommit, XsMemory, XsException
    <3>4. CASE VexWrite \/ VexException \/ IbexLine \/ KronosLine \/ Srv32Line \/ Ignore
      BY <3>4 DEF VexWrite, VexException, IbexLine, KronosLine, Srv32Line, Ignore
    <3>5. CASE BoomInstruction \/ BoomRegister \/ BoomFloat \/ BoomStore \/ BoomException \/ BoomWrite
      BY <3>5 DEF BoomInstruction, BoomRegister, BoomFloat, BoomStore, BoomException, BoomWrite
    <3> QED BY <1>3, <3>1, <3>2, <3>3, <3>4, <3>5 DEF Next, ReadLine
  <2>2. Printing'
    BY <2>1 DEF PrintingInv, Printing
  <2> QED BY <2>1, <2>2 DEF PrintingInv, ReadersIdle, trace
<1> QED BY <1>1, <1>2, <1>3

-----------------------------------------------------------------------------
(* What the parsers make of exceptions.                                    *)

ExcRight(x, h) ==
  x.pc # HandlerPc =>
    \E k \in DOMAIN h : Struck(h, k) /\ h[k].pc = x.pc /\ x.data = <<k, h[k].op.irq>>

(* A value of mepc that was noted is that of the last read of either.      *)
Noting == {"boom", "srv32"}
Noted ==
  /\ config.sim \notin Noting => trap = NoTrap
  /\ DOMAIN trap = {"mepc", "mcause"}
  /\ trap.mepc # None =>
       /\ trap.mcause = None
       /\ \E a \in 1..pos : log[a].csr = "mepc" /\ log[a].val = trap.mepc /\ Quiet(log, a + 1, pos)
PairedInv ==
  /\ PrintingInv /\ pos \in 0..Len(log)
  /\ Noted /\ \A x \in excs : ExcRight(x, history)

LEMMA LineTold ==
  ASSUME PairedInv, pos < Len(log)
  PROVE  /\ pos \in Nat /\ Len(log) \in Nat /\ pos + 1 \in DOMAIN log /\ DOMAIN log = 1..Len(log)
         /\ pos + 1 \in 0..Len(log)
         /\ \E k \in DOMAIN history : Told(config, Line, history, k)
<1>1. IsLog(log) /\ AllTold(config, log, history)
  BY DEF PairedInv, PrintingInv, Printing, Good
<1>2. Len(log) \in Nat /\ DOMAIN log = 1..Len(log)
  BY <1>1, LogFacts
<1>3. pos \in Nat /\ pos + 1 \in DOMAIN log /\ pos + 1 \in 0..Len(log)
  BY <1>2 DEF PairedInv
<1> QED BY <1>1, <1>2, <1>3 DEF AllTold, Line

(* An exception line.                                                      *)
LEMMA ExcLineRight ==
  ASSUME PairedInv, pos < Len(log), Line.k = "exc", NEW i,
         i = Line.irq \/ (config.sim \notin TellsInterrupts /\ (i = FALSE \/ i = (Line.irq /\ Line.file = "exc")))
  PROVE  ExcRight(Raised(Line.pc, Line.cause, i), history)
<1>1. PICK k \in DOMAIN history : Told(config, Line, history, k)
  BY LineTold
<1>2. Struck(history, k) /\ Line.pc = history[k].pc /\ Line.cause = k /\ Line.irq = history[k].op.irq
  BY <1>1 DEF Told, ToldExc
<1>3. history[k].op.irq \in BOOLEAN /\ (history[k].op.irq => config.sim \in TellsInterrupts)
  BY StepTyped DEF Operations, PairedInv, PrintingInv, Printing
<1>4. i = history[k].op.irq
  BY <1>2, <1>3
<1>5. Raised(Line.pc, Line.cause, i).pc = history[k].pc
      /\ Raised(Line.pc, Line.cause, i).data = <<k, history[k].op.irq>>
  BY <1>2, <1>4 DEF Raised
<1> QED BY <1>2, <1>5 DEF ExcRight

LEMMA PutRight ==
  ASSUME NEW h, NEW ws, \A x \in ws : ExcRight(x, h), NEW w, ExcRight(w, h)
  PROVE  \A x \in Put(ws, w) : ExcRight(x, h)
BY DEF Put

(* Lines from which nothing is noted.                                      *)
LEMMA NotedSame ==
  ASSUME PairedInv, pos < Len(log), pos' = pos + 1, UNCHANGED <<config, log, trap>>,
         config.sim \notin Noting \/ Line.csr = None
  PROVE  Noted'
<1>1. CASE config.sim \notin Noting
  <2>1. trap = NoTrap
    BY <1>1 DEF PairedInv, Noted
  <2>2. trap.mepc = None
    BY <2>1 DEF NoTrap
  <2> QED BY <1>1, <2>1, <2>2 DEF Noted, NoTrap
<1>2. CASE config.sim \in Noting /\ Line.csr = None
  <2>1. ASSUME trap.mepc # None
        PROVE  trap.mcause = None /\ \E a \in 1..pos + 1 :
                  log[a].csr = "mepc" /\ log[a].val = trap.mepc /\ Quiet(log, a + 1, pos + 1)
    <3>1. trap.mcause = None
      BY <2>1 DEF PairedInv, Noted
    <3>2. PICK a \in 1..pos : log[a].csr = "mepc" /\ log[a].val = trap.mepc /\ Quiet(log, a + 1, pos)
      BY <2>1 DEF PairedInv, Noted
    <3>3. pos \in Nat
      BY LineTold
    <3>4. \A m \in a + 1..pos + 1 : m \in a + 1..pos \/ m = pos + 1
      BY <3>3
    <3>5. Quiet(log, a + 1, pos + 1)
      BY <1>2, <3>2, <3>4 DEF Quiet, Line
    <3>6. a \in 1..pos + 1
      BY <3>3
    <3> QED BY <3>1, <3>2, <3>5, <3>6
  <2> QED BY <1>2, <2>1 DEF Noted, PairedInv
<1> QED BY <1>1, <1>2

(* A line that reads one of the two, or neither, is noted.                 *)
LEMMA NotedNext ==
  ASSUME PairedInv, pos < Len(log), pos' = pos + 1, UNCHANGED <<config, log>>,
         config.sim \in Noting,
         NEW known \in BOOLEAN,
         known => Line.csr # None,
         Noticed(Line.csr).mepc # None /\ Noticed(Line.csr).mcause # None /\ Line.csr # None => known,
         trap' = IF known THEN NoTrap ELSE Noticed(Line.csr)
  PROVE  Noted'
<1>1. pos \in Nat
  BY LineTold
<1>2. PICK k \in DOMAIN history : Told(config, Line, history, k)
  BY LineTold
<1>3. Line.csr \in {"mepc", "mcause", None} /\ (Line.csr # None => Line.val \in Nat)
  BY <1>2 DEF Told, ToldKind
<1>4. CASE known
  <2>1. trap'.mepc = None
    BY <1>4 DEF NoTrap
  <2> QED BY <1>4, <2>1 DEF Noted, NoTrap
<1>5. CASE ~known /\ Line.csr = None
  <2>1. trap' = trap
    BY <1>5, NoneAssumption DEF Noticed
  <2> QED BY <1>5, <2>1, NotedSame
<1>6. CASE ~known /\ Line.csr = "mepc"
  <2>1. trap' = [mepc |-> Line.val, mcause |-> None]
    BY <1>6 DEF Noticed
  <2>2. trap'.mepc = Line.val /\ trap'.mcause = None /\ DOMAIN trap' = {"mepc", "mcause"}
    BY <2>1
  <2>3. pos + 1 \in 1..pos + 1 /\ Quiet(log, (pos + 1) + 1, pos + 1)
    BY <1>1 DEF Quiet
  <2> QED BY <1>6, <2>2, <2>3 DEF Noted, Line
<1>7. CASE ~known /\ Line.csr = "mcause"
  <2>1. Noticed(Line.csr) = [trap EXCEPT !.mcause = Line.val]
    BY <1>7 DEF Noticed
  <2>4. DOMAIN trap' = {"mepc", "mcause"}
    BY <1>7, <2>1 DEF PairedInv, Noted
  <2>2. CASE trap'.mepc = None
    BY <1>7, <2>2, <2>4 DEF Noted
  <2>3. CASE trap'.mepc # None
    <3>1. trap' = [trap EXCEPT !.mcause = Line.val]
      BY <1>7, <2>1
    <3>2. trap'.mcause = None
      BY <1>7, <2>3, NoneAssumption
    <3>3. trap'.mcause = Line.val /\ Line.val \in Nat
      BY <1>3, <1>7, <3>1, NoneAssumption DEF PairedInv, Noted
    <3> QED BY <3>2, <3>3, NoneAssumption
  <2> QED BY <2>2, <2>3
<1> QED BY <1>3, <1>4, <1>5, <1>6, <1>7

(* The simulators that print the exceptions of others.                     *)
LEMMA PlainReads ==
  ASSUME PairedInv,
         \/ RocketRegister \/ RocketFloat \/ RocketStore \/ RocketException
         \/ SpikeCommit \/ SpikeException
         \/ Cva6Register \/ Cva6Atomic \/ Cva6Store \/ Cva6Exception
         \/ PicoLine \/ XsCommit \/ XsMemory \/ XsException \/ VexWrite \/ VexException \/ IbexLine \/ KronosLine
         \/ BoomInstruction \/ BoomFloat \/ BoomStore \/ BoomException \/ BoomWrite \/ Ignore
  PROVE  /\ pos < Len(log) /\ pos' = pos + 1 /\ UNCHANGED <<config, history, log, trap>>
         /\ config.sim \notin Noting \/ Line.csr = None
         /\ \A x \in excs' : ExcRight(x, history)
<1> USE DEF Others, Consumed, Plain, Reads, trace, Noting, TellsInterrupts
<1>1. \A x \in excs : ExcRight(x, history)
  BY DEF PairedInv
<1>2. pos < Len(log) /\ Line.k # "reg" => Line.csr = None
  BY LineTold DEF Told, ToldKind
<1>3. CASE RocketRegister \/ RocketFloat \/ RocketStore \/ SpikeCommit \/ Cva6Register \/ Cva6Atomic
           \/ Cva6Store \/ XsCommit \/ XsMemory \/ VexWrite
  BY <1>1, <1>3 DEF RocketRegister, RocketFloat, RocketStore, SpikeCommit, Cva6Register, Cva6Atomic,
     Cva6Store, XsCommit, XsMemory, VexWrite
<1>4. CASE BoomInstruction \/ BoomFloat \/ BoomStore \/ BoomWrite \/ Ignore
  BY <1>1, <1>2, <1>4 DEF BoomInstruction, BoomFloat, BoomStore, BoomWrite, Ignore
<1>5. CASE RocketException \/ SpikeException \/ BoomException
  <2>1. /\ pos < Len(log) /\ pos' = pos + 1 /\ UNCHANGED <<config, history, log, trap>> /\ Line.k = "exc"
        /\ excs' = Put(excs, Raised(Line.pc, Line.cause, Line.irq))
    BY <1>5 DEF RocketException, SpikeException, BoomException
  <2> QED BY <1>1, <1>2, <2>1, ExcLineRight, PutRight
<1>6. CASE Cva6Exception \/ PicoLine \/ XsException \/ IbexLine \/ KronosLine
  <2>1. /\ pos < Len(log) /\ pos' = pos + 1 /\ UNCHANGED <<config, history, log, trap>>
        /\ config.sim \notin Noting /\ config.sim \notin TellsInterrupts
        /\ \/ excs' = Put(excs, Raised(Line.pc, Line.cause, FALSE)) /\ Line.k = "exc"
           \/ excs' = excs
    BY <1>6 DEF Cva6Exception, PicoLine, XsException, IbexLine, KronosLine
  <2>2. Line.k = "exc" => ExcRight(Raised(Line.pc, Line.cause, FALSE), history)
    BY <2>1, ExcLineRight
  <2> QED BY <1>1, <2>1, <2>2, PutRight
<1>7. CASE VexException
  <2>1. /\ pos < Len(log) /\ pos' = pos + 1 /\ UNCHANGED <<config, history, log, trap>>
        /\ config.sim \notin Noting /\ config.sim \notin TellsInterrupts /\ Line.k = "exc"
        /\ \/ excs' = Put(excs, Raised(Line.pc, Line.cause, Line.irq /\ Line.file = "exc"))
           \/ excs' = excs
    BY <1>7 DEF VexException
  <2>2. ExcRight(Raised(Line.pc, Line.cause, Line.irq /\ Line.file = "exc"), history)
    BY <2>1, ExcLineRight
  <2> QED BY <1>1, <2>1, <2>2, PutRight
<1> QED BY <1>3, <1>4, <1>5, <1>6, <1>7

(* The two values noted are those of one trap.                             *)
LEMMA NotedRight ==
  ASSUME PairedInv, pos < Len(log), config.sim \in Noting, Line.csr # None,
         Noticed(Line.csr).mepc # None, Noticed(Line.csr).mcause # None
  PROVE  ExcRight(Raised(Noticed(Line.csr).mepc, Noticed(Line.csr).mcause, Line.irq), history)
<1> DEFINE b == pos + 1
<1>1. /\ pos \in Nat /\ b \in DOMAIN log /\ DOMAIN log = 1..Len(log) /\ Len(log) \in Nat
      /\ Line.csr \in {"mepc", "mcause"}
  BY LineTold DEF Told, ToldKind
<1>2. Line.csr = "mcause"
  <2>1. ASSUME Line.csr = "mepc" PROVE FALSE
    BY <2>1 DEF Noticed
  <2> QED BY <1>1, <2>1
<1>3. Noticed(Line.csr) = [trap EXCEPT !.mcause = Line.val]
  BY <1>2 DEF Noticed
<1>4. Noticed(Line.csr).mepc = trap.mepc /\ Noticed(Line.csr).mcause = Line.val
  BY <1>3 DEF PairedInv, Noted
<1>5. PICK a \in 1..pos : log[a].csr = "mepc" /\ log[a].val = trap.mepc /\ Quiet(log, a + 1, pos)
  BY <1>4 DEF PairedInv, Noted
<1>6. a \in DOMAIN log /\ a < b /\ b - 1 = pos
  BY <1>1
<1>7. trap.mepc = HandlerPc \/ ToldTrap(history, trap.mepc, Line.val, Line.irq)
  <2>1. Closed(log, history)
    BY DEF PairedInv, PrintingInv, Printing, Good, Paired
  <2>2. log[b].csr = "mcause" /\ Line = log[b]
    BY <1>2 DEF Line
  <2>3. Quiet(log, a + 1, b - 1)
    BY <1>5, <1>6
  <2> HIDE DEF b
  <2>4. log[a].val = HandlerPc \/ ToldTrap(history, log[a].val, log[b].val, log[b].irq)
    BY <1>1, <1>5, <1>6, <2>1, <2>2, <2>3 DEF Closed
  <2> QED BY <1>5, <2>2, <2>4
<1> DEFINE x == Raised(trap.mepc, Line.val, Line.irq)
<1>8. x.pc = trap.mepc /\ x.data = <<Line.val, Line.irq>>
  BY DEF Raised
<1> HIDE DEF x
<1>9. ExcRight(x, history)
  BY <1>7, <1>8 DEF ExcRight, ToldTrap
<1> QED BY <1>4, <1>9 DEF x

LEMMA NotingReads ==
  ASSUME PairedInv, Srv32Line \/ BoomRegister
  PROVE  /\ pos < Len(log) /\ pos' = pos + 1 /\ UNCHANGED <<config, history, log>>
         /\ \A x \in excs' : ExcRight(x, history)
         /\ Noted'
<1>1. \A x \in excs : ExcRight(x, history)
  BY DEF PairedInv
<1>2. CASE BoomRegister
  <2> DEFINE seen == Noticed(Line.csr)
             known == Line.csr # None /\ seen.mepc # None /\ seen.mcause # None
  <2>1. /\ pos < Len(log) /\ pos' = pos + 1 /\ UNCHANGED <<config, history, log>> /\ config.sim \in Noting
        /\ excs' = IF known THEN Put(excs, Raised(seen.mepc, seen.mcause, Line.irq)) ELSE excs
        /\ trap' = IF known THEN NoTrap ELSE seen
    BY <1>2 DEF BoomRegister, Consumed, Others, Reads, Noting
  <2>2. Noted'
    <3>1. known \in BOOLEAN /\ (known => Line.csr # None)
          /\ (Noticed(Line.csr).mepc # None /\ Noticed(Line.csr).mcause # None /\ Line.csr # None => known)
      OBVIOUS
    <3> HIDE DEF known
    <3> QED BY <2>1, <3>1, NotedNext
  <2>3. known => ExcRight(Raised(seen.mepc, seen.mcause, Line.irq), history)
    BY <2>1, NotedRight
  <2> HIDE DEF known, seen
  <2> QED BY <1>1, <2>1, <2>2, <2>3, PutRight
<1>3. CASE Srv32Line
  <2> DEFINE seen == Noticed(HandlerReads)
             known == seen.mepc # None /\ seen.mcause # None /\ Reg /\ Line.pc = HandlerPc
  <2>1. /\ pos < Len(log) /\ pos' = pos + 1 /\ UNCHANGED <<config, history, log>> /\ config.sim \in Noting
        /\ config.sim # "boom" /\ Line.k \in {"reg", "freg", "store"}
        /\ excs' = IF known THEN Put(excs, Raised(seen.mepc, seen.mcause, Line.irq)) ELSE excs
        /\ trap' = IF known THEN NoTrap ELSE seen
    BY <1>3 DEF Srv32Line, Consumed, Others, Reads, Noting
  <2>2. PICK k \in DOMAIN history : Told(config, Line, history, k)
    BY <2>1, LineTold
  <2>3. HandlerReads = Line.csr /\ (Line.csr # None => Reg /\ Line.pc = HandlerPc)
    <3>1. CASE Line.reg = None
      <4>1. Line.k # "reg"
        BY <2>2, <3>1 DEF Told, ToldKind
      <4>2. Line.csr = None
        BY <2>2, <4>1 DEF Told, ToldKind
      <4> QED BY <3>1, <4>2, NoneAssumption DEF HandlerReads
    <3>2. CASE Line.reg # None /\ Line.pc = HandlerPc
      <4>1. <<Line.csr, Line.reg>> \in {<<"mepc", "x5">>, <<"mcause", "x6">>}
        BY <2>2, <3>2 DEF Told, ToldReg
      <4> QED BY <3>2, <4>1 DEF HandlerReads, Reg
    <3>3. CASE Line.reg # None /\ Line.pc # HandlerPc
      <4>1. Line.csr = None
        BY <2>1, <2>2, <3>3 DEF Told, ToldReg
      <4> QED BY <3>3, <4>1 DEF HandlerReads
    <3> QED BY <3>1, <3>2, <3>3
  <2>4. known => Line.csr # None
    <3> SUFFICES ASSUME known, Line.csr = None PROVE FALSE
      OBVIOUS
    <3>1. seen = trap
      BY <2>3, NoneAssumption DEF Noticed
    <3>2. PICK a \in 1..pos : TRUE
      BY <3>1 DEF PairedInv, Noted
    <3> QED BY <3>1 DEF PairedInv, Noted
  <2>5. Noted'
    <3>1. known \in BOOLEAN /\ (known => Line.csr # None)
          /\ (Noticed(Line.csr).mepc # None /\ Noticed(Line.csr).mcause # None /\ Line.csr # None => known)
      BY <2>3, <2>4
    <3>2. trap' = IF known THEN NoTrap ELSE Noticed(Line.csr)
      BY <2>1, <2>3
    <3> HIDE DEF known
    <3> QED BY <2>1, <3>1, <3>2, NotedNext
  <2>6. known => ExcRight(Raised(seen.mepc, seen.mcause, Line.irq), history)
    BY <2>1, <2>3, <2>4, NotedRight
  <2> HIDE DEF known, seen
  <2> QED BY <1>1, <2>1, <2>5, <2>6, PutRight
<1> QED BY <1>2, <1>3

LEMMA PairedNext ==
  ASSUME PairedInv, [Next]_vars
  PROVE  PairedInv'
<1>0. PrintingInv'
  BY PrintingNext DEF PairedInv
<1>1. CASE Execute \/ PrintWrite \/ PrintNoise
  <2>1. pc = "run" /\ UNCHANGED <<pos, excs, trap>>
    BY <1>1 DEF Execute, PrintWrite, PrintNoise, trace
  <2>2. pos = 0 /\ excs = {} /\ trap = NoTrap
    BY <2>1 DEF PairedInv, PrintingInv, ReadersIdle, trace
  <2>3. IsLog(log')
    BY <1>0 DEF PrintingInv, Printing, Good
  <2>4. Len(log') \in Nat
    BY <2>3, LogFacts
  <2> QED BY <1>0, <2>1, <2>2, <2>4 DEF PairedInv, Noted, NoTrap
<1>2. CASE Exit \/ EndOfLog \/ MapLine \/ MapFails \/ Build \/ UNCHANGED vars
  <2>1. UNCHANGED <<config, history, log, pos, excs, trap>>
    BY <1>2 DEF Exit, EndOfLog, MapLine, MapFails, Build, vars, trace
  <2> QED BY <1>0, <2>1 DEF PairedInv, Noted, Quiet
<1>3. CASE ReadLine
  <2>1. /\ pos < Len(log) /\ pos' = pos + 1 /\ UNCHANGED <<config, history, log>>
        /\ \A x \in excs' : ExcRight(x, history)
        /\ Noted'
    <3>1. CASE Srv32Line \/ BoomRegister
      BY <3>1, NotingReads
    <3>2. CASE ~(Srv32Line \/ BoomRegister)
      <4>1. /\ pos < Len(log) /\ pos' = pos + 1 /\ UNCHANGED <<config, history, log, trap>>
            /\ config.sim \notin Noting \/ Line.csr = None
            /\ \A x \in excs' : ExcRight(x, history)
        BY <1>3, <3>2, PlainReads DEF ReadLine
      <4>2. Noted'
        BY <4>1, NotedSame
      <4> QED BY <4>1, <4>2
    <3> QED BY <3>1, <3>2
  <2>2. pos' \in 0..Len(log')
    BY <2>1, LineTold
  <2> QED BY <1>0, <2>1, <2>2 DEF PairedInv
<1> QED BY <1>1, <1>2, <1>3 DEF Next

LEMMA PairedHolds == Spec => []PairedInv
<1>1. Init => PairedInv
  <2> SUFFICES ASSUME Init PROVE PairedInv
    OBVIOUS
  <2>1. pos = 0 /\ excs = {} /\ trap = NoTrap /\ log = <<>>
    BY DEF Init
  <2> QED BY <2>1, PrintingInit DEF PairedInv, Noted, NoTrap
<1>2. PairedInv /\ [Next]_vars => PairedInv'
  BY PairedNext
<1> QED BY <1>1, <1>2, PTL DEF Spec

(* Every exception that is read off was taken, at that address and with    *)
(* that cause, also by the simulators whose parser puts it together from   *)
(* reads of mepc and mcause (boom, srv32), whoever makes these reads, for  *)
(* executions of any length.                                               *)
THEOREM PairedRightHolds == Spec => []PairedRight
<1>1. PairedInv => PairedRight
  BY DEF PairedInv, ExcRight, PairedRight, Struck
<1> QED BY <1>1, PairedHolds, PTL

-----------------------------------------------------------------------------
(* What a log of BOOM says of accesses to memory: each one that was        *)
(* committed is settled, still waits to be printed, or was killed.         *)

IsCommit(l) == l.k # "mt" /\ l.insn # None /\ l.insn.addr # None
Reports(lg, n) ==
  IF lg[n].k = "exc" THEN {lg[n].pc}
  ELSE IF lg[n].csr # "mcause" THEN {}
  ELSE {lg[m].val : m \in {o \in 1..n - 1 : /\ lg[o].csr = "mepc"
                                            /\ \A j \in o + 1..n - 1 : lg[j].csr = None}}
Ends(lg, h, n, k) ==
  \/ lg[n].k = "mt" /\ lg[n].data[0][1] = k
  \/ h[k].pc \in Reports(lg, n)

(* Commits are those of steps before b, in their order, and O are steps    *)
(* that need not be settled yet.                                           *)
Commit(lg, h, b, m) ==
  /\ lg[m].val \in DOMAIN h /\ lg[m].val < b
  /\ \A j \in 1..m - 1 : IsCommit(lg[j]) => lg[j].val < lg[m].val
Owed(lg, h, O, m) ==
  \/ h[lg[m].val].op.killed \/ lg[m].val \in O
  \/ \E j \in m + 1..Len(lg) : Ends(lg, h, j, lg[m].val)
Due(lg, h, O, b) ==
  IsLog(lg) /\ \A m \in 1..Len(lg) : IsCommit(lg[m]) => Commit(lg, h, b, m) /\ Owed(lg, h, O, m)

(* The last line of a log.                                                 *)
LEMMA LastLine ==
  ASSUME NEW lg, IsLog(lg), NEW l
  PROVE  LET lh == lg \o <<l>>  n == Len(lg) + 1 IN
         /\ IsLog(lh) /\ lh[n] = l /\ n \in Nat /\ Len(lg) \in Nat /\ Len(lh) = n
         /\ \A m \in 1..Len(lg) : lh[m] = lg[m]
<1> DEFINE lh == lg \o <<l>>
<1>1. IsLog(<<l>>) /\ Len(<<l>>) = 1 /\ <<l>>[1] = l
  BY LogOne
<1> HIDE DEF lh
<1>2. Len(lg) \in Nat /\ Len(lh) = Len(lg) + 1 /\ IsLog(lh) /\ \A a \in 1..Len(lg) : lh[a] = lg[a]
  BY <1>1, LogFacts DEF lh
<1>3. lh[Len(lg) + 1] = l
  <2>1. 1 \in 1..Len(<<l>>)
    BY <1>1
  <2>2. lh[Len(lg) + 1] = <<l>>[1]
    BY <1>1, <2>1, LogFacts DEF lh
  <2> QED BY <1>1, <2>2
<1> QED BY <1>2, <1>3 DEF lh

(* What was settled stays settled.                                         *)
LEMMA EndsKept ==
  ASSUME NEW lg, IsLog(lg), NEW l, NEW h, NEW j \in 1..Len(lg), NEW k
  PROVE  Ends(lg \o <<l>>, h, j, k) <=> Ends(lg, h, j, k)
<1> DEFINE lh == lg \o <<l>>
<1>1. Len(lg) \in Nat /\ \A m \in 1..Len(lg) : lh[m] = lg[m]
  BY LastLine
<1>2. \A m \in 1..j : m \in 1..Len(lg)
  BY <1>1
<1>3. lh[j] = lg[j] /\ \A m \in 1..j - 1 : lh[m] = lg[m]
  BY <1>1, <1>2
<1> HIDE DEF lh
<1>4. {lh[m].val : m \in {o \in 1..j - 1 : /\ lh[o].csr = "mepc"
                                           /\ \A i \in o + 1..j - 1 : lh[i].csr = None}}
      = {lg[m].val : m \in {o \in 1..j - 1 : /\ lg[o].csr = "mepc"
                                             /\ \A i \in o + 1..j - 1 : lg[i].csr = None}}
  <2> DEFINE A == {o \in 1..j - 1 : lh[o].csr = "mepc" /\ \A i \in o + 1..j - 1 : lh[i].csr = None}
             B == {o \in 1..j - 1 : lg[o].csr = "mepc" /\ \A i \in o + 1..j - 1 : lg[i].csr = None}
  <2>1. \A o \in 1..j - 1 : \A i \in o + 1..j - 1 : i \in 1..j - 1
    BY <1>1
  <2>2. A = B
    BY <1>3, <2>1
  <2>3. \A o \in B : lh[o].val = lg[o].val
    BY <1>3
  <2> HIDE DEF A, B
  <2>4. {lh[m].val : m \in A} = {lg[m].val : m \in B}
    BY <2>2, <2>3
  <2> QED BY <2>4 DEF A, B
<1>5. Reports(lh, j) = Reports(lg, j)
  BY <1>3, <1>4 DEF Reports
<1> QED BY <1>3, <1>5 DEF Ends, lh

(* A line that commits no access.                                          *)
LEMMA DueAdds ==
  ASSUME NEW lg, NEW h, NEW O, NEW b, Due(lg, h, O, b), NEW l, ~IsCommit(l), NEW P,
         \A k \in O \cap DOMAIN h : \/ k \in P \/ h[k].op.killed
                                    \/ Ends(lg \o <<l>>, h, Len(lg) + 1, k)
  PROVE  Due(lg \o <<l>>, h, P, b)
<1> DEFINE lh == lg \o <<l>>  n == Len(lg) + 1
<1>1. IsLog(lg)
  BY DEF Due
<1>2. /\ IsLog(lh) /\ lh[n] = l /\ n \in Nat /\ Len(lg) \in Nat /\ Len(lh) = n
      /\ \A m \in 1..Len(lg) : lh[m] = lg[m]
  BY <1>1, LastLine
<1>3. \A j \in 1..Len(lg), k \in DOMAIN h : Ends(lh, h, j, k) <=> Ends(lg, h, j, k)
  BY <1>1, EndsKept
<1> HIDE DEF lh
<1> SUFFICES ASSUME NEW m \in 1..n, IsCommit(lh[m]) PROVE Commit(lh, h, b, m) /\ Owed(lh, h, P, m)
  BY <1>2 DEF Due, lh
<1>4. m \in 1..Len(lg)
  BY <1>2
<1>5. lh[m] = lg[m] /\ Commit(lg, h, b, m) /\ Owed(lg, h, O, m)
  BY <1>2, <1>4 DEF Due
<1>6. Commit(lh, h, b, m)
  <2>1. \A j \in 1..m - 1 : j \in 1..Len(lg)
    BY <1>2, <1>4
  <2> QED BY <1>2, <1>5, <2>1 DEF Commit
<1> DEFINE k == lg[m].val
<1>7. k \in DOMAIN h /\ lh[m].val = k
  BY <1>5 DEF Commit
<1> HIDE DEF k
<1>8. h[k].op.killed \/ k \in O \/ \E j \in m + 1..Len(lg) : Ends(lg, h, j, k)
  BY <1>5 DEF Owed, k
<1>9. CASE \E j \in m + 1..Len(lg) : Ends(lg, h, j, k)
  <2>1. PICK j \in m + 1..Len(lg) : Ends(lg, h, j, k)
    BY <1>9
  <2>2. j \in 1..Len(lg) /\ j \in m + 1..n
    BY <1>2, <1>4
  <2>3. Ends(lh, h, j, k)
    BY <1>3, <1>7, <2>1, <2>2
  <2> QED BY <1>2, <1>6, <1>7, <2>2, <2>3 DEF Owed
<1>10. CASE k \in O
  <2>1. n \in m + 1..n
    BY <1>2, <1>4
  <2> QED BY <1>2, <1>6, <1>7, <1>10, <2>1 DEF Owed, lh
<1>11. CASE h[k].op.killed
  BY <1>6, <1>7, <1>11 DEF Owed
<1> QED BY <1>8, <1>9, <1>10, <1>11

(* A line that commits the access of a step later than all.                *)
LEMMA DueCommits ==
  ASSUME NEW lg, NEW h, DOMAIN h \subseteq Nat, NEW O, NEW b \in Nat, Due(lg, h, O, b), NEW l, IsCommit(l),
         l.val = b, b \in DOMAIN h
  PROVE  Due(lg \o <<l>>, h, O \cup {b}, b + 1)
<1> DEFINE lh == lg \o <<l>>  n == Len(lg) + 1  P == O \cup {b}
<1>1. IsLog(lg)
  BY DEF Due
<1>2. /\ IsLog(lh) /\ lh[n] = l /\ n \in Nat /\ Len(lg) \in Nat /\ Len(lh) = n
      /\ \A m \in 1..Len(lg) : lh[m] = lg[m]
  BY <1>1, LastLine
<1>3. \A j \in 1..Len(lg), k \in DOMAIN h : Ends(lh, h, j, k) <=> Ends(lg, h, j, k)
  BY <1>1, EndsKept
<1> HIDE DEF lh
<1>0. \A m \in 1..Len(lg) : IsCommit(lg[m]) => Commit(lg, h, b, m) /\ Owed(lg, h, O, m)
  BY DEF Due
<1> SUFFICES ASSUME NEW m \in 1..n, IsCommit(lh[m]) PROVE Commit(lh, h, b + 1, m) /\ Owed(lh, h, P, m)
  BY <1>2 DEF Due, lh
<1>4. CASE m = n
  <2>1. lh[m].val = b
    BY <1>2, <1>4
  <2>2. \A j \in 1..m - 1 : j \in 1..Len(lg)
    BY <1>2, <1>4
  <2>3. \A j \in 1..m - 1 : IsCommit(lh[j]) => lh[j].val < b
    BY <1>0, <1>2, <2>2 DEF Commit
  <2>4. Commit(lh, h, b + 1, m)
    BY <2>1, <2>3 DEF Commit
  <2> QED BY <2>1, <2>4 DEF Owed
<1>5. CASE m # n
  <2>1. m \in 1..Len(lg)
    BY <1>2, <1>5
  <2>2. lh[m] = lg[m] /\ Commit(lg, h, b, m) /\ Owed(lg, h, O, m)
    BY <1>0, <1>2, <2>1
  <2> DEFINE k == lg[m].val
  <2>3. k \in DOMAIN h /\ lh[m].val = k /\ k < b
    BY <2>2 DEF Commit
  <2>4. \A j \in 1..m - 1 : j \in 1..Len(lg)
    BY <1>2, <2>1
  <2>5. \A j \in 1..m - 1 : IsCommit(lh[j]) => lh[j].val < k
    BY <1>2, <2>2, <2>4 DEF Commit
  <2>11. k < b + 1
    <3> HIDE DEF k
    <3>1. k \in Nat
      BY <2>3
    <3> QED BY <2>3, <3>1
  <2>6. Commit(lh, h, b + 1, m)
    BY <2>3, <2>5, <2>11 DEF Commit
  <2> HIDE DEF k
  <2>7. h[k].op.killed \/ k \in O \/ \E j \in m + 1..Len(lg) : Ends(lg, h, j, k)
    BY <2>2 DEF Owed, k
  <2>8. (\E j \in m + 1..Len(lg) : Ends(lg, h, j, k)) => \E j \in m + 1..n : Ends(lh, h, j, k)
    <3> SUFFICES ASSUME NEW j \in m + 1..Len(lg), Ends(lg, h, j, k)
                 PROVE  \E i \in m + 1..n : Ends(lh, h, i, k)
      OBVIOUS
    <3>1. j \in 1..Len(lg) /\ j \in m + 1..n
      BY <1>2, <2>1
    <3> QED BY <1>3, <2>3, <3>1
  <2> QED BY <1>2, <2>3, <2>6, <2>7, <2>8 DEF Owed
<1> QED BY <1>4, <1>5

(* Fewer steps to settle, and later ones.                                  *)
LEMMA DueEases ==
  ASSUME NEW lg, NEW h, DOMAIN h \subseteq Nat, NEW O, NEW b \in Nat, Due(lg, h, O, b), NEW P, NEW c \in Nat, b <= c,
         \A k \in O \cap DOMAIN h : k \in P \/ h[k].op.killed
  PROVE  Due(lg, h, P, c)
<1> SUFFICES ASSUME NEW m \in 1..Len(lg), IsCommit(lg[m])
             PROVE  Commit(lg, h, c, m) /\ Owed(lg, h, P, m)
  BY DEF Due
<1>1. Commit(lg, h, b, m) /\ Owed(lg, h, O, m)
  BY DEF Due
<1> DEFINE k == lg[m].val
<1>2. k \in DOMAIN h /\ k < b
  BY <1>1 DEF Commit
<1>3. k < c
  <2> HIDE DEF k
  <2>1. k \in Nat
    BY <1>2
  <2> QED BY <1>2, <2>1
<1> QED BY <1>1, <1>2, <1>3 DEF Commit, Owed

LEMMA DueGrows ==
  ASSUME NEW h, History(config, h), NEW s \in Executable(config), NEW lg, NEW O, NEW b, Due(lg, h, O, b)
  PROVE  Due(lg, Append(h, s), O, b)
<1> DEFINE g == Append(h, s)
<1>1. \A k \in DOMAIN h : k \in DOMAIN g /\ g[k] = h[k]
  BY HistoryGrows
<1> HIDE DEF g
<1> SUFFICES ASSUME NEW m \in 1..Len(lg), IsCommit(lg[m])
             PROVE  Commit(lg, g, b, m) /\ Owed(lg, g, O, m)
  BY DEF Due, g
<1>2. Commit(lg, h, b, m) /\ Owed(lg, h, O, m)
  BY DEF Due
<1>3. lg[m].val \in DOMAIN h
  BY <1>2 DEF Commit
<1>4. \A j : Ends(lg, g, j, lg[m].val) <=> Ends(lg, h, j, lg[m].val)
  BY <1>1, <1>3 DEF Ends
<1>5. Commit(lg, g, b, m)
  BY <1>1, <1>2, <1>3 DEF Commit
<1>6. Owed(lg, g, O, m)
  BY <1>1, <1>2, <1>3, <1>4 DEF Owed
<1> QED BY <1>5, <1>6

(* The lines of a trap settle the accesses at its address.                 *)
LEMMA TrapDue ==
  ASSUME NEW h, History(config, h), NEW k \in DOMAIN h, Struck(h, k), config.sim = "boom",
         NEW lg, NEW O, NEW b, Due(lg, h, O, b), NEW P,
         \A j \in O \cap DOMAIN h : j \in P \/ h[j].op.killed \/ h[j].pc = h[k].pc
  PROVE  Due(lg \o TrapLines(h[k].pc, h[k].op, k), h, P, b)
<1> DEFINE exc == ExcLine(h[k].pc, k, h[k].op.irq)
      before == IF config.explicit THEN <<exc>> ELSE <<>>
      epc == EpcLine(h[k].pc)
      cause == CauseLine(k, h[k].op.irq)
      lb == lg \o before
      le == lb \o <<epc>>
      lc == le \o <<cause>>
      s == TrapLines(h[k].pc, h[k].op, k)
<1>0. IsLog(lg)
  BY DEF Due
<1>1. s = before \o <<epc, cause>>
  BY DEF TrapLines, HandlerLines, EpcLine, CauseLine
<1>2. exc.insn = None
  <2>1. IsExcLine(exc, h[k].pc, k, h[k].op.irq)
    BY ExcLineFields
  <2> HIDE DEF exc
  <2> QED BY <2>1 DEF IsExcLine
<1>3. /\ epc.csr = "mepc" /\ epc.val = h[k].pc /\ epc.insn = None
      /\ cause.k = "reg" /\ cause.csr = "mcause" /\ cause.insn = None
  <2>1. epc # cause
    BY DEF EpcLine, CauseLine, RegLine, NoLine
  <2> HIDE DEF epc, cause
  <2>2. epc.csr = "mepc" /\ epc.val = h[k].pc /\ epc.insn = None
    BY HandlerLineFields DEF epc
  <2>3. cause.k = "reg" /\ cause.csr = "mcause" /\ cause.insn = None
    BY <2>1, HandlerLineFields DEF epc, cause
  <2> QED BY <2>2, <2>3
<1> HIDE DEF exc, epc, cause, s
<1>5. IsLog(before) /\ Due(lb, h, O, b)
  <2>1. CASE config.explicit
    <3>1. before = <<exc>>
      BY <2>1
    <3>2. Due(lg \o <<exc>>, h, O, b)
      BY <1>2, DueAdds DEF IsCommit
    <3> QED BY <3>1, <3>2, LogOne
  <2>2. CASE ~config.explicit
    <3>1. before = <<>>
      BY <2>2
    <3>2. PICK S : lg \in Seq(S)
      BY <1>0 DEF IsLog
    <3>3. lb = lg
      BY <3>1, <3>2
    <3> QED BY <3>1, <3>3, LogOne
  <2> QED BY <2>1, <2>2
<1> HIDE DEF before, lb
<1>6. Due(le, h, O, b)
  BY <1>3, <1>5, DueAdds DEF IsCommit
<1>7. IsLog(lb) /\ Len(lb) \in Nat /\ Len(le) = Len(lb) + 1 /\ le[Len(le)] = epc
  <2>1. IsLog(lb)
    BY <1>5 DEF Due
  <2> QED BY <2>1, LastLine
<1> HIDE DEF le
<1>8. Due(lc, h, P, b)
  <2> DEFINE n == Len(le) + 1
  <2>1. IsLog(le)
    BY <1>6 DEF Due
  <2>2. lc[n] = cause /\ lc[Len(le)] = epc /\ Len(le) \in 1..n - 1
    BY <1>7, <2>1, LastLine
  <2>3. n - 1 = Len(le) /\ Len(le) + 1 = n /\ \A j : j \notin n..n - 1
    BY <1>7
  <2> HIDE DEF lc, n
  <2>4. h[k].pc \in Reports(lc, n)
    BY <1>3, <2>2, <2>3 DEF Reports
  <2>5. \A j \in DOMAIN h : h[j].pc = h[k].pc => Ends(lc, h, n, j)
    BY <2>4 DEF Ends
  <2> QED BY <1>3, <1>6, <2>5, DueAdds DEF IsCommit, lc, n
<1>9. lg \o s = lc
  <2>1. IsLog(<<epc>>) /\ IsLog(<<cause>>) /\ IsLog(<<epc, cause>>) /\ <<epc, cause>> = <<epc>> \o <<cause>>
    BY LogOne
  <2>2. lg \o (before \o <<epc, cause>>) = (lg \o before) \o <<epc, cause>>
    BY <1>0, <1>5, <2>1, LogAssoc, SMTT(30)
  <2>3. lb \o (<<epc>> \o <<cause>>) = (lb \o <<epc>>) \o <<cause>>
    BY <1>7, <2>1, LogAssoc
  <2> QED BY <1>1, <2>1, <2>2, <2>3 DEF lb, le
<1> QED BY <1>8, <1>9 DEF s

(* Writes that are not printed yet.                                        *)
Unprinted == {store[i].val : i \in DOMAIN store}
DueInv == config.sim = "boom" => Due(log, history, Unprinted, Len(history) + 1)

LEMMA ExecuteDue ==
  ASSUME Printing, DueInv, config.sim = "boom", Execute
  PROVE  Due(log', history', Unprinted', Len(history') + 1)
<1> DEFINE h == history  k == Len(h) + 1  p == config.path[k]  op == config.program[p]
           s == [pc |-> p, op |-> op]  g == Append(h, s)
           atEnd == IF op.traps THEN TrapLines(p, op, k) ELSE <<>>
           before == IF op.irq THEN TrapLines(p, op, k) ELSE <<>>
           line == BoomLine(p, op, Value(g, k), ReadsInterrupt(g, k))
           between == IF Printed /\ Writes(op)
                      THEN <<StoreLine([NoLine EXCEPT !.k = "store", !.pc = p], op, k)>>
                      ELSE <<line>>
           la == log \o before
           lb == la \o between
           O == Unprinted
           Q == IF op.addr # None /\ ~(Printed /\ Writes(op)) THEN O \cup {k} ELSE O
<1>1. /\ history' = g /\ log' = lb \o atEnd
      /\ store' = IF Writes(op) /\ ~Printed
                  THEN Append(store, [pc |-> p, op |-> op, val |-> k])
                  ELSE store
  BY ZenonT(40) DEF Execute, Executed
<1>3. s \in Executable(config)
  <2>1. Runnable(config) /\ Len(h) \in Nat
    BY ConfigsAssumption DEF Printing, History
  <2>2. Len(h) < Len(config.path)
    BY DEF Execute, Executed
  <2>4. k \in DOMAIN config.path /\ config.path \in Seq(DOMAIN config.program)
    <3>1. config.path \in Seq(DOMAIN config.program)
      BY <2>1 DEF Runnable
    <3>2. Len(config.path) \in Nat /\ DOMAIN config.path = 1..Len(config.path)
      BY <3>1
    <3> QED BY <2>1, <2>2, <3>1, <3>2
  <2>3. p \in DOMAIN config.program
    BY <2>4
  <2> QED BY <2>3 DEF Executable
<1>4. /\ History(config, h) /\ History(config, g) /\ Len(h) \in Nat /\ Len(g) = k /\ g[k] = s
      /\ DOMAIN h = 1..Len(h) /\ DOMAIN g = 1..k
      /\ k \in DOMAIN g /\ g[k].pc = p /\ g[k].op = op /\ k \in Nat
  BY <1>3, HistoryGrows DEF Printing
<1>5. /\ op \in Operations /\ Proper(op) /\ config.sim \in Simulators
      /\ (op.traps \/ op.irq => Struck(g, k))
  <2> HIDE DEF h, k, p, op, s, g
  <2> QED BY <1>4, StepTyped DEF Struck
<1>6. Due(log, g, O, k)
  BY <1>3, <1>4, DueGrows DEF DueInv
<1>7. DOMAIN g \subseteq Nat /\ k + 1 \in Nat /\ k <= k + 1
  BY <1>4
<1>20. Unprinted' = IF Writes(op) /\ ~Printed THEN O \cup {k} ELSE O
  <2> DEFINE e == [pc |-> p, op |-> op, val |-> k]
  <2>1. CASE Writes(op) /\ ~Printed
    <3>1. IsLog(store) /\ store' = Append(store, e)
      BY <1>1, <2>1 DEF Printing
    <3>2. e.val = k
      OBVIOUS
    <3> HIDE DEF e
    <3>3. /\ DOMAIN store' = DOMAIN store \cup {Len(store) + 1}
          /\ \A i \in DOMAIN store : store'[i] = store[i]
          /\ store'[Len(store) + 1] = e
      BY <3>1, OneAdds
    <3> QED BY <2>1, <3>2, <3>3 DEF Unprinted
  <2>2. CASE ~(Writes(op) /\ ~Printed)
    BY <1>1, <2>2 DEF Unprinted
  <2> QED BY <2>1, <2>2
<1> HIDE DEF h, k, p, op, s, g, O
<1>8. Due(la, g, O, k)
  <2>1. CASE op.irq
    BY <1>4, <1>5, <1>6, <2>1, TrapDue
  <2>2. CASE ~op.irq
    <3>1. PICK S : log \in Seq(S)
      BY <1>6 DEF Due, IsLog
    <3>2. la = log
      BY <2>2, <3>1
    <3> QED BY <1>6, <3>2
  <2> QED BY <2>1, <2>2
<1> HIDE DEF la
<1>9. Due(lb, g, Q, k + 1)
  <2>1. CASE Printed /\ Writes(op)
    <3> DEFINE o == MemLine(p)  l == StoreLine(o, op, k)
    <3>1. between = <<l>> /\ Q = O
      BY <2>1 DEF MemLine
    <3>2. IsLine(o) /\ o.insn = None
      BY MemLineFields
    <3> HIDE DEF o
    <3>3. l.insn = None
      BY <1>5, <3>2, StoreLineFields DEF SameCommit
    <3> HIDE DEF l, between, Q
    <3>4. Due(lb, g, O, k)
      BY <1>8, <3>1, <3>3, DueAdds DEF IsCommit
    <3> QED BY <1>4, <1>7, <3>1, <3>4, DueEases
  <2>2. CASE ~(Printed /\ Writes(op))
    <3>1. between = <<line>> /\ Q = IF op.addr # None THEN O \cup {k} ELSE O
      BY <2>2
    <3>2. line.insn = op /\ line.k \in {"insn", "reg", "freg"} /\ line.val = Value(g, k)
      BY BoomLineFields
    <3> HIDE DEF line, between, Q
    <3>3. op # None
      BY <1>5, NoneAssumption
    <3>4. CASE op.addr # None
      <4>1. op.csr = None
        BY <1>5, <3>4 DEF Proper
      <4>2. line.val = k
        BY <1>4, <3>2, <4>1 DEF Value
      <4>3. IsCommit(line)
        BY <3>2, <3>3, <3>4 DEF IsCommit
      <4>4. Due(la \o <<line>>, g, O \cup {k}, k + 1)
        BY <1>4, <1>7, <1>8, <4>2, <4>3, DueCommits
      <4> QED BY <3>1, <3>4, <4>4
    <3>5. CASE op.addr = None
      <4>1. ~IsCommit(line)
        BY <3>2, <3>5 DEF IsCommit
      <4>2. Due(la \o <<line>>, g, O, k)
        BY <1>8, <4>1, DueAdds
      <4> HIDE DEF lb
      <4>3. Due(la \o <<line>>, g, O, k + 1)
        BY <1>4, <1>7, <4>2, DueEases
      <4> QED BY <3>1, <3>5, <4>3 DEF lb
    <3> QED BY <3>4, <3>5
  <2> QED BY <2>1, <2>2
<1>10. Due(log', g, Unprinted', k + 1)
  <2>1. CASE op.traps
    <3>1. Struck(g, k) /\ ~Writes(op)
      BY <1>5, <2>1 DEF Writes
    <3>2. Unprinted' = O
      BY <1>20, <3>1
    <3>3. \A j \in Q \cap DOMAIN g : j \in O \/ g[j].op.killed \/ g[j].pc = g[k].pc
      OBVIOUS
    <3> HIDE DEF lb, Q
    <3>5. Due(lb \o TrapLines(g[k].pc, g[k].op, k), g, O, k + 1)
      BY <1>4, <1>9, <3>1, <3>3, TrapDue
    <3> QED BY <1>1, <1>4, <2>1, <3>2, <3>5
  <2>2. CASE ~op.traps
    <3>1. PICK S : lb \in Seq(S)
      BY <1>9 DEF Due, IsLog
    <3>2. \A j \in Q \cap DOMAIN g : j \in Unprinted' \/ g[j].op.killed
      BY <1>4, <1>20, <2>2 DEF Writes
    <3> HIDE DEF lb, Q
    <3>3. log' = lb
      BY <1>1, <2>2, <3>1
    <3>4. Due(lb, g, Unprinted', k + 1)
      BY <1>4, <1>7, <1>9, <3>2, DueEases
    <3> QED BY <3>3, <3>4
  <2> QED BY <2>1, <2>2
<1> QED BY <1>1, <1>4, <1>10

LEMMA PrintWriteDue ==
  ASSUME Printing, DueInv, config.sim = "boom", PrintWrite
  PROVE  Due(log', history', Unprinted', Len(history') + 1)
<1> DEFINE w == Head(store)  l == MtLine(w)  n == Len(log) + 1
<1>1. log' = Append(log, l) /\ store' = Tail(store) /\ history' = history /\ store # <<>>
  BY DEF PrintWrite, MtLine
<1>2. PICK S : store \in Seq(S)
  BY DEF Printing, IsLog
<1>3. w = store[1] /\ 1 \in DOMAIN store
  BY <1>1, <1>2
<1>4. PICK k \in DOMAIN history : /\ config.sim = "boom" /\ Writes(history[k].op)
                                  /\ w = [pc |-> history[k].pc, op |-> history[k].op, val |-> k]
  BY <1>3 DEF Printing, Stored
<1>5. w.val = k
  BY <1>4
<1>9. \A j \in Unprinted : j = k \/ j \in Unprinted'
  <2> SUFFICES ASSUME NEW i \in DOMAIN store, store[i].val # k
               PROVE  \E j \in DOMAIN store' : store'[j].val = store[i].val
    BY DEF Unprinted
  <2>1. i # 1
    BY <1>3, <1>5
  <2>2. i - 1 \in DOMAIN Tail(store) /\ Tail(store)[i - 1] = store[i]
    BY <1>1, <1>2, <2>1
  <2> QED BY <1>1, <2>2
<1> HIDE DEF w
<1>6. Told(config, l, history, k) /\ l.k = "mt"
  BY <1>4, WriteTold
<1>7. l.data[0][1] = k
  <2>1. l.data = Low(k)
    BY <1>6 DEF Told, ToldKind, ToldStore, ShowsStore, Wide
  <2>2. 0 \in 0..Lanes - 1
    BY LanesAssumption
  <2> QED BY <2>1, <2>2 DEF Low
<1> HIDE DEF l
<1>8. IsLog(log) /\ Due(log, history, Unprinted, Len(history) + 1)
  BY DEF DueInv, Printing, Good
<1>10. (log \o <<l>>)[n] = l /\ log' = log \o <<l>>
  BY <1>1, <1>8, LastLine, OneAdds
<1>11. Ends(log \o <<l>>, history, n, k)
  BY <1>6, <1>7, <1>10 DEF Ends
<1>12. \A j \in Unprinted \cap DOMAIN history :
          j \in Unprinted' \/ history[j].op.killed \/ Ends(log \o <<l>>, history, Len(log) + 1, j)
  BY <1>9, <1>11
<1>13. Due(log \o <<l>>, history, Unprinted', Len(history) + 1)
  BY <1>6, <1>8, <1>12, DueAdds DEF IsCommit
<1> QED BY <1>1, <1>10, <1>13

LEMMA PrintNoiseDue ==
  ASSUME Printing, DueInv, config.sim = "boom", PrintNoise
  PROVE  Due(log', history', Unprinted', Len(history') + 1)
<1>1. log' = Append(log, NoLine) /\ store' = store /\ history' = history
  BY DEF PrintNoise
<1>2. IsLog(log) /\ Due(log, history, Unprinted, Len(history) + 1)
  BY DEF Printing, Good, DueInv
<1>3. Due(log \o <<NoLine>>, history, Unprinted, Len(history) + 1)
  <2>1. NoLine.insn = None
    BY NoLineFields
  <2> QED BY <1>2, <2>1, DueAdds DEF IsCommit
<1>4. Unprinted' = Unprinted
  BY <1>1 DEF Unprinted
<1> QED BY <1>1, <1>2, <1>3, <1>4, OneAdds

-----------------------------------------------------------------------------
(* Steps in the order of execution, and the entries of a queue for them.   *)

Rising(s) == s \in Seq(Nat) /\ \A i, j \in 1..Len(s) : i < j => s[i] < s[j]
Members(s) == {s[i] : i \in 1..Len(s)}
EntryOf(h, k) == [pc |-> h[k].pc, cmd |-> h[k].op.cmd, size |-> h[k].op.size]
Entries(h, s) == [i \in 1..Len(s) |-> EntryOf(h, s[i])]
Lists(q, h, A) == \E s : Rising(s) /\ Members(s) = A /\ q = Entries(h, s)

LEMMA LogEqual ==
  ASSUME NEW a, IsLog(a), NEW b, IsLog(b), Len(a) = Len(b), \A i \in 1..Len(a) : a[i] = b[i]
  PROVE  a = b
<1>1. PICK S : a \in Seq(S)
  BY DEF IsLog
<1>2. PICK T : b \in Seq(T)
  BY DEF IsLog
<1>3. a \in Seq(S \cup T) /\ b \in Seq(S \cup T)
  BY <1>1, <1>2
<1> QED BY <1>3, SeqEqual

LEMMA EntriesFacts ==
  ASSUME NEW h, NEW s, s \in Seq(Nat)
  PROVE  LET q == Entries(h, s) IN
         /\ IsLog(q) /\ Len(s) \in Nat /\ Len(q) = Len(s) /\ DOMAIN q = 1..Len(s)
         /\ \A i \in 1..Len(s) : /\ s[i] \in Nat /\ s[i] \in Members(s) /\ q[i] = EntryOf(h, s[i])
                                 /\ q[i].pc = h[s[i]].pc /\ q[i].cmd = h[s[i]].op.cmd
                                 /\ q[i].size = h[s[i]].op.size
<1> DEFINE q == Entries(h, s)  S == {EntryOf(h, s[i]) : i \in 1..Len(s)}
<1>1. Len(s) \in Nat /\ \A i \in 1..Len(s) : s[i] \in Nat
  OBVIOUS
<1>2. q \in [1..Len(s) -> S]
  BY DEF Entries
<1>3. q \in Seq(S) /\ Len(q) = Len(s)
  <2> HIDE DEF q, S
  <2> QED BY <1>1, <1>2
<1>4. IsLog(q)
  <2> HIDE DEF q, S
  <2> QED BY <1>3 DEF IsLog
<1>5. \A i \in 1..Len(s) : q[i] = EntryOf(h, s[i])
  BY DEF Entries
<1> HIDE DEF q
<1>6. DOMAIN q = 1..Len(s)
  BY <1>2
<1> QED BY <1>1, <1>3, <1>4, <1>5, <1>6 DEF Members, EntryOf, q

(* A later step is added.                                                  *)
LEMMA RisingAppend ==
  ASSUME NEW h, NEW s, Rising(s), NEW v \in Nat, \A k \in Members(s) : k < v
  PROVE  /\ Rising(Append(s, v)) /\ Members(Append(s, v)) = Members(s) \cup {v}
         /\ Entries(h, Append(s, v)) = Append(Entries(h, s), EntryOf(h, v))
         /\ Len(Append(s, v)) = Len(s) + 1
<1> DEFINE t == Append(s, v)
<1>1. s \in Seq(Nat) /\ Len(s) \in Nat
  BY DEF Rising
<1>2. /\ t \in Seq(Nat) /\ Len(t) = Len(s) + 1 /\ t[Len(s) + 1] = v
      /\ \A i \in 1..Len(s) : t[i] = s[i]
  BY <1>1
<1> HIDE DEF t
<1>3. \A i \in 1..Len(t) : i \in 1..Len(s) \/ i = Len(s) + 1
  BY <1>1, <1>2
<1>4. \A i \in 1..Len(s) : s[i] \in Members(s) /\ s[i] < v
  BY DEF Members
<1>5. Rising(t)
  <2> SUFFICES ASSUME NEW i \in 1..Len(t), NEW j \in 1..Len(t), i < j PROVE t[i] < t[j]
    BY <1>2 DEF Rising
  <2>1. i \in 1..Len(s)
    BY <1>1, <1>2
  <2> QED BY <1>2, <1>3, <1>4, <2>1 DEF Rising
<1>6. Members(t) = Members(s) \cup {v}
  <2>1. 1..Len(t) = 1..Len(s) \cup {Len(s) + 1}
    BY <1>1, <1>2
  <2> QED BY <1>2, <2>1 DEF Members
<1>7. Entries(h, t) = Append(Entries(h, s), EntryOf(h, v))
  <2> DEFINE q == Entries(h, s)  e == EntryOf(h, v)
  <2>1. IsLog(q) /\ Len(q) = Len(s) /\ DOMAIN q = 1..Len(s) /\ \A i \in 1..Len(s) : q[i] = EntryOf(h, s[i])
    BY <1>1, EntriesFacts
  <2>2. DOMAIN Entries(h, t) = 1..Len(t) /\ \A i \in 1..Len(t) : Entries(h, t)[i] = EntryOf(h, t[i])
    BY DEF Entries
  <2> HIDE DEF q, e
  <2>3. /\ DOMAIN Append(q, e) = 1..Len(t) /\ Append(q, e)[Len(s) + 1] = e
        /\ \A i \in 1..Len(s) : Append(q, e)[i] = q[i]
        /\ IsLog(Append(q, e)) /\ Len(Append(q, e)) = Len(t)
    <3>1. 1..Len(t) = 1..Len(s) \cup {Len(s) + 1}
      BY <1>1, <1>2
    <3>2. /\ IsLog(Append(q, e)) /\ Len(Append(q, e)) = Len(q) + 1
          /\ DOMAIN Append(q, e) = DOMAIN q \cup {Len(q) + 1} /\ Append(q, e)[Len(q) + 1] = e
          /\ \A i \in DOMAIN q : Append(q, e)[i] = q[i]
      BY <2>1, OneAdds
    <3> QED BY <1>2, <2>1, <3>1, <3>2
  <2>4. \A i \in 1..Len(t) : Append(q, e)[i] = EntryOf(h, t[i])
    BY <1>2, <1>3, <2>1, <2>3 DEF e
  <2>6. IsLog(Entries(h, t)) /\ Len(Entries(h, t)) = Len(t)
    BY <1>2, EntriesFacts
  <2>5. Entries(h, t) = Append(q, e)
    BY <2>2, <2>3, <2>4, <2>6, LogEqual
  <2> QED BY <2>5 DEF q, e
<1> QED BY <1>2, <1>5, <1>6, <1>7 DEF t

(* One is taken out.                                                       *)
LEMMA WithoutFacts ==
  ASSUME NEW q, IsLog(q), NEW i \in 1..Len(q)
  PROVE  /\ IsLog(Without(q, i)) /\ Len(Without(q, i)) = Len(q) - 1
         /\ \A j \in 1..Len(q) - 1 : Without(q, i)[j] = IF j < i THEN q[j] ELSE q[j + 1]
         /\ \A S : q \in Seq(S) => Without(q, i) \in Seq(S)
<1> DEFINE a == SubSeq(q, 1, i - 1)  b == SubSeq(q, i + 1, Len(q))
<1>1. PICK T : q \in Seq(T)
  BY DEF IsLog
<1>2. Len(q) \in Nat /\ i \in Nat /\ i >= 1 /\ i <= Len(q)
  BY <1>1
<1>3. ASSUME NEW S, q \in Seq(S)
      PROVE  /\ a \in Seq(S) /\ Len(a) = i - 1 /\ \A j \in 1..i - 1 : a[j] = q[j]
             /\ b \in Seq(S) /\ Len(b) = Len(q) - i /\ \A j \in 1..Len(q) - i : b[j] = q[i + j]
  <2>1. \A j \in 1..i - 1 : q[j] \in S
    BY <1>2, <1>3
  <2>2. \A j \in i + 1..Len(q) : q[j] \in S
    BY <1>2, <1>3
  <2>3. /\ a \in Seq(S) /\ Len(a) = IF 1 <= i - 1 THEN (i - 1) - 1 + 1 ELSE 0
        /\ \A j \in 1..(i - 1) - 1 + 1 : a[j] = q[1 + j - 1]
    BY <1>2, <2>1, SubSeqProperties
  <2>4. /\ b \in Seq(S) /\ Len(b) = IF i + 1 <= Len(q) THEN Len(q) - (i + 1) + 1 ELSE 0
        /\ \A j \in 1..Len(q) - (i + 1) + 1 : b[j] = q[i + 1 + j - 1]
    BY <1>2, <2>2, SubSeqProperties
  <2> HIDE DEF a, b
  <2> QED BY <1>2, <2>3, <2>4
<1> HIDE DEF a, b
<1>4. Without(q, i) = a \o b
  BY DEF Without, a, b
<1>5. \A S : q \in Seq(S) => a \o b \in Seq(S)
  BY <1>3
<1>6. /\ a \in Seq(T) /\ Len(a) = i - 1 /\ \A j \in 1..i - 1 : a[j] = q[j]
      /\ b \in Seq(T) /\ Len(b) = Len(q) - i /\ \A j \in 1..Len(q) - i : b[j] = q[i + j]
  BY <1>1, <1>3
<1>7. Len(a \o b) = Len(q) - 1
  BY <1>2, <1>6
<1>8. ASSUME NEW j \in 1..Len(q) - 1 PROVE (a \o b)[j] = IF j < i THEN q[j] ELSE q[j + 1]
  <2>1. CASE j < i
    <3>1. j \in 1..Len(a)
      BY <1>2, <1>6, <2>1
    <3> QED BY <1>6, <2>1, <3>1
  <2>2. CASE ~(j < i)
    <3>1. j - (i - 1) \in 1..Len(b) /\ j = Len(a) + (j - (i - 1)) /\ i + (j - (i - 1)) = j + 1
      BY <1>2, <1>6, <2>2
    <3>2. (a \o b)[j] = b[j - (i - 1)]
      BY <1>2, <1>6, <3>1
    <3> QED BY <1>2, <1>6, <2>2, <3>1, <3>2
  <2> QED BY <2>1, <2>2
<1>9. IsLog(a \o b)
  BY <1>1, <1>5 DEF IsLog
<1> QED BY <1>4, <1>5, <1>7, <1>8, <1>9

LEMMA RisingWithout ==
  ASSUME NEW h, NEW s, Rising(s), NEW i \in 1..Len(s)
  PROVE  /\ Rising(Without(s, i)) /\ Members(Without(s, i)) = Members(s) \ {s[i]}
         /\ Entries(h, Without(s, i)) = Without(Entries(h, s), i)
<1> DEFINE t == Without(s, i)  q == Entries(h, s)  r == Without(q, i)
<1>1. s \in Seq(Nat) /\ Len(s) \in Nat /\ i \in Nat /\ i >= 1 /\ i <= Len(s) /\ IsLog(s)
  BY DEF Rising, IsLog
<1>2. /\ t \in Seq(Nat) /\ Len(t) = Len(s) - 1
      /\ \A j \in 1..Len(s) - 1 : t[j] = IF j < i THEN s[j] ELSE s[j + 1]
  BY <1>1, WithoutFacts
<1>3. /\ IsLog(q) /\ Len(q) = Len(s) /\ \A j \in 1..Len(s) : q[j] = EntryOf(h, s[j])
  BY <1>1, EntriesFacts
<1> HIDE DEF q, t
<1>4. /\ IsLog(r) /\ Len(r) = Len(s) - 1
      /\ \A j \in 1..Len(s) - 1 : r[j] = IF j < i THEN q[j] ELSE q[j + 1]
  BY <1>3, WithoutFacts
<1> HIDE DEF r
<1>5. Rising(t)
  <2> SUFFICES ASSUME NEW a \in 1..Len(t), NEW b \in 1..Len(t), a < b PROVE t[a] < t[b]
    BY <1>2 DEF Rising
  <2> DEFINE c == IF a < i THEN a ELSE a + 1  d == IF b < i THEN b ELSE b + 1
  <2>1. c \in 1..Len(s) /\ d \in 1..Len(s) /\ c < d
    BY <1>1, <1>2
  <2>2. t[a] = s[c] /\ t[b] = s[d]
    BY <1>1, <1>2
  <2> HIDE DEF c, d
  <2> QED BY <2>1, <2>2 DEF Rising
<1>6. Members(t) = Members(s) \ {s[i]}
  <2>1. ASSUME NEW a \in 1..Len(t) PROVE t[a] \in Members(s) \ {s[i]}
    <3> DEFINE c == IF a < i THEN a ELSE a + 1
    <3>0. a \in 1..Len(s) - 1
      BY <1>2
    <3>1. c \in 1..Len(s) /\ c # i /\ (c < i \/ i < c)
      BY <1>1, <3>0
    <3>2. t[a] = s[c]
      BY <1>1, <1>2, <3>0
    <3> HIDE DEF c
    <3>3. s[c] # s[i]
      <4>1. s[c] < s[i] \/ s[i] < s[c]
        BY <1>1, <3>1 DEF Rising
      <4>2. s[c] \in Nat /\ s[i] \in Nat
        BY <1>1, <3>1
      <4> QED BY <4>1, <4>2
    <3> QED BY <3>1, <3>2, <3>3 DEF Members
  <2>2. ASSUME NEW c \in 1..Len(s), s[c] # s[i] PROVE s[c] \in Members(t)
    <3> DEFINE a == IF c < i THEN c ELSE c - 1
    <3>1. c # i
      BY <2>2
    <3>2. a \in 1..Len(s) - 1
      BY <1>1, <3>1
    <3>3. t[a] = s[c]
      <4>1. CASE c < i
        BY <1>2, <3>2, <4>1
      <4>2. CASE ~(c < i)
        <5>1. ~(a < i) /\ a + 1 = c
          BY <1>1, <3>1, <4>2
        <5> QED BY <1>2, <3>2, <5>1
      <4> QED BY <4>1, <4>2
    <3>4. a \in 1..Len(t)
      BY <1>2, <3>2
    <3> QED BY <3>3, <3>4 DEF Members
  <2> QED BY <2>1, <2>2 DEF Members
<1>7. Entries(h, t) = r
  <2>1. IsLog(Entries(h, t)) /\ Len(Entries(h, t)) = Len(t) /\ \A j \in 1..Len(t) : Entries(h, t)[j] = EntryOf(h, t[j])
    BY <1>2, EntriesFacts
  <2>2. ASSUME NEW j \in 1..Len(t) PROVE r[j] = EntryOf(h, t[j])
    <3>1. j \in 1..Len(s) - 1 /\ j \in 1..Len(s) /\ j + 1 \in 1..Len(s)
      BY <1>1, <1>2
    <3>2. q[j] = EntryOf(h, s[j]) /\ q[j + 1] = EntryOf(h, s[j + 1])
      BY <1>3, <3>1
    <3> QED BY <1>2, <1>4, <3>1, <3>2
  <2> QED BY <1>2, <1>4, <2>1, <2>2, LogEqual
<1> QED BY <1>5, <1>6, <1>7 DEF t, q, r

LEMMA TailWithout ==
  ASSUME NEW q, IsLog(q), q # <<>>
  PROVE  Tail(q) = Without(q, 1) /\ 1 \in 1..Len(q)
<1>1. PICK S : q \in Seq(S)
  BY DEF IsLog
<1>2. Len(q) \in Nat \ {0} /\ 1 \in 1..Len(q)
  BY <1>1
<1>3. Tail(q) \in Seq(S) /\ Len(Tail(q)) = Len(q) - 1 /\ \A i \in 1..Len(q) - 1 : Tail(q)[i] = q[i + 1]
  BY <1>1, <1>2, HeadTailProperties
<1>4. IsLog(Tail(q))
  BY <1>3 DEF IsLog
<1>5. /\ IsLog(Without(q, 1)) /\ Len(Without(q, 1)) = Len(q) - 1
      /\ \A j \in 1..Len(q) - 1 : Without(q, 1)[j] = IF j < 1 THEN q[j] ELSE q[j + 1]
  BY <1>2, WithoutFacts
<1>6. \A j \in 1..Len(q) - 1 : Without(q, 1)[j] = Tail(q)[j]
  BY <1>2, <1>3, <1>5
<1> QED BY <1>2, <1>3, <1>4, <1>5, <1>6, LogEqual

(* How many come after one.                                                *)
LEMMA AfterCount ==
  ASSUME NEW s, Rising(s), NEW i \in 1..Len(s)
  PROVE  Cardinality({k \in Members(s) : k > s[i]}) = Len(s) - i
<1> DEFINE I == i + 1..Len(s)  T == {k \in Members(s) : k > s[i]}  f == [j \in I |-> s[j]]
<1>1. s \in Seq(Nat) /\ Len(s) \in Nat /\ i \in Nat /\ i >= 1 /\ i <= Len(s)
  BY DEF Rising
<1>2. \A j \in I : j \in 1..Len(s) /\ s[j] \in Nat /\ s[j] > s[i]
  <2> SUFFICES ASSUME NEW j \in I PROVE j \in 1..Len(s) /\ s[j] \in Nat /\ s[j] > s[i]
    OBVIOUS
  <2>1. j \in 1..Len(s) /\ i < j
    BY <1>1
  <2>2. s[i] < s[j] /\ s[i] \in Nat /\ s[j] \in Nat
    BY <1>1, <2>1 DEF Rising
  <2> QED BY <2>1, <2>2
<1>3. T = {s[j] : j \in I}
  <2>1. ASSUME NEW j \in 1..Len(s), s[j] > s[i] PROVE j \in I
    <3>1. ~(j = i)
      BY <1>1, <2>1
    <3>2. ~(j < i)
      <4> SUFFICES ASSUME j < i PROVE FALSE
        OBVIOUS
      <4>1. s[j] < s[i] /\ s[i] \in Nat /\ s[j] \in Nat
        BY <1>1 DEF Rising
      <4> QED BY <2>1, <4>1
    <3> QED BY <1>1, <3>1, <3>2
  <2> QED BY <1>2, <2>1 DEF Members
<1>4. f \in Bijection(I, T)
  <2>1. f \in [I -> T] /\ \A j \in I : f[j] = s[j]
    BY <1>3
  <2>2. \A x \in T : \E j \in I : f[j] = x
    BY <1>3, <2>1
  <2>3. \A a, b \in I : f[a] = f[b] => a = b
    <3> SUFFICES ASSUME NEW a \in I, NEW b \in I, s[a] = s[b] PROVE a = b
      BY <2>1
    <3>1. s[a] \in Nat /\ s[b] \in Nat /\ (a < b => s[a] < s[b]) /\ (b < a => s[b] < s[a])
      BY <1>2 DEF Rising
    <3>2. ~(a < b) /\ ~(b < a)
      BY <3>1
    <3> QED BY <1>1, <3>2
  <2> HIDE DEF f, I, T
  <2> QED BY <2>1, <2>2, <2>3 DEF Bijection, Injection, Surjection, IsInjective
<1> HIDE DEF f, T
<1>5. IsFiniteSet(I) /\ Cardinality(I) = IF i + 1 > Len(s) THEN 0 ELSE Len(s) - (i + 1) + 1
  <2>1. i + 1 \in Int /\ Len(s) \in Int
    BY <1>1
  <2> QED BY <2>1, FS_Interval
<1>6. Cardinality(T) = Cardinality(I)
  <2> HIDE DEF I
  <2>1. ExistsBijection(I, T)
    BY <1>4 DEF ExistsBijection
  <2> QED BY <1>5, <2>1, FS_Bijection
<1>7. Cardinality(I) = Len(s) - i
  <2> HIDE DEF I
  <2>1. CASE i + 1 > Len(s)
    BY <1>1, <1>5, <2>1
  <2>2. CASE ~(i + 1 > Len(s))
    BY <1>1, <1>5, <2>2
  <2> QED BY <2>1, <2>2
<1> QED BY <1>6, <1>7 DEF T

(* A queue takes a later step, and forgets its first when it is full.      *)
LEMMA ListsCommit ==
  ASSUME NEW h, NEW q, NEW A, Lists(q, h, A), NEW v \in Nat, \A k \in A : k < v,
         \A k \in A : Cardinality({j \in A : j > k}) < MaxPending,
         NEW B, \A k : k \in B <=> \/ k = v
                                   \/ k \in A /\ Cardinality({j \in A : j > k}) + 1 < MaxPending
  PROVE  LET r == Append(q, EntryOf(h, v)) IN Lists(IF Len(r) > MaxPending THEN Tail(r) ELSE r, h, B)
<1> DEFINE r == Append(q, EntryOf(h, v))
<1>1. PICK s : Rising(s) /\ Members(s) = A /\ q = Entries(h, s)
  BY DEF Lists
<1> DEFINE t == Append(s, v)
<1>2. /\ Rising(t) /\ Members(t) = A \cup {v} /\ r = Entries(h, t) /\ Len(t) = Len(s) + 1
  BY <1>1, RisingAppend
<1>3. s \in Seq(Nat) /\ Len(s) \in Nat /\ MaxPending \in Nat \ {0} /\ t[1] = IF Len(s) = 0 THEN v ELSE s[1]
  BY <1>1, LanesAssumption DEF Rising
<1>4. IsLog(t) /\ t # <<>> /\ IsLog(r) /\ Len(r) = Len(s) + 1 /\ r # <<>>
  <2>1. t \in Seq(Nat) /\ Len(t) # 0
    BY <1>2, <1>3 DEF Rising
  <2>2. IsLog(r) /\ Len(r) = Len(t)
    BY <1>2, <2>1, EntriesFacts
  <2> HIDE DEF r, t
  <2> QED BY <1>2, <1>3, <2>1, <2>2 DEF IsLog
<1>5. \A i \in 1..Len(s) : s[i] \in A /\ Cardinality({j \in A : j > s[i]}) = Len(s) - i
  BY <1>1, AfterCount DEF Members
<1>6. \A k \in A : \E i \in 1..Len(s) : k = s[i]
  BY <1>1 DEF Members
<1>7. Len(s) <= MaxPending
  <2>1. CASE Len(s) = 0
    BY <1>3, <2>1
  <2>2. CASE Len(s) # 0
    <3>1. 1 \in 1..Len(s)
      BY <1>3, <2>2
    <3>2. Len(s) - 1 < MaxPending
      BY <1>5, <3>1
    <3> QED BY <1>3, <3>2
  <2> QED BY <2>1, <2>2
<1> HIDE DEF r, t
<1>8. CASE ~(Len(r) > MaxPending)
  <2>1. \A i \in 1..Len(s) : (Len(s) - i) + 1 < MaxPending
    BY <1>3, <1>4, <1>8
  <2>2. \A k \in A : Cardinality({j \in A : j > k}) + 1 < MaxPending
    BY <1>5, <1>6, <2>1
  <2>3. B = A \cup {v}
    BY <2>2
  <2> QED BY <1>2, <1>8, <2>3 DEF Lists, r
<1>9. CASE Len(r) > MaxPending
  <2>1. Len(s) = MaxPending /\ 1 \in 1..Len(s)
    BY <1>3, <1>4, <1>7, <1>9
  <2>2. \A i \in 1..Len(s) : (Len(s) - i) + 1 < MaxPending <=> i # 1
    BY <1>3, <2>1
  <2>3. \A i \in 1..Len(s) : s[i] = s[1] <=> i = 1
    <3> SUFFICES ASSUME NEW i \in 1..Len(s), i # 1 PROVE s[i] # s[1]
      OBVIOUS
    <3>1. s[1] < s[i] /\ s[i] \in Nat /\ s[1] \in Nat
      BY <1>1, <1>3, <2>1 DEF Rising
    <3> QED BY <3>1
  <2>4. ASSUME NEW k \in A PROVE Cardinality({j \in A : j > k}) + 1 < MaxPending <=> k # s[1]
    <3>1. PICK i \in 1..Len(s) : k = s[i]
      BY <1>6
    <3>2. Cardinality({j \in A : j > k}) = Len(s) - i
      BY <1>5, <3>1
    <3>3. (Len(s) - i) + 1 < MaxPending <=> i # 1
      BY <2>2
    <3>4. k = s[1] <=> i = 1
      BY <2>3, <3>1
    <3> QED BY <3>2, <3>3, <3>4
  <2>5. s[1] # v
    <3>1. s[1] \in A
      BY <1>5, <2>1
    <3>2. s[1] < v
      BY <3>1
    <3>3. s[1] \in Nat
      BY <1>3, <2>1
    <3> QED BY <3>2, <3>3
  <2>6. t[1] = s[1]
    BY <1>3, <2>1
  <2>7. B = (A \cup {v}) \ {t[1]}
    <3> SUFFICES ASSUME NEW k PROVE k \in B <=> (k \in A \/ k = v) /\ k # s[1]
      BY <2>6
    <3>1. CASE k \in A
      <4>1. k \in B <=> k = v \/ k # s[1]
        BY <2>4, <3>1
      <4> QED BY <2>5, <3>1, <4>1
    <3>2. CASE k \notin A
      BY <2>5, <3>2
    <3> QED BY <3>1, <3>2
  <2>8. 1 \in 1..Len(t) /\ Tail(r) = Without(r, 1)
    BY <1>4, TailWithout
  <2>9. Rising(Without(t, 1)) /\ Members(Without(t, 1)) = B /\ Entries(h, Without(t, 1)) = Tail(r)
    BY <1>2, <2>7, <2>8, RisingWithout
  <2> QED BY <1>9, <2>9 DEF Lists, r
<1> QED BY <1>8, <1>9

(* The definition of the entries kept.                                     *)
LEMMA DropSteps ==
  ASSUME NEW q, IsLog(q), NEW p
  PROVE  \E kept : /\ DropAt(q, p) = kept[Len(q)] /\ kept[0] = <<>>
                    /\ \A i \in 1..Len(q) :
                         kept[i] = IF q[i].pc = p THEN kept[i - 1] ELSE Append(kept[i - 1], q[i])
<1> DEFINE def(f, i) == IF i = 0 THEN <<>> ELSE IF q[i].pc = p THEN f[i - 1] ELSE Append(f[i - 1], q[i])
           kept == CHOOSE f : f = [i \in 0..Len(q) |-> def(f, i)]
           T == {n \in Nat : \E f : f = [i \in 0..n |-> def(f, i)]}
<1>1. DropAt(q, p) = kept[Len(q)]
  BY DEF DropAt
<1>2. Len(q) \in Nat
  BY LogFacts
<1>3. 0 \in T
  <2> DEFINE g == [i \in 0..0 |-> <<>>]
  <2>1. \A i \in 0..0 : i = 0
    OBVIOUS
  <2>2. g = [i \in 0..0 |-> def(g, i)]
    BY <2>1
  <2> QED BY <2>2
<1>4. ASSUME NEW n \in Nat, n \in T PROVE n + 1 \in T
  <2>1. PICK f : f = [i \in 0..n |-> def(f, i)]
    BY <1>4
  <2> DEFINE d(g, i) == def(g, i)
             v == d(f, n + 1)
             g == [i \in 0..n + 1 |-> IF i = n + 1 THEN v ELSE f[i]]
  <2>2. g[n + 1] = v /\ (\A i \in 0..n : g[i] = f[i]) /\ DOMAIN g = 0..n + 1
    OBVIOUS
  <2> HIDE DEF v
  <2>3. g = [i \in 0..n + 1 |-> g[i]]
    OBVIOUS
  <2> HIDE DEF g
  <2>4. d(g, n + 1) = v
    <3>1. (n + 1) - 1 = n /\ n + 1 # 0 /\ n \in 0..n
      OBVIOUS
    <3>2. g[n] = f[n]
      BY <2>2, <3>1
    <3> QED BY <3>1, <3>2, Zenon DEF v
  <2>5. ASSUME NEW i \in 0..n PROVE g[i] = d(g, i)
    <3>1. g[i] = f[i] /\ f[i] = d(f, i)
      BY <2>1, <2>2
    <3>2. i = 0 \/ i - 1 \in 0..n
      OBVIOUS
    <3>3. i # 0 => g[i - 1] = f[i - 1]
      BY <2>2, <3>2
    <3>4. d(g, i) = d(f, i)
      BY <3>3, Zenon
    <3> QED BY <3>1, <3>4
  <2>6. \A i \in 0..n + 1 : i \in 0..n \/ i = n + 1
    OBVIOUS
  <2>7. \A i \in 0..n + 1 : g[i] = d(g, i)
    BY <2>2, <2>4, <2>5, <2>6
  <2>8. g = [i \in 0..n + 1 |-> def(g, i)]
    BY <2>3, <2>7
  <2>9. n + 1 \in Nat
    OBVIOUS
  <2> QED BY <2>8, <2>9
<1>5. Len(q) \in T
  <2> HIDE DEF T
  <2> QED BY <1>2, <1>3, <1>4, Induction
<1>6. kept = [i \in 0..Len(q) |-> def(kept, i)]
  BY <1>5
<1>7. 0 \in 0..Len(q) /\ \A i \in 1..Len(q) : i \in 0..Len(q) /\ i # 0
  BY <1>2
<1> HIDE DEF kept
<1>8. kept[0] = <<>>
  BY <1>6, <1>7
<1>9. \A i \in 1..Len(q) : kept[i] = def(kept, i)
  BY <1>6, <1>7
<1>10. \A i \in 1..Len(q) : kept[i] = IF q[i].pc = p THEN kept[i - 1] ELSE Append(kept[i - 1], q[i])
  BY <1>7, <1>9, Zenon
<1> QED BY <1>1, <1>8, <1>10

(* A queue drops the entries of an address.                                *)
LEMMA ListsDrop ==
  ASSUME NEW h, NEW q, NEW A, Lists(q, h, A), NEW p
  PROVE  Lists(DropAt(q, p), h, {k \in A : h[k].pc # p})
<1>1. PICK s : Rising(s) /\ Members(s) = A /\ q = Entries(h, s)
  BY DEF Lists
<1>2. /\ s \in Seq(Nat) /\ Len(s) \in Nat /\ Len(q) = Len(s)
      /\ \A i \in 1..Len(s) : q[i] = EntryOf(h, s[i]) /\ q[i].pc = h[s[i]].pc /\ s[i] \in Nat
  BY <1>1, EntriesFacts DEF Rising
<1>3. PICK kept : /\ DropAt(q, p) = kept[Len(q)] /\ kept[0] = <<>>
                  /\ \A i \in 1..Len(q) :
                       kept[i] = IF q[i].pc = p THEN kept[i - 1] ELSE Append(kept[i - 1], q[i])
  BY <1>1, <1>2, EntriesFacts, DropSteps
<1> DEFINE Upto(i) == {s[j] : j \in {m \in 1..i : h[s[m]].pc # p}}
           Done == {i \in Nat : i <= Len(q) =>
                       \E t : Rising(t) /\ Members(t) = Upto(i) /\ kept[i] = Entries(h, t)}
<1>5. 0 \in Done
  <2>1. Rising(<<>>) /\ Members(<<>>) = Upto(0)
    BY DEF Rising, Members
  <2>2. Entries(h, <<>>) = <<>>
    BY DEF Entries
  <2> QED BY <1>3, <2>1, <2>2
<1>6. ASSUME NEW i \in Nat, i \in Done, i + 1 <= Len(q) PROVE i + 1 \in Done
  <2>1. i + 1 \in 1..Len(q) /\ i + 1 \in 1..Len(s) /\ i <= Len(q) /\ (i + 1) - 1 = i
        /\ 1..i + 1 = 1..i \cup {i + 1}
    BY <1>2, <1>6
  <2>2. PICK t : Rising(t) /\ Members(t) = Upto(i) /\ kept[i] = Entries(h, t)
    BY <1>6, <2>1
  <2>3. kept[i + 1] = IF q[i + 1].pc = p THEN kept[i] ELSE Append(kept[i], q[i + 1])
    BY <1>3, <2>1
  <2> DEFINE v == s[i + 1]
  <2>4. q[i + 1] = EntryOf(h, v) /\ q[i + 1].pc = h[v].pc /\ v \in Nat
    BY <1>2, <2>1
  <2>5. CASE h[v].pc = p
    <3>1. Upto(i + 1) = Upto(i)
      BY <2>1, <2>5
    <3> QED BY <2>2, <2>3, <2>4, <2>5, <3>1
  <2>6. CASE h[v].pc # p
    <3>1. Upto(i + 1) = Upto(i) \cup {v}
      BY <2>1, <2>6
    <3>2. \A k \in Upto(i) : k < v
      <4> SUFFICES ASSUME NEW m \in 1..i PROVE s[m] < v
        OBVIOUS
      <4>1. m \in 1..Len(s) /\ m < i + 1
        BY <1>2, <2>1
      <4> QED BY <1>1, <2>1, <4>1 DEF Rising
    <3>3. kept[i + 1] = Append(kept[i], EntryOf(h, v))
      BY <2>3, <2>4, <2>6
    <3> HIDE DEF v, Upto
    <3>4. \A k \in Members(t) : k < v
      BY <2>2, <3>2
    <3>5. /\ Rising(Append(t, v)) /\ Members(Append(t, v)) = Members(t) \cup {v}
          /\ Entries(h, Append(t, v)) = Append(Entries(h, t), EntryOf(h, v))
      BY <2>2, <2>4, <3>4, RisingAppend
    <3>6. Rising(Append(t, v)) /\ Members(Append(t, v)) = Upto(i + 1) /\ kept[i + 1] = Entries(h, Append(t, v))
      BY <2>2, <3>1, <3>3, <3>5
    <3>7. \E u : Rising(u) /\ Members(u) = Upto(i + 1) /\ kept[i + 1] = Entries(h, u)
      BY <3>6
    <3> QED BY <3>7
  <2> QED BY <2>5, <2>6
<1>7. Len(q) \in Done
  <2>1. \A i \in Nat : i \in Done => i + 1 \in Done
    <3> SUFFICES ASSUME NEW i \in Nat, i \in Done PROVE i + 1 \in Done
      OBVIOUS
    <3>1. CASE i + 1 <= Len(q)
      <4> HIDE DEF Done
      <4> QED BY <1>6, <3>1
    <3>2. CASE ~(i + 1 <= Len(q))
      BY <3>2
    <3> QED BY <3>1, <3>2
  <2> HIDE DEF Done
  <2>2. \A i \in Nat : i \in Done
    BY <1>5, <2>1, Induction
  <2> QED BY <1>2, <2>2
<1>8. Upto(Len(q)) = {k \in A : h[k].pc # p}
  BY <1>1, <1>2 DEF Members
<1> HIDE DEF Upto
<1>9. Len(q) <= Len(q)
  BY <1>2
<1>10. \E t : Rising(t) /\ Members(t) = Upto(Len(q)) /\ kept[Len(q)] = Entries(h, t)
  BY <1>7, <1>9
<1> QED BY <1>3, <1>8, <1>10 DEF Lists

-----------------------------------------------------------------------------
(* What the parser of BOOM keeps of the log it has read.                   *)

Known == PairedInv /\ DueInv /\ config.sim = "boom"

LEMMA CommitLine ==
  ASSUME Known, NEW n \in 1..Len(log), Commits(n)
  PROVE  LET v == log[n].val IN
         /\ v \in DOMAIN history /\ v \in Nat /\ log[n].pc = history[v].pc /\ log[n].insn = history[v].op
         /\ log[n].k \in {"insn", "reg", "freg"}
         /\ \A j \in 1..n - 1 : Commits(j) => log[j].val < v
<1> DEFINE v == log[n].val
<1>1. /\ IsLog(log) /\ AllTold(config, log, history) /\ History(config, history)
      /\ Due(log, history, Unprinted, Len(history) + 1)
  BY DEF Known, PairedInv, PrintingInv, Printing, Good, DueInv
<1>2. n \in DOMAIN log
  BY <1>1, LogFacts
<1>3. PICK k \in DOMAIN history : Told(config, log[n], history, k)
  BY <1>1, <1>2 DEF AllTold
<1>4. /\ log[n].insn = history[k].op /\ log[n].k \in {"insn", "reg", "freg"}
      /\ log[n].pc = history[k].pc /\ v = Value(history, k)
  BY <1>3 DEF Told, ToldBoom, Commits
<1>5. Proper(history[k].op) /\ k \in Nat
  BY <1>1, StepTyped
<1>6. history[k].op.csr = None
  BY <1>4, <1>5 DEF Commits, Proper
<1>7. v = k
  BY <1>4, <1>6 DEF Value
<1>8. \A j \in 1..n - 1 : Commits(j) => log[j].val < v
  BY <1>1 DEF Due, Commits, IsCommit, Commit
<1> QED BY <1>3, <1>4, <1>5, <1>7, <1>8

(* A line settles steps and may commit one.                                *)
LEMMA UnsettledNext ==
  ASSUME Known, NEW n \in 1..Len(log)
  PROVE  Unsettled(n + 1) = {k \in Unsettled(n) : ~Settles(n, k)}
                              \cup (IF Commits(n) THEN {log[n].val} ELSE {})
<1> DEFINE M == {o \in 1..n - 1 : Commits(o) /\ \A j \in o + 1..n - 1 : ~Settles(j, log[o].val)}
           N == {o \in 1..(n + 1) - 1 : Commits(o) /\ \A j \in o + 1..(n + 1) - 1 : ~Settles(j, log[o].val)}
<1>1. n \in Nat /\ (n + 1) - 1 = n /\ 1..n = 1..n - 1 \cup {n} /\ \A j \in n + 1..n : FALSE
  <2>1. Len(log) \in Nat
    BY LogFacts DEF Known, PairedInv, PrintingInv, Printing, Good
  <2> QED BY <2>1
<1>2. \A o \in 1..n - 1 : o + 1..n = o + 1..n - 1 \cup {n}
  BY <1>1
<1>3. \A o \in 1..n - 1 : o \in N <=> o \in M /\ ~Settles(n, log[o].val)
  BY <1>1, <1>2
<1>4. n \in N <=> Commits(n)
  BY <1>1
<1>5. N \subseteq 1..n - 1 \cup {n} /\ M \subseteq 1..n - 1
  BY <1>1
<1> HIDE DEF M, N
<1>6. Unsettled(n) = {log[m].val : m \in M} /\ Unsettled(n + 1) = {log[m].val : m \in N}
  BY DEF Unsettled, M, N
<1>7. {log[m].val : m \in N} = {k \in {log[m].val : m \in M} : ~Settles(n, k)}
                                 \cup (IF Commits(n) THEN {log[n].val} ELSE {})
  BY <1>3, <1>4, <1>5
<1> QED BY <1>6, <1>7

LEMMA UnsettledFacts ==
  ASSUME Known, NEW n \in 1..Len(log) + 1
  PROVE  /\ Unsettled(n) \subseteq DOMAIN history /\ Unsettled(n) \subseteq Nat
         /\ IsFiniteSet(Unsettled(n))
         /\ \A k \in Unsettled(n) : \E m \in 1..n - 1 : Commits(m) /\ log[m].val = k
<1>1. Len(log) \in Nat
  BY LogFacts DEF Known, PairedInv, PrintingInv, Printing, Good
<1>2. \A m \in 1..n - 1 : m \in 1..Len(log)
  BY <1>1
<1>3. \A m \in 1..n - 1 : Commits(m) => log[m].val \in DOMAIN history /\ log[m].val \in Nat
  BY <1>2, CommitLine
<1>4. Unsettled(n) \subseteq DOMAIN history /\ Unsettled(n) \subseteq Nat
  BY <1>3 DEF Unsettled
<1>5. \A k \in Unsettled(n) : \E m \in 1..n - 1 : Commits(m) /\ log[m].val = k
  BY DEF Unsettled
<1>6. IsFiniteSet(Unsettled(n))
  <2>1. DOMAIN history = 1..Len(history) /\ 1 \in Int /\ Len(history) \in Int
    BY DEF Known, PairedInv, PrintingInv, Printing, History
  <2>2. IsFiniteSet(DOMAIN history)
    BY <2>1, FS_Interval
  <2> QED BY <1>4, <2>2, FS_Subset
<1> QED BY <1>4, <1>5, <1>6

(* How many unsettled steps are later than one, and one still later.       *)
LEMMA LaterFewer ==
  ASSUME NEW U, IsFiniteSet(U), NEW V \in SUBSET U, NEW k, NEW j, U \subseteq Nat, k \in Nat, j \in Nat, k <= j
  PROVE  /\ IsFiniteSet({i \in V : i > j}) /\ Cardinality({i \in V : i > j}) \in Nat
         /\ Cardinality({i \in V : i > j}) <= Cardinality({i \in U : i > k})
         /\ Cardinality({i \in U : i > k}) \in Nat
<1> DEFINE A == {i \in U : i > k}  B == {i \in V : i > j}
<1>1. A \in SUBSET U /\ B \in SUBSET A
  <2>1. \A i \in V : i \in U /\ i \in Nat /\ (i > j => i > k)
    OBVIOUS
  <2> QED BY <2>1
<1> HIDE DEF A, B
<1>2. IsFiniteSet(A) /\ IsFiniteSet(B) /\ Cardinality(B) <= Cardinality(A)
  BY <1>1, FS_Subset
<1>3. Cardinality(A) \in Nat /\ Cardinality(B) \in Nat
  BY <1>2, FS_CardinalityType
<1> QED BY <1>2, <1>3 DEF A, B

LEMMA AwaitedLater ==
  ASSUME Known, NEW n \in 1..Len(log) + 1, NEW k \in Awaited(n), NEW j \in Unsettled(n), k < j
  PROVE  j \in Awaited(n)
<1> SUFFICES ASSUME NEW m \in 1..n PROVE Cardinality({i \in Unsettled(m) : i > j}) < MaxPending
  BY DEF Awaited
<1>1. m \in 1..Len(log) + 1
  <2>1. Len(log) \in Nat
    BY LogFacts DEF Known, PairedInv, PrintingInv, Printing, Good
  <2> QED BY <2>1
<1>2. IsFiniteSet(Unsettled(m)) /\ Unsettled(m) \subseteq Nat /\ k \in Nat /\ j \in Nat
  BY <1>1, UnsettledFacts DEF Awaited
<1>3. Cardinality({i \in Unsettled(m) : i > k}) < MaxPending
  BY DEF Awaited
<1>4. MaxPending \in Nat
  BY LanesAssumption
<1>5. k <= j /\ Unsettled(m) \in SUBSET Unsettled(m)
  BY <1>2
<1>6. /\ Cardinality({i \in Unsettled(m) : i > j}) \in Nat
      /\ Cardinality({i \in Unsettled(m) : i > j}) <= Cardinality({i \in Unsettled(m) : i > k})
      /\ Cardinality({i \in Unsettled(m) : i > k}) \in Nat
  BY <1>2, <1>5, LaterFewer
<1> QED BY <1>3, <1>4, <1>6

(* Those awaited after a line.                                             *)
Left(n) == {k \in Awaited(n) : ~Settles(n, k)}

LEMMA LeftFacts ==
  ASSUME Known, NEW n \in 1..Len(log)
  PROVE  /\ n \in Nat /\ n \in 1..Len(log) + 1 /\ n + 1 \in 1..Len(log) + 1 /\ 1..n + 1 = 1..n \cup {n + 1}
         /\ n \in 1..n /\ n + 1 \in 1..n + 1
         /\ Left(n) \subseteq Unsettled(n) /\ Left(n) \subseteq Unsettled(n + 1)
         /\ IsFiniteSet(Left(n)) /\ Left(n) \subseteq Nat
         /\ \A k \in Left(n) : Cardinality({j \in Left(n) : j > k}) < MaxPending
<1>1. Len(log) \in Nat
  BY LogFacts DEF Known, PairedInv, PrintingInv, Printing, Good
<1>2. n \in Nat /\ n \in 1..Len(log) + 1 /\ n + 1 \in 1..Len(log) + 1 /\ 1..n + 1 = 1..n \cup {n + 1}
      /\ n \in 1..n /\ n + 1 \in 1..n + 1
  BY <1>1
<1>3. Left(n) \subseteq Unsettled(n)
  BY DEF Left, Awaited
<1>4. Left(n) \subseteq Unsettled(n + 1)
  BY <1>3, UnsettledNext DEF Left
<1>5. IsFiniteSet(Unsettled(n)) /\ Unsettled(n) \subseteq Nat
  BY <1>2, UnsettledFacts
<1>6. IsFiniteSet(Left(n)) /\ Left(n) \subseteq Nat
  BY <1>3, <1>5, FS_Subset
<1>7. ASSUME NEW k \in Left(n) PROVE Cardinality({j \in Left(n) : j > k}) < MaxPending
  <2>1. Cardinality({j \in Unsettled(n) : j > k}) < MaxPending
    BY <1>2 DEF Left, Awaited
  <2>2. /\ Cardinality({j \in Left(n) : j > k}) \in Nat
        /\ Cardinality({j \in Left(n) : j > k}) <= Cardinality({j \in Unsettled(n) : j > k})
        /\ Cardinality({j \in Unsettled(n) : j > k}) \in Nat
    <3>1. k \in Nat /\ k <= k
      BY <1>6
    <3> QED BY <1>3, <1>5, <3>1, LaterFewer
  <2>3. MaxPending \in Nat
    BY LanesAssumption
  <2> QED BY <2>1, <2>2, <2>3
<1> QED BY <1>2, <1>3, <1>4, <1>6, <1>7

LEMMA AwaitedKeeps ==
  ASSUME Known, NEW n \in 1..Len(log), NEW k
  PROVE  k \in Awaited(n + 1) <=>
           /\ k \in Unsettled(n + 1) /\ Cardinality({j \in Unsettled(n + 1) : j > k}) < MaxPending
           /\ \A m \in 1..n : Cardinality({j \in Unsettled(m) : j > k}) < MaxPending
BY LeftFacts DEF Awaited

LEMMA AwaitedOther ==
  ASSUME Known, NEW n \in 1..Len(log), ~Commits(n)
  PROVE  Awaited(n + 1) = Left(n)
<1>1. Unsettled(n + 1) = {k \in Unsettled(n) : ~Settles(n, k)}
  BY UnsettledNext
<1>2. ASSUME NEW k \in Awaited(n + 1) PROVE k \in Left(n)
  BY <1>1, AwaitedKeeps DEF Left, Awaited
<1>3. ASSUME NEW k \in Left(n) PROVE k \in Awaited(n + 1)
  <2>1. k \in Unsettled(n + 1) /\ \A m \in 1..n : Cardinality({j \in Unsettled(m) : j > k}) < MaxPending
    BY LeftFacts DEF Left, Awaited
  <2>2. Cardinality({j \in Unsettled(n + 1) : j > k}) < MaxPending
    <3>1. IsFiniteSet(Unsettled(n)) /\ Unsettled(n) \subseteq Nat /\ k \in Nat /\ k <= k
      BY LeftFacts, UnsettledFacts
    <3>2. Unsettled(n + 1) \in SUBSET Unsettled(n)
      BY <1>1
    <3>3. /\ Cardinality({j \in Unsettled(n + 1) : j > k}) \in Nat
          /\ Cardinality({j \in Unsettled(n + 1) : j > k}) <= Cardinality({j \in Unsettled(n) : j > k})
          /\ Cardinality({j \in Unsettled(n) : j > k}) \in Nat
      <4> DEFINE U == {j \in Unsettled(n) : j > k}  V == {j \in Unsettled(n + 1) : j > k}
      <4>1. U \in SUBSET Unsettled(n) /\ V \in SUBSET U
        BY <3>2
      <4> HIDE DEF U, V
      <4>2. IsFiniteSet(U) /\ IsFiniteSet(V) /\ Cardinality(V) <= Cardinality(U)
        BY <3>1, <4>1, FS_Subset
      <4>3. Cardinality(U) \in Nat /\ Cardinality(V) \in Nat
        BY <4>2, FS_CardinalityType
      <4> QED BY <4>2, <4>3 DEF U, V
    <3>4. Cardinality({j \in Unsettled(n) : j > k}) < MaxPending /\ MaxPending \in Nat
      BY <2>1, LeftFacts, LanesAssumption
    <3> QED BY <3>3, <3>4
  <2> QED BY <2>1, <2>2, AwaitedKeeps
<1> QED BY <1>2, <1>3

LEMMA AwaitedCommit ==
  ASSUME Known, NEW n \in 1..Len(log), Commits(n)
  PROVE  LET v == log[n].val IN
         /\ v \in Nat /\ \A k \in Left(n) : k < v
         /\ \A k : k \in Awaited(n + 1) <=>
              k = v \/ (k \in Left(n) /\ Cardinality({j \in Left(n) : j > k}) + 1 < MaxPending)
<1> DEFINE v == log[n].val
<1>1. Unsettled(n + 1) = {k \in Unsettled(n) : ~Settles(n, k)} \cup {v}
  BY UnsettledNext
<1>2. v \in Nat /\ \A j \in 1..n - 1 : Commits(j) => log[j].val < v
  BY CommitLine
<1> HIDE DEF v
<1>3. ASSUME NEW m \in 1..n, NEW k \in Unsettled(m) PROVE k < v
  <2>1. m \in 1..Len(log) + 1 /\ \A o \in 1..m - 1 : o \in 1..n - 1
    BY LeftFacts
  <2>2. PICK o \in 1..m - 1 : Commits(o) /\ log[o].val = k
    BY <2>1, UnsettledFacts
  <2> QED BY <1>2, <2>1, <2>2
<1>4. \A k \in Unsettled(n) : k < v /\ k \in Nat
  BY <1>3, LeftFacts, UnsettledFacts
<1>5. \A k \in Left(n) : k < v /\ k \in Nat
  BY <1>4, LeftFacts
<1>6. v \in Awaited(n + 1)
  <2>1. \A m \in 1..n : {j \in Unsettled(m) : j > v} = {}
    <3> SUFFICES ASSUME NEW m \in 1..n, NEW j \in Unsettled(m), j > v PROVE FALSE
      OBVIOUS
    <3>1. j < v
      BY <1>3
    <3>2. j \in Nat
      BY LeftFacts, UnsettledFacts
    <3> QED BY <1>2, <3>1, <3>2
  <2>2. {j \in Unsettled(n + 1) : j > v} = {}
    BY <1>1, <1>2, <1>4
  <2>3. Cardinality({}) = 0 /\ MaxPending \in Nat \ {0}
    BY LanesAssumption, FS_EmptySet
  <2>4. v \in Unsettled(n + 1)
    BY <1>1
  <2>5. Cardinality({j \in Unsettled(n + 1) : j > v}) < MaxPending
    <3>1. 0 < MaxPending
      BY <2>3
    <3> QED BY <2>2, <2>3, <3>1
  <2>6. ASSUME NEW m \in 1..n PROVE Cardinality({j \in Unsettled(m) : j > v}) < MaxPending
    <3>1. 0 < MaxPending
      BY <2>3
    <3> QED BY <2>1, <2>3, <3>1
  <2> QED BY <2>4, <2>5, <2>6, AwaitedKeeps
<1>7. ASSUME NEW k \in Left(n)
      PROVE  /\ \A m \in 1..n : Cardinality({j \in Unsettled(m) : j > k}) < MaxPending
             /\ Cardinality({j \in Unsettled(n + 1) : j > k}) = Cardinality({j \in Left(n) : j > k}) + 1
  <2> DEFINE T == {j \in Left(n) : j > k}
  <2>1. \A j \in Unsettled(n) : j > k /\ ~Settles(n, j) => j \in Left(n)
    <3> SUFFICES ASSUME NEW j \in Unsettled(n), j > k, ~Settles(n, j) PROVE j \in Left(n)
      OBVIOUS
    <3>1. k \in Awaited(n) /\ k < j
      BY <1>4, <1>5 DEF Left
    <3> QED BY <3>1, LeftFacts, AwaitedLater DEF Left
  <2>2. {j \in Unsettled(n + 1) : j > k} = T \cup {v}
    BY <1>1, <1>2, <1>5, <2>1, LeftFacts
  <2>3. v \notin T /\ IsFiniteSet(T)
    <3>1. v \notin Left(n)
      BY <1>2, <1>5
    <3>2. k \in Nat /\ k <= k /\ IsFiniteSet(Left(n)) /\ Left(n) \in SUBSET Left(n) /\ Left(n) \subseteq Nat
      BY LeftFacts
    <3>3. IsFiniteSet(T)
      BY <3>2, LaterFewer
    <3> QED BY <3>1, <3>3
  <2> HIDE DEF T
  <2>4. Cardinality(T \cup {v}) = Cardinality(T) + 1
    BY <2>3, FS_AddElement
  <2> QED BY <2>2, <2>4 DEF T, Left, Awaited
<1>8. ASSUME NEW k, k # v, k \in Awaited(n + 1) PROVE k \in Left(n)
  BY <1>1, <1>8, AwaitedKeeps DEF Left, Awaited
<1>9. ASSUME NEW k \in Left(n)
      PROVE  k \in Awaited(n + 1) <=> Cardinality({j \in Left(n) : j > k}) + 1 < MaxPending
  BY <1>7, LeftFacts, AwaitedKeeps
<1>10. ASSUME NEW k
       PROVE  k \in Awaited(n + 1) <=>
                k = v \/ (k \in Left(n) /\ Cardinality({j \in Left(n) : j > k}) + 1 < MaxPending)
  BY <1>5, <1>6, <1>8, <1>9
<1> QED BY <1>2, <1>5, <1>10 DEF v

-----------------------------------------------------------------------------
(* The queue of BOOM's parser lists those awaited, and its last entry is   *)
(* that of the last commit, as long as every line is clear.                *)

LastIs(b, n) ==
  /\ DOMAIN b = {"pending", "last", "lastAt", "current"}
  /\ \/ b.last = None /\ \A m \in 1..n : ~Commits(m)
     \/ /\ b.last # None /\ b.lastAt \in 1..n /\ Commits(b.lastAt)
        /\ \A m \in b.lastAt + 1..n : ~Commits(m)
        /\ b.last = EntryOf(history, log[b.lastAt].val)
ClearTo(n) == \A m \in 1..n : Clear(m)
Unnamed == config.sim = "boom" /\ ~config.patched
QueueRight(b, n) == Lists(b.pending, history, Awaited(n + 1)) /\ LastIs(b, n)

(* Every quiet read of mepc is noted.                                      *)
EpcKept ==
  \A a \in 1..pos : log[a].csr = "mepc" /\ Quiet(log, a + 1, pos) => trap.mepc # None

LEMMA EntryTyped ==
  ASSUME NEW h, History(config, h), NEW k \in DOMAIN h, h[k].op.addr # None
  PROVE  EntryOf(h, k) # None
<1>1. h[k].pc \in Nat /\ h[k].op \in Operations /\ h[k].op.cmd # None
  BY StepTyped DEF Proper
<1>2. h[k].op.cmd \in {"write", "sc", "add"} /\ h[k].op.size \in 0..3
  BY <1>1 DEF Operations
<1>3. EntryOf(h, k) \in [pc : Nat, cmd : {"write", "sc", "add"}, size : 0..3]
  BY <1>1, <1>2 DEF EntryOf
<1> QED BY <1>3, NoneAssumption

(* What a line that is no memory write settles.                            *)
LEMMA LineSettles ==
  ASSUME Known, EpcKept, pos < Len(log), Line.k # "mt"
  PROVE  LET seen == Noticed(Line.csr)
             known == Line.csr # None /\ seen.mepc # None /\ seen.mcause # None IN
         /\ Line.k = "exc" => Left(pos + 1) = {k \in Awaited(pos + 1) : history[k].pc # Line.pc}
         /\ Line.k # "exc" /\ known =>
              Left(pos + 1) = {k \in Awaited(pos + 1) : history[k].pc # seen.mepc}
         /\ Line.k # "exc" /\ ~known => Left(pos + 1) = Awaited(pos + 1)
<1> DEFINE n == pos + 1  seen == Noticed(Line.csr)
           known == Line.csr # None /\ seen.mepc # None /\ seen.mcause # None
<1>1. /\ pos \in Nat /\ n \in Nat /\ n - 1 = pos /\ Line = log[n]
      /\ Line.csr \in {"mepc", "mcause", None} /\ (Line.csr # None => Line.val \in Nat)
  BY LineTold DEF Known, Line, Told, ToldKind
<1>2. \A k : Settles(n, k) <=> history[k].pc \in Reported(n)
  BY <1>1 DEF Settles
<1>3. Line.k = "exc" => Reported(n) = {Line.pc}
  BY <1>1 DEF Reported
<1>4. ASSUME Line.k # "exc", Line.csr # "mcause" PROVE Reported(n) = {} /\ ~known
  <2>1. Reported(n) = {}
    BY <1>1, <1>4 DEF Reported
  <2>2. CASE Line.csr = None
    BY <2>1, <2>2
  <2>3. CASE Line.csr = "mepc"
    <3>1. seen = [mepc |-> Line.val, mcause |-> None]
      BY <2>3 DEF Noticed
    <3>2. seen.mcause = None
      BY <3>1
    <3> HIDE DEF seen
    <3> QED BY <2>1, <3>2
  <2> QED BY <1>1, <1>4, <2>2, <2>3
<1>5. ASSUME Line.k # "exc", Line.csr = "mcause"
      PROVE  /\ known <=> trap.mepc # None
             /\ seen.mepc = trap.mepc
             /\ Reported(n) = IF trap.mepc # None THEN {trap.mepc} ELSE {}
  <2> DEFINE R == {o \in 1..n - 1 : log[o].csr = "mepc" /\ \A j \in o + 1..n - 1 : log[j].csr = None}
  <2>1. seen = [trap EXCEPT !.mcause = Line.val] /\ DOMAIN trap = {"mepc", "mcause"}
    BY <1>5 DEF Noticed, Known, PairedInv, Noted
  <2>2. seen.mepc = trap.mepc /\ seen.mcause = Line.val /\ Line.val \in Nat
    BY <1>1, <1>5, <2>1, NoneAssumption
  <2>3. seen.mcause # None /\ Line.csr # None
    BY <1>5, <2>2, NoneAssumption
  <2> HIDE DEF seen
  <2>4. Reported(n) = {log[m].val : m \in R}
    BY <1>1, <1>5 DEF Reported
  <2>5. R = {o \in 1..pos : log[o].csr = "mepc" /\ Quiet(log, o + 1, pos)}
    BY <1>1 DEF Quiet
  <2> HIDE DEF R, n
  <2>6. ASSUME trap.mepc = None PROVE R = {}
    BY <2>5, <2>6 DEF EpcKept
  <2>7. ASSUME trap.mepc # None PROVE \E a : R = {a} /\ log[a].val = trap.mepc
    <3>1. PICK a \in 1..pos : log[a].csr = "mepc" /\ log[a].val = trap.mepc /\ Quiet(log, a + 1, pos)
      BY <2>7 DEF Known, PairedInv, Noted
    <3>2. ASSUME NEW o \in R PROVE o = a
      <4>1. o \in 1..pos /\ log[o].csr = "mepc" /\ Quiet(log, o + 1, pos)
        BY <2>5
      <4>2. "mepc" # None
        BY NoneAssumption
      <4>3. ~(o < a)
        <5>1. o < a => a \in o + 1..pos
          BY <1>1, <4>1
        <5> QED BY <3>1, <4>1, <4>2, <5>1 DEF Quiet
      <4>4. ~(a < o)
        <5>1. a < o => o \in a + 1..pos
          BY <1>1, <4>1
        <5> QED BY <3>1, <4>1, <4>2, <5>1 DEF Quiet
      <4> QED BY <1>1, <4>1, <4>3, <4>4
    <3>3. a \in R
      BY <2>5, <3>1
    <3> QED BY <3>1, <3>2, <3>3
  <2>8. Reported(n) = IF trap.mepc # None THEN {trap.mepc} ELSE {}
    <3>1. CASE trap.mepc = None
      BY <2>4, <2>6, <3>1
    <3>2. CASE trap.mepc # None
      <4>1. PICK a : R = {a} /\ log[a].val = trap.mepc
        BY <2>7, <3>2
      <4> QED BY <2>4, <3>2, <4>1
    <3> QED BY <3>1, <3>2
  <2> QED BY <2>2, <2>3, <2>8
<1> HIDE DEF n, seen, known
<1>6. ASSUME Line.k = "exc" PROVE Left(n) = {k \in Awaited(n) : history[k].pc # Line.pc}
  BY <1>2, <1>3, <1>6 DEF Left
<1>7. ASSUME Line.k # "exc", known PROVE Left(n) = {k \in Awaited(n) : history[k].pc # seen.mepc}
  <2>1. Line.csr = "mcause"
    BY <1>4, <1>7
  <2>2. Reported(n) = {seen.mepc}
    BY <1>5, <1>7, <2>1
  <2> QED BY <1>2, <2>2 DEF Left
<1>8. ASSUME Line.k # "exc", ~known PROVE Left(n) = Awaited(n)
  <2>1. Reported(n) = {}
    BY <1>4, <1>5, <1>8
  <2> QED BY <1>2, <2>1 DEF Left
<1> QED BY <1>6, <1>7, <1>8 DEF n, seen, known

(* A commit, after what the line settles.                                  *)
LEMMA CommitReads ==
  ASSUME Known, pos < Len(log), Line.insn # None, Line.k # "mt", Clear(pos + 1),
         NEW b, Lists(b.pending, history, Left(pos + 1)), LastIs(b, pos)
  PROVE  QueueRight(Committed(b, Line.pc, Line.insn), pos + 1)
<1> DEFINE n == pos + 1  op == Line.insn  c == Committed(b, Line.pc, op)
           e == Entry(Line.pc, op)  q == Append(b.pending, e)
<1>1. pos \in Nat /\ n \in Nat /\ n \in 1..Len(log) /\ Line = log[n] /\ 1..n = 1..pos \cup {n}
      /\ \A m \in n + 1..n : FALSE
  BY LineTold DEF Known, Line
<1>2. History(config, history)
  BY DEF Known, PairedInv, PrintingInv, Printing
<1>3. CASE ~Commits(n)
  <2>1. Decoded(op) = None
    BY <1>1, <1>3 DEF Clear
  <2>2. c = [b EXCEPT !.current = Line.pc]
    BY <2>1 DEF Committed
  <2>3. DOMAIN c = DOMAIN b /\ c.pending = b.pending /\ c.last = b.last /\ c.lastAt = b.lastAt
    BY <2>2 DEF LastIs
  <2> HIDE DEF c, n
  <2>4. Lists(c.pending, history, Awaited(n + 1))
    BY <1>1, <1>3, <2>3, AwaitedOther DEF n
  <2>5. LastIs(c, n)
    <3>1. CASE b.last = None /\ \A m \in 1..pos : ~Commits(m)
      BY <1>1, <1>3, <2>3, <3>1 DEF LastIs
    <3>2. CASE ~(b.last = None /\ \A m \in 1..pos : ~Commits(m))
      <4>1. /\ b.last # None /\ b.lastAt \in 1..pos /\ Commits(b.lastAt)
            /\ \A m \in b.lastAt + 1..pos : ~Commits(m)
            /\ b.last = EntryOf(history, log[b.lastAt].val)
        BY <3>2 DEF LastIs
      <4>2. b.lastAt \in 1..n /\ \A m \in b.lastAt + 1..n : m \in b.lastAt + 1..pos \/ m = n
        BY <1>1, <4>1 DEF n
      <4>3. \A m \in b.lastAt + 1..n : ~Commits(m)
        BY <1>3, <4>1, <4>2
      <4> QED BY <2>3, <4>1, <4>2, <4>3 DEF LastIs
    <3> QED BY <3>1, <3>2
  <2> QED BY <2>4, <2>5 DEF QueueRight, c, n, op
<1>4. CASE Commits(n)
  <2> DEFINE v == log[n].val
  <2>1. v \in DOMAIN history /\ v \in Nat /\ Line.pc = history[v].pc /\ op = history[v].op
    BY <1>1, <1>4, CommitLine
  <2>2. Decoded(op) = <<op.cmd, op.size>> /\ op.addr # None
    BY <1>1, <1>4 DEF Clear, Commits
  <2>3. Decoded(op) # None
    <3>1. op \in Operations /\ op.cmd # None
      BY <1>2, <2>1, <2>2, StepTyped DEF Proper
    <3>2. op.cmd \in {"write", "sc", "add"} /\ op.size \in 0..3
      BY <3>1 DEF Operations
    <3>3. <<op.cmd, op.size>> \in {"write", "sc", "add"} \X (0..3)
      BY <3>2
    <3> QED BY <2>2, <3>3, NoneAssumption
  <2>4. e = EntryOf(history, v)
    BY <2>1, <2>2 DEF Entry, EntryOf
  <2>5. e # None
    BY <1>2, <2>1, <2>2, <2>4, EntryTyped
  <2>6. c = [pending |-> IF Len(q) > MaxPending THEN Tail(q) ELSE q, last |-> e, lastAt |-> pos + 1,
             current |-> Line.pc]
    BY <2>3 DEF Committed
  <2> HIDE DEF v, e, q
  <2>7. /\ DOMAIN c = {"pending", "last", "lastAt", "current"}
        /\ c.pending = (IF Len(q) > MaxPending THEN Tail(q) ELSE q) /\ c.last = e /\ c.lastAt = n
    BY <2>6
  <2>8. /\ \A k \in Left(n) : k < v
        /\ \A k \in Left(n) : Cardinality({j \in Left(n) : j > k}) < MaxPending
        /\ \A k : k \in Awaited(n + 1) <=>
             k = v \/ (k \in Left(n) /\ Cardinality({j \in Left(n) : j > k}) + 1 < MaxPending)
    BY <1>1, <1>4, AwaitedCommit, LeftFacts DEF v
  <2> HIDE DEF c, n
  <2>9. Lists(IF Len(q) > MaxPending THEN Tail(q) ELSE q, history, Awaited(n + 1))
    <3>1. q = Append(b.pending, EntryOf(history, v)) /\ Lists(b.pending, history, Left(n))
      BY <2>4 DEF q, n
    <3> QED BY <2>1, <2>8, <3>1, ListsCommit
  <2>10. LastIs(c, n)
    <3>1. n \in 1..n
      BY <1>1 DEF n
    <3> QED BY <1>1, <1>4, <2>4, <2>5, <2>7, <3>1 DEF LastIs, v
  <2> QED BY <2>7, <2>9, <2>10 DEF QueueRight, c, n, op
<1> QED BY <1>3, <1>4

(* Lines that are no memory writes.                                        *)
LEMMA DropReads ==
  ASSUME Known, NEW b, NEW n \in Nat, LastIs(b, n), NEW p
  PROVE  LET d == [b EXCEPT !.pending = DropAt(@, p)] IN
         d.pending = DropAt(b.pending, p) /\ LastIs(d, n)
<1> DEFINE d == [b EXCEPT !.pending = DropAt(@, p)]
<1>1. /\ DOMAIN d = DOMAIN b /\ d.pending = DropAt(b.pending, p)
      /\ d.last = b.last /\ d.lastAt = b.lastAt
  BY DEF LastIs
<1> HIDE DEF d
<1> QED BY <1>1 DEF LastIs, d

(* A line that commits nothing and is no memory write.                     *)
LEMMA RestReads ==
  ASSUME Known, pos < Len(log), ~Commits(pos + 1),
         NEW b, Lists(b.pending, history, Left(pos + 1)), LastIs(b, pos),
         NEW c, DOMAIN c = DOMAIN b, c.pending = b.pending, c.last = b.last, c.lastAt = b.lastAt
  PROVE  QueueRight(c, pos + 1)
<1> DEFINE n == pos + 1
<1>1. pos \in Nat /\ n \in Nat /\ n \in 1..Len(log) /\ 1..n = 1..pos \cup {n}
  BY LineTold DEF Known
<1> HIDE DEF n
<1>2. Lists(c.pending, history, Awaited(n + 1))
  BY <1>1, AwaitedOther DEF n
<1>3. CASE b.last = None /\ \A m \in 1..pos : ~Commits(m)
  BY <1>1, <1>2, <1>3 DEF LastIs, QueueRight, n
<1>4. CASE ~(b.last = None /\ \A m \in 1..pos : ~Commits(m))
  <2>1. /\ b.last # None /\ b.lastAt \in 1..pos /\ Commits(b.lastAt)
        /\ \A m \in b.lastAt + 1..pos : ~Commits(m)
        /\ b.last = EntryOf(history, log[b.lastAt].val)
    BY <1>4 DEF LastIs
  <2>2. b.lastAt \in 1..n /\ \A m \in b.lastAt + 1..n : m \in b.lastAt + 1..pos \/ m = n
    BY <1>1, <2>1 DEF n
  <2>3. \A m \in b.lastAt + 1..n : ~Commits(m)
    BY <2>1, <2>2 DEF n
  <2>4. LastIs(c, n)
    BY <2>1, <2>2, <2>3 DEF LastIs
  <2> QED BY <1>2, <2>4 DEF QueueRight, n
<1> QED BY <1>3, <1>4

LEMMA OtherReads ==
  ASSUME Known, EpcKept, QueueRight(boom, pos), Clear(pos + 1),
         BoomInstruction \/ BoomRegister \/ BoomFloat \/ BoomStore \/ BoomException \/ Ignore
  PROVE  QueueRight(boom', pos + 1)
<1> DEFINE n == pos + 1
<1>1. pos < Len(log) /\ Line.k # "mt"
  BY DEF BoomInstruction, BoomRegister, BoomFloat, BoomStore, BoomException, Ignore, Reads
<1>2. PICK k \in DOMAIN history : Told(config, Line, history, k)
  BY <1>1, LineTold DEF Known
<1>3. /\ pos \in Nat /\ Line = log[n]
      /\ Line.k \in {"insn", "freg"} => Line.insn # None
      /\ Line.insn # None => Line.k \in {"insn", "reg", "freg"}
      /\ Line.k # "reg" => Line.csr = None
  BY <1>1, <1>2, LineTold DEF Known, Line, Told, ToldBoom, ToldKind
<1>4. Line.insn = None => ~Commits(n)
  BY <1>3 DEF Commits
<1>5. Lists(boom.pending, history, Awaited(n)) /\ LastIs(boom, pos)
  BY DEF QueueRight
<1> HIDE DEF n
<1>6. CASE BoomInstruction \/ BoomFloat
  <2>1. boom' = Committed(boom, Line.pc, Line.insn) /\ Line.k \in {"insn", "freg"}
    BY <1>6 DEF BoomInstruction, BoomFloat
  <2>2. Left(n) = Awaited(n)
    BY <1>1, <1>3, <2>1, LineSettles DEF n
  <2>3. Lists(boom.pending, history, Left(pos + 1))
    BY <1>5, <2>2 DEF n
  <2> QED BY <1>1, <1>3, <1>5, <2>1, <2>3, CommitReads
<1>7. CASE BoomStore \/ Ignore
  <2>1. Line.k \in {"store", "noise"}
    BY <1>7 DEF BoomStore, Ignore
  <2>2. Line.insn = None /\ Line.csr = None
    BY <1>3, <2>1
  <2>3. Left(n) = Awaited(n)
    BY <1>1, <2>1, <2>2, LineSettles DEF n
  <2>4. boom' = boom \/ boom' = [boom EXCEPT !.current = Line.pc]
    BY <1>7 DEF BoomStore, Ignore, Plain
  <2>5. /\ DOMAIN boom' = DOMAIN boom /\ boom'.pending = boom.pending
        /\ boom'.last = boom.last /\ boom'.lastAt = boom.lastAt
    BY <1>5, <2>4 DEF LastIs
  <2>6. ~Commits(pos + 1) /\ Lists(boom.pending, history, Left(pos + 1))
    BY <1>4, <1>5, <2>2, <2>3 DEF n
  <2> QED BY <1>1, <1>5, <2>5, <2>6, RestReads
<1>8. CASE BoomException
  <2> DEFINE b == [boom EXCEPT !.pending = DropAt(@, Line.pc)]
  <2>1. boom' = [boom EXCEPT !.pending = DropAt(@, Line.pc), !.current = Line.pc] /\ Line.k = "exc"
    BY <1>8 DEF BoomException
  <2>2. b.pending = DropAt(boom.pending, Line.pc) /\ LastIs(b, pos)
    BY <1>3, <1>5, DropReads
  <2>3. /\ DOMAIN boom' = DOMAIN b /\ boom'.pending = b.pending
        /\ boom'.last = b.last /\ boom'.lastAt = b.lastAt
    BY <1>5, <2>1 DEF LastIs
  <2> HIDE DEF b
  <2>4. Left(n) = {j \in Awaited(n) : history[j].pc # Line.pc}
    BY <1>1, <2>1, LineSettles DEF n
  <2>5. Lists(b.pending, history, Left(n))
    BY <1>5, <2>2, <2>4, ListsDrop
  <2>6. ~Commits(pos + 1) /\ Lists(b.pending, history, Left(pos + 1))
    BY <1>3, <1>4, <2>1, <2>5 DEF n
  <2> QED BY <1>1, <2>2, <2>3, <2>6, RestReads
<1>9. CASE BoomRegister
  <2> DEFINE seen == Noticed(Line.csr)
             known == Line.csr # None /\ seen.mepc # None /\ seen.mcause # None
             b == IF known THEN [boom EXCEPT !.pending = DropAt(@, seen.mepc)] ELSE boom
  <2>1. Line.k = "reg" /\ boom' = IF Line.insn = None THEN [b EXCEPT !.current = Line.pc]
                                  ELSE Committed(b, Line.pc, Line.insn)
    BY <1>9 DEF BoomRegister
  <2>2. Lists(b.pending, history, Left(n)) /\ LastIs(b, pos)
    <3>1. CASE known
      <4> DEFINE d == [boom EXCEPT !.pending = DropAt(@, seen.mepc)]
      <4>1. b = d
        BY <3>1
      <4>2. d.pending = DropAt(boom.pending, seen.mepc) /\ LastIs(d, pos)
        BY <1>3, <1>5, DropReads
      <4>3. Left(n) = {j \in Awaited(n) : history[j].pc # seen.mepc}
        BY <1>1, <2>1, <3>1, LineSettles DEF n
      <4> HIDE DEF b, d, known, seen
      <4> QED BY <1>5, <4>1, <4>2, <4>3, ListsDrop
    <3>2. CASE ~known
      <4>1. b = boom
        BY <3>2
      <4>2. Left(n) = Awaited(n)
        BY <1>1, <2>1, <3>2, LineSettles DEF n
      <4> HIDE DEF b, known, seen
      <4> QED BY <1>5, <4>1, <4>2
    <3> HIDE DEF b, known, seen
    <3> QED BY <3>1, <3>2
  <2> HIDE DEF b, known, seen
  <2>3. Lists(b.pending, history, Left(pos + 1))
    BY <2>2 DEF n
  <2>4. CASE Line.insn # None
    <3>1. boom' = Committed(b, Line.pc, Line.insn)
      BY <2>1, <2>4
    <3> QED BY <1>1, <2>2, <2>3, <2>4, <3>1, CommitReads
  <2>5. CASE Line.insn = None
    <3>1. boom' = [b EXCEPT !.current = Line.pc]
      BY <2>1, <2>5
    <3>2. /\ DOMAIN boom' = DOMAIN b /\ boom'.pending = b.pending
          /\ boom'.last = b.last /\ boom'.lastAt = b.lastAt
      BY <2>2, <3>1 DEF LastIs
    <3>3. ~Commits(pos + 1)
      BY <1>4, <2>5 DEF n
    <3> QED BY <1>1, <2>2, <2>3, <3>2, <3>3, RestReads
  <2> QED BY <2>4, <2>5
<1> QED BY <1>6, <1>7, <1>8, <1>9

(* A memory write without an address finds the entry of the access that    *)
(* made it.                                                                *)
LEMMA LeastIs ==
  ASSUME NEW S, S \subseteq Nat, NEW m \in S, \A i \in S : m <= i
  PROVE  Min(S) = m
<1>1. Min(S) \in S /\ \A i \in S : Min(S) <= i
  <2>1. \E x \in S : \A y \in S : x <= y
    OBVIOUS
  <2> QED BY <2>1 DEF Min
<1>2. Min(S) <= m /\ m <= Min(S) /\ m \in Nat /\ Min(S) \in Nat
  BY <1>1
<1> QED BY <1>2

LEMMA WaitingIs ==
  ASSUME Known, pos < Len(log), Line.k = "mt", QueueRight(boom, pos), Clear(pos + 1)
  PROVE  LET i == Waiting(Line.insn)  u == Writer(pos + 1) IN
         /\ u \in DOMAIN history /\ Told(config, Line, history, u)
         /\ i \in 1..Len(boom.pending) /\ boom.pending[i].pc = history[u].pc
         /\ Lists(Without(boom.pending, i), history, Awaited(pos + 2))
<1> DEFINE n == pos + 1  op == Line.insn  u == Writer(n)
           q == boom.pending  h == history
<1>1. /\ pos \in Nat /\ n \in Nat /\ n \in 1..Len(log) /\ Line = log[n] /\ n + 1 = pos + 2 /\ n - 1 = pos
      /\ History(config, history)
  BY LineTold DEF Known, Line, PairedInv, PrintingInv, Printing
<1>2. PICK k \in DOMAIN history : Told(config, Line, history, k)
  BY LineTold DEF Known
<1>3. op = history[k].op /\ Line.data = Low(k) /\ Line.csr = None
  <2>1. Line.addr # None
    BY <1>2 DEF Told, ToldKind
  <2> QED BY <1>2, <2>1 DEF Told, ToldKind, ToldBoom, ToldStore, ShowsStore, Wide, Known
<1>4. u = k
  <2>1. 0 \in 0..Lanes - 1
    BY LanesAssumption
  <2> QED BY <1>1, <1>3, <2>1 DEF Writer, Low
<1>5. u \in Alike(n) /\ IF Fresh(n) # {} THEN Fresh(n) = {u} ELSE \A j \in Alike(n) : u <= j
  BY <1>1 DEF Clear
<1>6. PICK s : Rising(s) /\ Members(s) = Awaited(n) /\ q = Entries(h, s)
  BY DEF QueueRight, Lists
<1>7. /\ s \in Seq(Nat) /\ Len(s) \in Nat /\ Len(q) = Len(s) /\ DOMAIN q = 1..Len(s)
      /\ \A i \in 1..Len(s) : /\ s[i] \in Nat /\ s[i] \in Awaited(n) /\ q[i] = EntryOf(h, s[i])
                              /\ q[i].pc = h[s[i]].pc /\ q[i].cmd = h[s[i]].op.cmd
                              /\ q[i].size = h[s[i]].op.size
  BY <1>6, EntriesFacts DEF Rising
<1> HIDE DEF n, op, u, q, h
<1>8. \A i \in DOMAIN q : i \in Matching(q, op) <=> s[i] \in Alike(n)
  BY <1>1, <1>7 DEF Matching, Alike, op, h
<1>9. PICK i \in 1..Len(s) : s[i] = u
  <2>1. u \in Members(s)
    BY <1>5, <1>6 DEF Alike
  <2> QED BY <2>1 DEF Members
<1>10. i \in Matching(q, op) /\ Matching(q, op) \subseteq Nat
  BY <1>5, <1>7, <1>8, <1>9 DEF Matching
<1>11. Waiting(op) = i
  <2> DEFINE R == Recent(op)
  <2>1. R \subseteq Matching(q, op) /\ \A j \in R : q[j] = boom.last
    BY DEF Recent, q
  <2>2. CASE Fresh(n) # {}
    <3>1. PICK m \in 1..n - 1 : /\ n - m <= 2 /\ Commits(m) /\ log[m].pc = h[u].pc
                                /\ \A o \in m + 1..n - 1 : ~Commits(o)
      BY <1>5, <2>2 DEF Fresh, h
    <3>2. /\ boom.last # None /\ boom.lastAt \in 1..pos /\ Commits(boom.lastAt)
          /\ \A o \in boom.lastAt + 1..pos : ~Commits(o)
          /\ boom.last = EntryOf(history, log[boom.lastAt].val)
      BY <1>1, <3>1 DEF QueueRight, LastIs
    <3>3. boom.lastAt = m
      <4>1. ~(m < boom.lastAt)
        <5>1. m < boom.lastAt => boom.lastAt \in m + 1..n - 1
          BY <1>1, <3>1, <3>2
        <5> QED BY <3>1, <3>2, <5>1
      <4>2. ~(boom.lastAt < m)
        <5>1. boom.lastAt < m => m \in boom.lastAt + 1..pos
          BY <1>1, <3>1, <3>2
        <5> QED BY <3>1, <3>2, <5>1
      <4> QED BY <1>1, <3>1, <3>2, <4>1, <4>2
    <3> DEFINE v == log[m].val
    <3>4. v \in DOMAIN h /\ log[m].pc = h[v].pc
      <4>1. m \in 1..Len(log)
        BY <1>1, <3>1
      <4> QED BY <3>1, <4>1, CommitLine DEF h
    <3>5. boom.last = EntryOf(h, v)
      BY <3>2, <3>3 DEF h
    <3> HIDE DEF v
    <3>6. ASSUME NEW j \in 1..Len(s), s[j] \in DOMAIN h
          PROVE  q[j] = boom.last <=> h[s[j]].pc = h[v].pc
      <4>1. q[j] = EntryOf(h, s[j])
        BY <1>7
      <4>2. h[s[j]].pc = h[v].pc => EntryOf(h, s[j]) = EntryOf(h, v)
        <5>1. h[s[j]].op = config.program[h[s[j]].pc] /\ h[v].op = config.program[h[v].pc]
          BY <1>1, <3>4, <3>6, StepTyped DEF h
        <5> QED BY <5>1 DEF EntryOf
      <4>3. EntryOf(h, s[j]) = EntryOf(h, v) => h[s[j]].pc = h[v].pc
        <5>1. EntryOf(h, s[j]).pc = h[s[j]].pc /\ EntryOf(h, v).pc = h[v].pc
          BY DEF EntryOf
        <5> QED BY <5>1
      <4> QED BY <3>5, <4>1, <4>2, <4>3
    <3>7. \A j \in 1..Len(s) : s[j] \in DOMAIN h
      <4>1. Awaited(n) \subseteq DOMAIN h
        <5>1. n \in 1..Len(log) + 1
          BY <1>1, LeftFacts
        <5> QED BY <5>1, UnsettledFacts DEF Awaited, h
      <4> QED BY <1>7, <4>1
    <3>8. i \in R
      <4>1. pos + 1 - boom.lastAt <= 2
        BY <1>1, <3>1, <3>3 DEF n
      <4>2. q[i] = boom.last
        BY <1>9, <3>1, <3>4, <3>6, <3>7
      <4>3. ~(pos + 1 - boom.lastAt > 2)
        BY <1>1, <3>2, <4>1
      <4> QED BY <1>10, <3>2, <4>2, <4>3 DEF Recent, q
    <3>9. ASSUME NEW j \in R PROVE j = i
      <4>1. j \in Matching(q, op) /\ q[j] = boom.last /\ j \in 1..Len(s)
        BY <1>7, <2>1 DEF Matching
      <4>2. s[j] \in Alike(n) /\ h[s[j]].pc = log[m].pc
        BY <1>7, <1>8, <3>4, <3>6, <3>7, <4>1
      <4>3. s[j] \in Fresh(n)
        BY <3>1, <4>2 DEF Fresh, h
      <4>4. s[j] = u
        BY <1>5, <2>2, <4>3
      <4>5. ~(s[j] < s[i]) /\ ~(s[i] < s[j])
        BY <1>7, <1>9, <4>1, <4>4
      <4>6. ~(j < i) /\ ~(i < j)
        BY <1>6, <4>1, <4>5 DEF Rising
      <4> QED BY <1>7, <4>1, <4>6
    <3>10. R = {i} /\ Min(R) = i
      <4>1. R = {i}
        BY <3>8, <3>9
      <4>2. i \in Nat /\ i <= i
        BY <1>7
      <4> QED BY <4>1, <4>2, LeastIs
    <3> QED BY <3>10 DEF Waiting
  <2>3. CASE Fresh(n) = {}
    <3>1. R = {}
      <4> SUFFICES ASSUME NEW j \in R PROVE FALSE
        OBVIOUS
      <4>1. /\ boom.last # None /\ ~(pos + 1 - boom.lastAt > 2) /\ j \in 1..Len(s) /\ s[j] \in Alike(n)
            /\ q[j] = boom.last
        BY <1>7, <1>8, <2>1 DEF Recent, Matching
      <4>2. /\ boom.lastAt \in 1..pos /\ Commits(boom.lastAt)
            /\ \A o \in boom.lastAt + 1..pos : ~Commits(o)
            /\ boom.last = EntryOf(history, log[boom.lastAt].val)
        BY <4>1 DEF QueueRight, LastIs
      <4> DEFINE m == boom.lastAt  v == log[m].val
      <4>3. log[m].pc = h[v].pc /\ m \in 1..n - 1 /\ n - m <= 2
        <5>1. m \in 1..Len(log)
          BY <1>1, <4>2
        <5>2. n - m <= 2
          BY <1>1, <4>1, <4>2 DEF n
        <5> QED BY <1>1, <4>2, <5>1, <5>2, CommitLine DEF h
      <4>4. EntryOf(h, s[j]) = EntryOf(h, v)
        BY <1>7, <4>1, <4>2 DEF h
      <4>5. h[s[j]].pc = h[v].pc
        <5>1. EntryOf(h, s[j]).pc = h[s[j]].pc /\ EntryOf(h, v).pc = h[v].pc
          BY DEF EntryOf
        <5> QED BY <4>4, <5>1
      <4> HIDE DEF m, v
      <4>6. s[j] \in Fresh(n)
        <5>1. Commits(m) /\ \A o \in m + 1..n - 1 : ~Commits(o)
          BY <1>1, <4>2 DEF m
        <5> QED BY <4>1, <4>3, <4>5, <5>1 DEF Fresh, h
      <4> QED BY <2>3, <4>6
    <3>2. \A j \in Matching(q, op) : i <= j
      <4> SUFFICES ASSUME NEW j \in Matching(q, op), j < i PROVE FALSE
        BY <1>7, <1>10
      <4>1. j \in 1..Len(s) /\ s[j] \in Alike(n)
        BY <1>7, <1>8 DEF Matching
      <4>2. s[j] < s[i] /\ s[j] \in Nat /\ s[i] \in Nat
        BY <1>6, <1>7, <4>1 DEF Rising
      <4>3. s[i] <= s[j]
        BY <1>5, <1>9, <2>3, <4>1
      <4> QED BY <4>2, <4>3
    <3>3. Min(Matching(q, op)) = i
      BY <1>10, <3>2, LeastIs
    <3> QED BY <1>10, <3>1, <3>3 DEF Waiting, q
  <2> QED BY <2>2, <2>3
<1>12. Left(n) = Awaited(n) \ {u}
  <2>1. Reported(n) = {}
    BY <1>1, <1>3, NoneAssumption DEF Reported
  <2>2. \A j : Settles(n, j) <=> j = u
    BY <1>1, <2>1 DEF Settles, u
  <2> QED BY <2>2 DEF Left
<1>13. ~Commits(n)
  BY <1>1 DEF Commits
<1>14. Awaited(n + 1) = Members(s) \ {s[i]}
  BY <1>1, <1>6, <1>9, <1>12, <1>13, AwaitedOther
<1>15. Lists(Without(q, i), h, Awaited(n + 1))
  <2> DEFINE t == Without(s, i)
  <2>1. Rising(t) /\ Members(t) = Members(s) \ {s[i]} /\ Entries(h, t) = Without(Entries(h, s), i)
    BY <1>6, <1>9, RisingWithout
  <2> HIDE DEF t
  <2>2. Rising(t) /\ Members(t) = Awaited(n + 1) /\ Without(q, i) = Entries(h, t)
    BY <1>6, <1>14, <2>1
  <2> QED BY <2>2 DEF Lists
<1>16. q[i].pc = h[u].pc
  BY <1>7, <1>9
<1> QED BY <1>1, <1>2, <1>4, <1>7, <1>11, <1>15, <1>16 DEF n, op, u, q, h

(* A write is where it was made, by the history.                           *)
MemRight(w, h) ==
  /\ \A a \in DOMAIN w.data : h[w.data[a][1]].pc = w.pc
  /\ \E k \in DOMAIN h : h[k].pc = w.pc /\ Writes(h[k].op)

(* The bytes of a store are all its own.                                   *)
LEMMA CoveredLanes ==
  ASSUME NEW op, op \in Operations, Proper(op), op.addr # None, NEW a \in Covered(op)
  PROVE  op.addr \in Nat /\ a \in Memory /\ a - op.addr \in 0..Lanes - 1
<1>1. Lanes \in Nat \ {0}
  BY LanesAssumption
<1>2. op.addr \in Nat /\ a \in Memory /\ a \in Nat /\ Aligned(a) = Aligned(op.addr)
  BY <1>1 DEF Proper, Operations, Memory
<1>3. a >= op.addr
  BY <1>2 DEF Covered
<1>4. a % Lanes \in 0..Lanes - 1 /\ op.addr % Lanes \in 0..Lanes - 1
  BY <1>1, <1>2
<1>5. a - (a % Lanes) = op.addr - (op.addr % Lanes)
  BY <1>2 DEF Aligned
<1> QED BY <1>1, <1>2, <1>3, <1>4, <1>5

LEMMA SizedRight ==
  ASSUME NEW h, History(config, h), NEW k \in DOMAIN h, Told(config, Line, h, k), Line.addr # None,
         config.sim = "boom",
         NEW w, DOMAIN w = {"pc", "key", "data", "at"}, w.pc = h[k].pc, w.data = Sized(2^Line.size)
  PROVE  MemRight(w, h)
<1> DEFINE op == h[k].op
<1>1. Writes(op) /\ Line.addr = op.addr /\ Line.size = op.size /\ Line.data = Low(k)
  BY DEF Told, ToldStore, ShowsStore, Wide
<1>2. op \in Operations /\ Proper(op) /\ op.addr # None
  BY <1>1, StepTyped DEF Writes
<1> HIDE DEF op
<1>3. ASSUME NEW a \in DOMAIN Sized(2^Line.size) PROVE Sized(2^Line.size)[a] = <<k, a - op.addr>>
  <2>1. a \in Covered(op)
    BY <1>1, <1>3 DEF Sized, Covered
  <2>2. a - op.addr \in 0..Lanes - 1
    BY <1>2, <2>1, CoveredLanes
  <2>3. Low(k)[a - op.addr] = <<k, a - op.addr>>
    BY <2>2 DEF Low
  <2> QED BY <1>1, <1>3, <2>3 DEF Sized
<1>4. \A a \in DOMAIN w.data : w.data[a][1] = k
  BY <1>3
<1> QED BY <1>1, <1>4 DEF MemRight, op

(* Each memory write is where it was made, if that could be told.          *)
MemsRight(n) == \A w \in mems : w.at \in 1..n /\ (Attributable(w.at) => MemRight(w, history))

LEMMA PutMems ==
  ASSUME NEW n \in Nat, NEW ws, NEW w, \A x \in ws : x.at \in 1..n /\ (Attributable(x.at) => MemRight(x, history)),
         w.at \in 1..n + 1, Attributable(w.at) => MemRight(w, history)
  PROVE  \A x \in Put(ws, w) : x.at \in 1..n + 1 /\ (Attributable(x.at) => MemRight(x, history))
<1>1. 1..n \subseteq 1..n + 1
  OBVIOUS
<1> QED BY <1>1 DEF Put

LEMMA BoomStoreMems ==
  ASSUME Known, MemsRight(pos), BoomStore
  PROVE  \A w \in mems' : w.at \in 1..pos + 1 /\ (Attributable(w.at) => MemRight(w, history))
<1>1. pos < Len(log) /\ Line.k = "store" /\ config.sim = "boom"
  BY DEF BoomStore, Reads
<1>2. pos \in Nat /\ \E j \in DOMAIN history : Told(config, Line, history, j)
  BY <1>1, LineTold DEF Known
<1>7. PICK k \in DOMAIN history : Told(config, Line, history, k)
  BY <1>2
<1>3. Line.addr # None /\ Line.pc = history[k].pc
  BY <1>1, <1>7 DEF Told, ToldKind, ToldStore
<1> DEFINE w == Write(Line.addr, Sized(2^Line.size))
<1>4. DOMAIN w = {"pc", "key", "data", "at"} /\ w.pc = history[k].pc /\ w.data = Sized(2^Line.size) /\ w.at = pos + 1
  BY <1>3 DEF Write
<1>5. mems' = Put(mems, w)
  BY DEF BoomStore
<1> HIDE DEF w
<1>6. MemRight(w, history)
  BY <1>1, <1>3, <1>4, <1>7, SizedRight DEF Known, PairedInv, PrintingInv, Printing
<1>8. w.at \in 1..pos + 1
  BY <1>2, <1>4
<1>9. \A x \in mems : x.at \in 1..pos /\ (Attributable(x.at) => MemRight(x, history))
  BY DEF MemsRight
<1> QED BY <1>2, <1>5, <1>6, <1>8, <1>9, PutMems

LEMMA BoomWriteReads ==
  ASSUME Known, MemsRight(pos), Unnamed /\ ClearTo(pos) => QueueRight(boom, pos), BoomWrite
  PROVE  /\ Unnamed /\ ClearTo(pos + 1) => QueueRight(boom', pos + 1)
         /\ Attributable(pos + 1) =>
              \E p : mems' = IF Line.insn.fails THEN mems
                             ELSE Put(mems, [Write(Line.addr, Sized(2^Line.size)) EXCEPT !.pc = p])
         /\ \A w \in mems' : w.at \in 1..pos + 1 /\ (Attributable(w.at) => MemRight(w, history))
<1> DEFINE n == pos + 1
           named == Line.pc # HandlerPc
           i == IF named THEN 0 ELSE Waiting(Line.insn)
           p == IF named THEN Line.pc ELSE IF i # 0 THEN boom.pending[i].pc ELSE boom.current
           w == [Write(Line.addr, Sized(2^Line.size)) EXCEPT !.pc = p]
<1>1. /\ pos < Len(log) /\ Line.k = "mt" /\ config.sim = "boom"
      /\ boom' = IF i = 0 THEN boom ELSE [boom EXCEPT !.pending = Without(@, i)]
      /\ mems' = IF p = None \/ Line.insn.fails THEN mems ELSE Put(mems, w)
  BY DEF BoomWrite, Reads
<1>2. /\ History(config, history) /\ pos \in Nat /\ n \in Nat /\ Line = log[n] /\ 1..n = 1..pos \cup {n}
      /\ n \in 1..Len(log)
  BY <1>1, LineTold DEF Known, PairedInv, PrintingInv, Printing, Line
<1>3. DOMAIN w = {"pc", "key", "data", "at"} /\ w.pc = p /\ w.data = Sized(2^Line.size) /\ w.at = n
  BY DEF Write
<1>4. PICK k \in DOMAIN history : Told(config, Line, history, k)
  BY <1>1, LineTold DEF Known
<1>5. Line.addr # None /\ history[k].pc \in Nat \ {HandlerPc} /\ (Line.pc = history[k].pc \/ (~named /\ ~config.patched))
  BY <1>1, <1>2, <1>4, StepTyped DEF Told, ToldKind, ToldStore
<1>11. p # None =>
         \E q : mems' = IF Line.insn.fails THEN mems
                        ELSE Put(mems, [Write(Line.addr, Sized(2^Line.size)) EXCEPT !.pc = q])
  <2> HIDE DEF p
  <2> QED BY <1>1
<1> HIDE DEF w
<1>6. \A x \in mems : x.at \in 1..pos /\ (Attributable(x.at) => MemRight(x, history))
  BY DEF MemsRight
<1>7. (Attributable(n) => MemRight(w, history))
         => \A x \in mems' : x.at \in 1..pos + 1 /\ (Attributable(x.at) => MemRight(x, history))
  <2> SUFFICES ASSUME Attributable(n) => MemRight(w, history)
               PROVE  \A x \in mems' : x.at \in 1..pos + 1 /\ (Attributable(x.at) => MemRight(x, history))
    OBVIOUS
  <2>1. w.at \in 1..pos + 1 /\ (Attributable(w.at) => MemRight(w, history))
    BY <1>2, <1>3
  <2>2. \A x \in Put(mems, w) : x.at \in 1..pos + 1 /\ (Attributable(x.at) => MemRight(x, history))
    BY <1>2, <1>6, <2>1, PutMems
  <2>3. \A x \in mems : x.at \in 1..pos + 1 /\ (Attributable(x.at) => MemRight(x, history))
    BY <1>2, <1>6
  <2> HIDE DEF n, p
  <2> QED BY <1>1, <2>2, <2>3
<1>8. ASSUME ~named, ClearTo(n)
      PROVE  /\ Unnamed /\ MemRight(w, history) /\ p # None
             /\ QueueRight(boom', n)
  <2>1. Unnamed /\ ClearTo(pos) /\ Clear(n)
    <3>1. ~config.patched
      BY <1>5, <1>8
    <3>2. ClearTo(pos) /\ Clear(n)
      BY <1>2, <1>8 DEF ClearTo
    <3> QED BY <1>1, <3>1, <3>2 DEF Unnamed
  <2>2. QueueRight(boom, pos)
    BY <2>1
  <2> DEFINE u == Writer(pos + 1)
  <2>3. /\ u \in DOMAIN history /\ Told(config, Line, history, u)
        /\ i \in 1..Len(boom.pending) /\ boom.pending[i].pc = history[u].pc
        /\ Lists(Without(boom.pending, i), history, Awaited(pos + 2))
    BY <1>1, <1>8, <2>1, <2>2, WaitingIs
  <2> HIDE DEF u
  <2>4. i # 0
    BY <2>3
  <2>5. p = history[u].pc
    BY <1>8, <2>3, <2>4
  <2>6. MemRight(w, history)
    <3> HIDE DEF p
    <3> QED BY <1>1, <1>2, <1>3, <1>5, <2>3, <2>5, SizedRight
  <2>12. p # None
    <3> HIDE DEF p, i, n
    <3>1. history[u].pc \in Nat
      BY <1>2, <2>3, StepTyped
    <3> QED BY <2>5, <3>1, NoneAssumption
  <2> HIDE DEF i, p, n
  <2>7. boom' = [boom EXCEPT !.pending = Without(boom.pending, i)]
    BY <1>1, <2>4
  <2>8. /\ DOMAIN boom' = DOMAIN boom /\ boom'.pending = Without(boom.pending, i)
        /\ boom'.last = boom.last /\ boom'.lastAt = boom.lastAt
    BY <2>2, <2>7 DEF QueueRight, LastIs
  <2>9. ~Commits(n)
    BY <1>1, <1>2 DEF Commits
  <2>10. LastIs(boom', n)
    <3>0. LastIs(boom, pos)
      BY <2>2 DEF QueueRight
    <3>1. CASE boom.last = None /\ \A m \in 1..pos : ~Commits(m)
      BY <1>2, <2>8, <2>9, <3>0, <3>1 DEF LastIs
    <3>2. CASE ~(boom.last = None /\ \A m \in 1..pos : ~Commits(m))
      <4>1. /\ boom.last # None /\ boom.lastAt \in 1..pos /\ Commits(boom.lastAt)
            /\ \A m \in boom.lastAt + 1..pos : ~Commits(m)
            /\ boom.last = EntryOf(history, log[boom.lastAt].val)
        BY <3>0, <3>2 DEF LastIs
      <4>2. boom.lastAt \in 1..n /\ \A m \in boom.lastAt + 1..n : m \in boom.lastAt + 1..pos \/ m = n
        BY <1>2, <4>1 DEF n
      <4>3. \A m \in boom.lastAt + 1..n : ~Commits(m)
        BY <2>9, <4>1, <4>2
      <4> QED BY <2>8, <3>0, <4>1, <4>2, <4>3 DEF LastIs
    <3> QED BY <3>1, <3>2
  <2>11. n + 1 = pos + 2
    BY <1>2 DEF n
  <2> QED BY <2>1, <2>3, <2>6, <2>8, <2>10, <2>11, <2>12 DEF QueueRight
<1>9. CASE named
  <2>1. Line.pc = history[k].pc /\ p = Line.pc
    BY <1>5, <1>9
  <2>2. MemRight(w, history)
    <3> HIDE DEF p
    <3> QED BY <1>1, <1>2, <1>3, <1>4, <1>5, <2>1, SizedRight
  <2>3. ~Unnamed
    BY <1>1, <1>4, <1>9 DEF Unnamed, Told, ToldBoom
  <2>4. p # None
    <3> HIDE DEF p
    <3> QED BY <1>5, <1>9, <2>1, NoneAssumption
  <2> HIDE DEF p, i, named
  <2> QED BY <1>7, <1>11, <2>2, <2>3, <2>4
<1>10. CASE ~named
  <2>1. Attributable(n) => ClearTo(n)
    BY <1>2, <1>10 DEF Attributable, ClearTo
  <2>2. Attributable(n) => MemRight(w, history)
    BY <1>8, <1>10, <2>1
  <2>3. Unnamed /\ ClearTo(n) => QueueRight(boom', n)
    BY <1>8, <1>10
  <2>4. Attributable(n) => p # None
    BY <1>8, <1>10, <2>1
  <2> HIDE DEF p, i, named
  <2> QED BY <1>7, <1>11, <2>2, <2>3, <2>4
<1> QED BY <1>9, <1>10

(* The state of the reader, and the executor's stages.                     *)
Reading ==
  /\ DueInv /\ EpcKept /\ MemsRight(pos)
  /\ Unnamed /\ ClearTo(pos) => QueueRight(boom, pos)
WriteInv ==
  /\ PairedInv
  /\ pc # "run" => store = <<>>
  /\ pc \in {"map", "done"} => pos = Len(log)
  /\ config.sim = "boom" => Reading

LEMMA NothingRead ==
  pos = 0 /\ boom = NoBoom /\ mems = {} => EpcKept /\ MemsRight(pos) /\ QueueRight(boom, pos)
<1> SUFFICES ASSUME pos = 0, boom = NoBoom, mems = {}
             PROVE  EpcKept /\ MemsRight(pos) /\ QueueRight(boom, pos)
  OBVIOUS
<1>1. \A m : m \notin 1..0
  OBVIOUS
<1>2. Unsettled(1) = {}
  <2>1. \A o \in 1..1 - 1 : FALSE
    OBVIOUS
  <2> QED BY <2>1 DEF Unsettled
<1>3. Awaited(0 + 1) = {}
  BY <1>2 DEF Awaited
<1>4. Lists(<<>>, history, {})
  <2>1. Rising(<<>>) /\ Members(<<>>) = {}
    BY DEF Rising, Members
  <2>2. Entries(history, <<>>) = <<>>
    BY DEF Entries
  <2> QED BY <2>1, <2>2 DEF Lists
<1>5. boom.pending = <<>> /\ boom.last = None /\ DOMAIN boom = {"pending", "last", "lastAt", "current"}
  BY DEF NoBoom
<1>6. QueueRight(boom, pos)
  BY <1>1, <1>3, <1>4, <1>5 DEF QueueRight, LastIs
<1> QED BY <1>1, <1>6 DEF EpcKept, MemsRight

LEMMA WriteInit == Init => WriteInv
<1> SUFFICES ASSUME Init PROVE WriteInv
  OBVIOUS
<1>1. PairedInv
  <2>1. pos = 0 /\ excs = {} /\ trap = NoTrap /\ log = <<>>
    BY DEF Init
  <2> QED BY <2>1, PrintingInit DEF PairedInv, Noted, NoTrap
<1>2. pc = "run" /\ pos = 0 /\ mems = {} /\ store = <<>> /\ log = <<>> /\ boom = NoBoom
  BY DEF Init
<1>3. DueInv
  <2>1. IsLog(log) /\ Len(log) = 0
    BY <1>2, LogOne
  <2> QED BY <2>1 DEF DueInv, Due
<1> QED BY <1>1, <1>2, <1>3, NothingRead DEF WriteInv, Reading

LEMMA RunReads ==
  ASSUME WriteInv, config.sim = "boom", Execute \/ PrintWrite \/ PrintNoise
  PROVE  Reading'
<1>1. pc = "run" /\ UNCHANGED <<config, pos, mems, boom, trap, pc>>
  BY DEF Execute, PrintWrite, PrintNoise, trace
<1>2. Printing /\ DueInv
  BY DEF WriteInv, PairedInv, PrintingInv, Reading
<1>3. pos = 0 /\ mems = {} /\ boom = NoBoom
  BY <1>1 DEF WriteInv, PairedInv, PrintingInv, ReadersIdle, trace
<1>4. DueInv'
  BY <1>2, ExecuteDue, PrintWriteDue, PrintNoiseDue DEF DueInv
<1>5. (pos = 0 /\ boom = NoBoom /\ mems = {})'
  BY <1>1, <1>3
<1>6. (EpcKept /\ MemsRight(pos) /\ QueueRight(boom, pos))'
  BY <1>5, NothingRead, PTL
<1> QED BY <1>4, <1>6 DEF Reading

(* What a log says does not change while it is read.                       *)
LEMMA SameSaid ==
  ASSUME UNCHANGED <<config, history, store, log>>, NEW n
  PROVE  /\ Commits(n)' <=> Commits(n)
         /\ Awaited(n)' = Awaited(n)
         /\ Clear(n)' <=> Clear(n)
         /\ DueInv' <=> DueInv
<1>1. \A m : Commits(m)' <=> Commits(m)
  BY DEF Commits
<1>2. \A m : Reported(m)' = Reported(m)
  BY DEF Reported
<1>3. \A m, k : Settles(m, k)' <=> Settles(m, k)
  BY <1>2 DEF Settles, Writer
<1>4. \A m : Unsettled(m)' = Unsettled(m)
  BY <1>1, <1>3 DEF Unsettled
<1>5. \A m : Awaited(m)' = Awaited(m)
  BY <1>4 DEF Awaited
<1>6. Alike(n)' = Alike(n)
  BY <1>5 DEF Alike
<1>7. Fresh(n)' = Fresh(n)
  BY <1>1, <1>6 DEF Fresh
<1>8. Clear(n)' <=> Clear(n)
  BY <1>1, <1>6, <1>7 DEF Clear, Writer
<1>9. DueInv' <=> DueInv
  BY DEF DueInv, Unprinted
<1> QED BY <1>1, <1>5, <1>8, <1>9

LEMMA LineReads ==
  ASSUME WriteInv, config.sim = "boom", ReadLine
  PROVE  Reading'
<1>1. Known /\ EpcKept /\ MemsRight(pos) /\ (Unnamed /\ ClearTo(pos) => QueueRight(boom, pos))
  BY DEF WriteInv, Reading, Known
<1>2. \/ BoomInstruction \/ BoomRegister \/ BoomFloat \/ BoomStore \/ BoomException \/ BoomWrite
      \/ Ignore
  BY DEF ReadLine, Reads, RocketRegister, RocketFloat, RocketStore, RocketException, SpikeCommit,
     SpikeException, Cva6Register, Cva6Atomic, Cva6Store, Cva6Exception, PicoLine, XsCommit, XsMemory, XsException,
     VexWrite, VexException, IbexLine, KronosLine, Srv32Line
<1>3. pos < Len(log) /\ pos' = pos + 1 /\ UNCHANGED <<config, history, store, log>>
  <2> USE DEF Consumed, Others, Plain, Reads
  <2> QED BY <1>2 DEF BoomInstruction, BoomRegister, BoomFloat, BoomStore, BoomException, BoomWrite, Ignore
<1>4. pos \in Nat /\ 1..pos + 1 = 1..pos \cup {pos + 1}
  BY <1>1, <1>3, LineTold DEF Known
<1>5. EpcKept'
  <2> SUFFICES ASSUME NEW a \in 1..pos + 1, log[a].csr = "mepc", Quiet(log, a + 1, pos + 1)
               PROVE  trap'.mepc # None
    BY <1>3 DEF EpcKept, Quiet
  <2>1. PICK k \in DOMAIN history : Told(config, Line, history, k)
    BY <1>1, <1>3, LineTold DEF Known
  <2>2. /\ Line.csr \in {"mepc", "mcause", None}
        /\ Line.csr # None => Line.k = "reg" /\ Line.val \in Nat
    BY <2>1 DEF Told, ToldKind
  <2>3. CASE a = pos + 1
    <3>1. Line.csr = "mepc"
      BY <2>3 DEF Line
    <3>2. Line.k = "reg" /\ Line.val \in Nat
      BY <2>2, <3>1, NoneAssumption
    <3>3. BoomRegister
      BY <1>2, <3>2 DEF BoomInstruction, BoomFloat, BoomStore, BoomException, BoomWrite, Ignore
    <3>4. Noticed(Line.csr) = [mepc |-> Line.val, mcause |-> None]
      BY <3>1 DEF Noticed
    <3>5. trap' = Noticed(Line.csr)
      BY <3>3, <3>4 DEF BoomRegister
    <3> QED BY <3>2, <3>4, <3>5, NoneAssumption
  <2>4. CASE a # pos + 1
    <3>1. a \in 1..pos /\ pos + 1 \in a + 1..pos + 1 /\ \A m \in a + 1..pos : m \in a + 1..pos + 1
      BY <1>4, <2>4
    <3>2. Line.csr = None /\ Quiet(log, a + 1, pos)
      BY <2>4, <3>1 DEF Quiet, Line
    <3>3. trap.mepc # None
      BY <1>1, <2>4, <3>1, <3>2 DEF EpcKept
    <3>4. trap' = trap
      <4>1. CASE BoomRegister
        <5>1. Noticed(Line.csr) = trap
          BY <3>2, NoneAssumption DEF Noticed
        <5> QED BY <3>2, <4>1, <5>1 DEF BoomRegister
      <4>2. CASE ~BoomRegister
        BY <1>2, <4>2 DEF BoomInstruction, BoomFloat, BoomStore, BoomException, BoomWrite, Ignore, Plain
      <4> QED BY <4>1, <4>2
    <3> QED BY <3>3, <3>4
  <2> QED BY <2>3, <2>4
<1>6. \A w \in mems' : w.at \in 1..pos + 1 /\ (Attributable(w.at) => MemRight(w, history))
  <2>1. CASE BoomStore
    BY <1>1, <2>1, BoomStoreMems
  <2>2. CASE BoomWrite
    BY <1>1, <2>2, BoomWriteReads
  <2>3. CASE ~(BoomStore \/ BoomWrite)
    <3>1. mems' = mems
      BY <1>2, <2>3 DEF BoomInstruction, BoomRegister, BoomFloat, BoomException, Ignore, trace
    <3> QED BY <1>1, <1>4, <3>1 DEF MemsRight
  <2> QED BY <2>1, <2>2, <2>3
<1>7. MemsRight(pos)'
  <2>1. \A n : Attributable(n)' <=> Attributable(n)
    BY <1>3, SameSaid DEF Attributable
  <2>2. \A w : MemRight(w, history)' <=> MemRight(w, history)
    BY <1>3
  <2> QED BY <1>3, <1>6, <2>1, <2>2 DEF MemsRight
<1>8. Unnamed /\ ClearTo(pos + 1) => QueueRight(boom', pos + 1)
  <2> SUFFICES ASSUME Unnamed, ClearTo(pos + 1) PROVE QueueRight(boom', pos + 1)
    OBVIOUS
  <2>1. ClearTo(pos) /\ Clear(pos + 1)
    BY <1>4 DEF ClearTo
  <2>2. QueueRight(boom, pos)
    BY <1>1, <2>1
  <2> QED BY <1>1, <1>2, <2>1, <2>2, OtherReads, BoomWriteReads
<1>9. (Unnamed /\ ClearTo(pos) => QueueRight(boom, pos))'
  <2>1. Unnamed' <=> Unnamed
    BY <1>3 DEF Unnamed
  <2>2. ClearTo(pos)' <=> ClearTo(pos + 1)
    BY <1>3, SameSaid DEF ClearTo
  <2>3. QueueRight(boom', pos + 1) => QueueRight(boom, pos)'
    <3> SUFFICES ASSUME QueueRight(boom', pos + 1) PROVE QueueRight(boom, pos)'
      OBVIOUS
    <3>1. Awaited(pos + 2) = Awaited((pos + 1) + 1) /\ Awaited(pos' + 1) = Awaited((pos + 1) + 1)
      BY <1>3, <1>4
    <3>2. \A n : Commits(n)' <=> Commits(n)
      BY <1>3, SameSaid
    <3>3. \A n : Awaited(n)' = Awaited(n)
      BY <1>3, SameSaid
    <3>4. Lists(boom.pending, history, Awaited(pos + 1))'
      <4>1. Lists(boom'.pending, history, Awaited((pos + 1) + 1))
        BY DEF QueueRight
      <4> QED BY <1>3, <3>1, <3>3, <4>1
    <3>5. LastIs(boom, pos)'
      <4>1. LastIs(boom', pos + 1)
        BY DEF QueueRight
      <4> QED BY <1>3, <3>2, <4>1 DEF LastIs
    <3> QED BY <3>4, <3>5 DEF QueueRight
  <2> QED BY <1>8, <2>1, <2>2, <2>3
<1>10. DueInv'
  <2>1. DueInv
    BY DEF WriteInv, Reading
  <2> QED BY <1>3, <2>1, SameSaid
<1> QED BY <1>5, <1>7, <1>9, <1>10 DEF Reading

LEMMA WriteNext ==
  ASSUME WriteInv, [Next]_vars
  PROVE  WriteInv'
<1>0. PairedInv' /\ PairedInv
  BY PairedNext DEF WriteInv
<1>1. CASE Execute \/ PrintWrite \/ PrintNoise
  <2>1. pc = "run" /\ pc' = "run" /\ config' = config
    BY <1>1 DEF Execute, PrintWrite, PrintNoise
  <2>2. config.sim = "boom" => Reading'
    BY <1>1, RunReads
  <2> QED BY <1>0, <2>1, <2>2 DEF WriteInv
<1>2. CASE Exit \/ EndOfLog \/ MapLine \/ MapFails \/ Build \/ UNCHANGED vars
  <2>1. UNCHANGED <<config, history, store, log, pos, mems, boom, trap>>
    BY <1>2 DEF Exit, EndOfLog, MapLine, MapFails, Build, vars, trace
  <2>2. pc' # "run" => store' = <<>>
    BY <1>2, <2>1 DEF Exit, EndOfLog, MapLine, MapFails, Build, vars, WriteInv
  <2>3. pc' \in {"map", "done"} => pos' = Len(log')
    BY <1>2, <2>1 DEF Exit, EndOfLog, MapLine, MapFails, Build, vars, WriteInv
  <2>4. ASSUME config.sim = "boom" PROVE Reading'
    <3>1. Reading
      BY <2>4 DEF WriteInv
    <3>2. DueInv' /\ EpcKept'
      BY <2>1, <3>1, SameSaid DEF Reading, EpcKept, Quiet
    <3>3. MemsRight(pos)'
      <4>1. \A n : Attributable(n)' <=> Attributable(n)
        BY <2>1, SameSaid DEF Attributable
      <4>2. \A w : MemRight(w, history)' <=> MemRight(w, history)
        BY <2>1
      <4> QED BY <2>1, <3>1, <4>1, <4>2 DEF Reading, MemsRight
    <3>4. (Unnamed /\ ClearTo(pos))' <=> Unnamed /\ ClearTo(pos)
      BY <2>1, SameSaid DEF Unnamed, ClearTo
    <3>5. QueueRight(boom, pos) => QueueRight(boom, pos)'
      <4>1. \A n : Awaited(n)' = Awaited(n) /\ (Commits(n)' <=> Commits(n))
        BY <2>1, SameSaid
      <4>2. Lists(boom.pending, history, Awaited(pos + 1)) => Lists(boom.pending, history, Awaited(pos + 1))'
        BY <2>1, <4>1
      <4>3. LastIs(boom, pos) => LastIs(boom, pos)'
        BY <2>1, <4>1 DEF LastIs
      <4> QED BY <4>2, <4>3 DEF QueueRight
    <3> QED BY <3>1, <3>2, <3>3, <3>4, <3>5 DEF Reading
  <2>5. config' = config
    BY <2>1
  <2> QED BY <1>0, <2>2, <2>3, <2>4, <2>5 DEF WriteInv
<1>3. CASE ReadLine
  <2>1. pc = "read" /\ UNCHANGED <<config, store, log>> /\ pc' \in {"read", "failed"}
    <3> USE DEF Others, Consumed, Plain, Reads
    <3>2. CASE RocketRegister \/ RocketFloat \/ RocketStore \/ RocketException \/ SpikeCommit \/ SpikeException
      BY <3>2 DEF RocketRegister, RocketFloat, RocketStore, RocketException, SpikeCommit, SpikeException
    <3>3. CASE Cva6Register \/ Cva6Atomic \/ Cva6Store \/ Cva6Exception \/ PicoLine \/ XsCommit \/ XsMemory \/ XsException
      BY <3>3 DEF Cva6Register, Cva6Atomic, Cva6Store, Cva6Exception, PicoLine, XsCommit, XsMemory, XsException
    <3>4. CASE VexWrite \/ VexException \/ IbexLine \/ KronosLine \/ Srv32Line \/ Ignore
      BY <3>4 DEF VexWrite, VexException, IbexLine, KronosLine, Srv32Line, Ignore
    <3>5. CASE BoomInstruction \/ BoomRegister \/ BoomFloat \/ BoomStore \/ BoomException \/ BoomWrite
      BY <3>5 DEF BoomInstruction, BoomRegister, BoomFloat, BoomStore, BoomException, BoomWrite
    <3> QED BY <1>3, <3>2, <3>3, <3>4, <3>5 DEF ReadLine
  <2>2. config.sim = "boom" => Reading'
    BY <1>3, LineReads
  <2> QED BY <1>0, <2>1, <2>2 DEF WriteInv
<1> QED BY <1>1, <1>2, <1>3 DEF Next

(* When all is read and was clear, the queue only waits for stores that    *)
(* were killed.                                                            *)
LEMMA AllSettled ==
  ASSUME WriteInv, Unnamed, pc \in {"map", "done"}, ClearTo(Len(log)), NEW i \in DOMAIN boom.pending
  PROVE  \E k \in DOMAIN history : history[k].op.killed /\ history[k].pc = boom.pending[i].pc
<1>1. pos = Len(log) /\ store = <<>> /\ config.sim = "boom"
  BY DEF WriteInv, Unnamed
<1>2. Reading /\ Known
  BY <1>1 DEF WriteInv, Reading, Known
<1>3. QueueRight(boom, pos)
  BY <1>1, <1>2 DEF Reading
<1>4. PICK s : Rising(s) /\ Members(s) = Awaited(pos + 1) /\ boom.pending = Entries(history, s)
  BY <1>3 DEF QueueRight, Lists
<1>5. i \in 1..Len(s) /\ s[i] \in Awaited(pos + 1) /\ boom.pending[i].pc = history[s[i]].pc
  <2>1. DOMAIN boom.pending = 1..Len(s)
    BY <1>4, EntriesFacts DEF Rising
  <2> QED BY <1>4, <2>1, EntriesFacts DEF Rising
<1> DEFINE k == s[i]
<1>6. PICK m \in 1..(pos + 1) - 1 : /\ Commits(m) /\ log[m].val = k
                                    /\ \A j \in m + 1..(pos + 1) - 1 : ~Settles(j, log[m].val)
  BY <1>5 DEF Awaited, Unsettled
<1>7. Len(log) \in Nat /\ m \in 1..Len(log) /\ (pos + 1) - 1 = Len(log)
  <2>1. Len(log) \in Nat
    BY LogFacts DEF WriteInv, PairedInv, PrintingInv, Printing, Good
  <2> QED BY <1>1, <2>1
<1>8. Unprinted = {}
  BY <1>1 DEF Unprinted
<1>9. Commit(log, history, Len(history) + 1, m) /\ Owed(log, history, {}, m)
  BY <1>1, <1>2, <1>6, <1>7, <1>8 DEF Reading, DueInv, Due, Commits, IsCommit
<1>10. \A j : Ends(log, history, j, log[m].val) <=> Settles(j, log[m].val)
  BY DEF Ends, Settles, Writer, Reports, Reported
<1>11. log[m].val \in DOMAIN history /\ history[log[m].val].op.killed
  BY <1>6, <1>7, <1>9, <1>10 DEF Owed, Commit
<1> QED BY <1>5, <1>6, <1>11

(* BOOM's memory writes go to the instructions that made them, and the     *)
(* queue forgets what is settled, for programs, executions and logs of any *)
(* length, any number of accesses that wait at once, stale ones of killed  *)
(* stores among them, and any limit of the queue: as long as the writer    *)
(* can be told, by the rules the parser goes by.                           *)
THEOREM WritesAttributedHolds == Spec => []WritesAttributed
<1>1. ASSUME WriteInv PROVE WritesAttributed
  <2>1. ToldRight
    <3> SUFFICES ASSUME config.sim = "boom", NEW w \in mems, Attributable(w.at)
                 PROVE  MadeThere(w)
      BY DEF ToldRight
    <3>1. MemRight(w, history)
      BY <1>1 DEF WriteInv, Reading, MemsRight
    <3> QED BY <3>1 DEF MemRight, MadeThere
  <2>2. NothingWaits
    <3> SUFFICES ASSUME config.sim = "boom", ~config.patched, pc \in {"map", "done"},
                        \A n \in DOMAIN log : Clear(n), NEW i \in DOMAIN boom.pending
                 PROVE  \E k \in DOMAIN history : history[k].op.killed /\ history[k].pc = boom.pending[i].pc
      BY DEF NothingWaits
    <3>1. DOMAIN log = 1..Len(log)
      BY <1>1, LogFacts DEF WriteInv, PairedInv, PrintingInv, Printing, Good
    <3> QED BY <1>1, <3>1, AllSettled DEF ClearTo, Unnamed
  <2> QED BY <2>1, <2>2 DEF WritesAttributed
<1>2. Init => WriteInv
  BY WriteInit
<1>3. WriteInv /\ [Next]_vars => WriteInv'
  BY WriteNext
<1> QED BY <1>1, <1>2, <1>3, PTL DEF Spec

-----------------------------------------------------------------------------
(* Every effect of a step is printed.                                      *)

(* What a line tells of the very step that it was printed for.             *)
Tells(c, l, h, k) ==
  /\ Told(c, l, h, k)
  /\ l.k = "store" => ~h[k].op.fails
  /\ l.addr # None => l.k \in {"store", "mt"} \/ c.sim \in OneLine
  /\ l.csr = "mcause" /\ l.pc = HandlerPc => Struck(h, k) /\ l.val = k
AllTell(c, lg, h, k) == IsLog(lg) /\ \A m \in DOMAIN lg : Tells(c, lg[m], h, k)

(* Where an exception is only known from the handler's reads.              *)
Unshown(c) == c.sim = "srv32" \/ (c.sim = "boom" /\ ~c.explicit)
ShowsTrap(c, lg, m, p, k) ==
  IF Unshown(c) THEN m - 1 \in DOMAIN lg /\ lg[m - 1] = EpcLine(p) /\ lg[m] = CauseLine(k, FALSE)
  ELSE lg[m].k = "exc"
ShowsReg(l) == l.reg # None /\ l.pc # HandlerPc
HasReg(lg) == \E m \in DOMAIN lg : ShowsReg(lg[m])
HasMem(lg) == \E m \in DOMAIN lg : lg[m].addr # None
HasTrap(c, lg, p, k) == \E m \in DOMAIN lg : ShowsTrap(c, lg, m, p, k)
(* What is taken for an exception of an instruction.                       *)
Excepted(c, op) == op.traps \/ (op.irq /\ c.sim = "rocket" /\ c.base = 32)

LEMMA OneTells ==
  ASSUME NEW c, NEW h, NEW k, NEW l, Tells(c, l, h, k)
  PROVE  AllTell(c, <<l>>, h, k) /\ (ShowsReg(l) => HasReg(<<l>>)) /\ (l.addr # None => HasMem(<<l>>))
<1>1. IsLog(<<l>>) /\ Len(<<l>>) = 1 /\ <<l>>[1] = l
  BY LogOne
<1>2. DOMAIN <<l>> = {1}
  BY <1>1, LogFacts
<1> QED BY <1>1, <1>2 DEF AllTell, HasReg, HasMem

LEMMA NoneTells ==
  ASSUME NEW c, NEW h, NEW k
  PROVE  AllTell(c, <<>>, h, k)
<1>1. IsLog(<<>>) /\ Len(<<>>) = 0
  BY LogOne
<1>2. DOMAIN <<>> = {}
  BY <1>1, LogFacts
<1> QED BY <1>1, <1>2 DEF AllTell

(* Two pieces of a log.                                                    *)
LEMMA BothTell ==
  ASSUME NEW c, NEW h, NEW k, NEW a, NEW b, AllTell(c, a, h, k), AllTell(c, b, h, k)
  PROVE  /\ AllTell(c, a \o b, h, k)
         /\ HasReg(a) \/ HasReg(b) => HasReg(a \o b)
         /\ HasMem(a) \/ HasMem(b) => HasMem(a \o b)
         /\ \A p : HasTrap(c, a, p, k) \/ HasTrap(c, b, p, k) => HasTrap(c, a \o b, p, k)
<1> DEFINE s == a \o b
<1>1. /\ IsLog(a) /\ IsLog(b) /\ IsLog(s) /\ Len(a) \in Nat /\ Len(b) \in Nat
      /\ DOMAIN a = 1..Len(a) /\ DOMAIN b = 1..Len(b) /\ DOMAIN s = 1..Len(a) + Len(b)
      /\ \A i \in 1..Len(a) : s[i] = a[i]
      /\ \A i \in 1..Len(b) : s[Len(a) + i] = b[i]
  BY LogFacts DEF AllTell
<1> HIDE DEF s
<1>2. \A i \in DOMAIN a : i \in DOMAIN s /\ s[i] = a[i]
  BY <1>1
<1>3. \A i \in DOMAIN b : Len(a) + i \in DOMAIN s /\ s[Len(a) + i] = b[i]
  BY <1>1
<1>4. \A i \in DOMAIN s : i \in DOMAIN a \/ (i - Len(a) \in DOMAIN b /\ i = Len(a) + (i - Len(a)))
  BY <1>1
<1>5. AllTell(c, s, h, k)
  BY <1>1, <1>2, <1>3, <1>4 DEF AllTell
<1>6. HasReg(a) \/ HasReg(b) => HasReg(s)
  BY <1>2, <1>3 DEF HasReg
<1>7. HasMem(a) \/ HasMem(b) => HasMem(s)
  BY <1>2, <1>3 DEF HasMem
<1>8. ASSUME NEW p, HasTrap(c, a, p, k) PROVE HasTrap(c, s, p, k)
  <2>1. PICK m \in DOMAIN a : ShowsTrap(c, a, m, p, k)
    BY <1>8 DEF HasTrap
  <2> QED BY <1>2, <2>1 DEF HasTrap, ShowsTrap
<1>9. ASSUME NEW p, HasTrap(c, b, p, k) PROVE HasTrap(c, s, p, k)
  <2>1. PICK m \in DOMAIN b : ShowsTrap(c, b, m, p, k)
    BY <1>9 DEF HasTrap
  <2>2. (Len(a) + m) - 1 = Len(a) + (m - 1)
    BY <1>1
  <2> QED BY <1>3, <2>1, <2>2 DEF HasTrap, ShowsTrap
<1> QED BY <1>5, <1>6, <1>7, <1>8, <1>9 DEF s

(* The lines of a trap.                                                    *)
LEMMA TrapTells ==
  ASSUME NEW h, History(config, h), NEW k \in DOMAIN h, Struck(h, k)
  PROVE  LET s == TrapLines(h[k].pc, h[k].op, k) IN
         AllTell(config, s, h, k) /\ (~h[k].op.irq \/ ~Unshown(config) => HasTrap(config, s, h[k].pc, k))
<1> DEFINE p == h[k].pc  op == h[k].op
           before ==
             CASE config.sim = "srv32" \/ (config.sim = "boom" /\ ~config.explicit) -> << >>
               [] config.sim = "vex" -> <<[ExcLine(p, k, op.irq) EXCEPT !.file = config.file]>>
               [] OTHER -> <<ExcLine(p, k, op.irq)>>
           epc == EpcLine(p)
           cause == CauseLine(k, op.irq)
           s == TrapLines(p, op, k)
<1>1. s = before \o <<epc, cause>>
  BY DEF TrapLines, HandlerLines, EpcLine, CauseLine
<1>2. k \in Nat /\ op.irq \in BOOLEAN
  BY StepTyped DEF Operations
<1>3. Told(config, epc, h, k) /\ Told(config, cause, h, k)
  BY <1>2, HandlerTold
<1>4. epc # cause
  BY DEF EpcLine, CauseLine, RegLine, NoLine
<1>5. Tells(config, epc, h, k) /\ Tells(config, cause, h, k)
  <2>1. epc.k = "reg" /\ epc.addr = None /\ epc.csr = "mepc"
    BY HandlerLineFields
  <2> HIDE DEF epc, cause
  <2>2. cause.k = "reg" /\ cause.addr = None /\ cause.val = k
    BY <1>4, HandlerLineFields DEF epc, cause
  <2> QED BY <1>3, <2>1, <2>2 DEF Tells
<1>6. \/ before = <<>> /\ Unshown(config)
      \/ \E l : before = <<l>> /\ Told(config, l, h, k) /\ l.k = "exc" /\ l.csr = None /\ ~Unshown(config)
  <2>1. CASE config.sim = "srv32" \/ (config.sim = "boom" /\ ~config.explicit)
    BY <2>1 DEF Unshown
  <2>2. CASE config.sim = "vex"
    <3> DEFINE l == [ExcLine(p, k, op.irq) EXCEPT !.file = config.file]
    <3>1. before = <<l>>
      BY <2>2
    <3>2. Told(config, l, h, k) /\ l.csr = None
      BY ExcTold
    <3>3. l.k = "exc"
      BY DEF ExcLine, NoLine
    <3> HIDE DEF l, before
    <3> QED BY <2>2, <3>1, <3>2, <3>3 DEF Unshown
  <2>3. CASE ~(config.sim = "srv32" \/ (config.sim = "boom" /\ ~config.explicit)) /\ config.sim # "vex"
    <3> DEFINE l == ExcLine(p, k, op.irq)
    <3>1. before = <<l>>
      BY <2>3
    <3>2. Told(config, l, h, k) /\ l.csr = None
      BY <2>3, ExcTold
    <3>3. l.k = "exc"
      BY DEF ExcLine, NoLine
    <3> HIDE DEF l, before
    <3> QED BY <2>3, <3>1, <3>2, <3>3 DEF Unshown
  <2> QED BY <2>1, <2>2, <2>3
<1>7. /\ AllTell(config, <<epc, cause>>, h, k) /\ Len(<<epc, cause>>) = 2
      /\ <<epc, cause>>[1] = epc /\ <<epc, cause>>[2] = cause
  <2> HIDE DEF epc, cause
  <2>1. IsLog(<<epc, cause>>) /\ <<epc, cause>> = <<epc>> \o <<cause>>
    BY LogOne
  <2> QED BY <1>5, <2>1, OneTells, BothTell
<1>8. ~op.irq /\ Unshown(config) => HasTrap(config, <<epc, cause>>, p, k)
  <2> DEFINE t == <<epc, cause>>
  <2>1. DOMAIN t = 1..2
    BY <1>7, LogFacts DEF AllTell
  <2>2. 2 - 1 = 1 /\ 1 \in 1..2 /\ 2 \in 1..2
    OBVIOUS
  <2>3. ~op.irq => cause = CauseLine(k, FALSE)
    <3>1. ~op.irq => op.irq = FALSE
      BY <1>2
    <3> QED BY <3>1
  <2> HIDE DEF t, epc, cause
  <2>4. ~op.irq /\ Unshown(config) => ShowsTrap(config, t, 2, p, k)
    BY <1>7, <2>1, <2>2, <2>3 DEF ShowsTrap, t, epc
  <2> QED BY <2>1, <2>2, <2>4 DEF HasTrap, t
<1> HIDE DEF before, epc, cause, s
<1>9. CASE before = <<>> /\ Unshown(config)
  <2>1. AllTell(config, before, h, k)
    BY <1>9, NoneTells
  <2> QED BY <1>1, <1>7, <1>8, <1>9, <2>1, BothTell DEF s
<1>10. ASSUME NEW l, before = <<l>>, Told(config, l, h, k), l.k = "exc", l.csr = None, ~Unshown(config)
       PROVE  AllTell(config, s, h, k) /\ HasTrap(config, s, p, k)
  <2>1. l.addr = None
    BY <1>10 DEF Told, ToldExc
  <2>2. Tells(config, l, h, k)
    BY <1>10, <2>1, NoneAssumption DEF Tells
  <2>3. AllTell(config, before, h, k)
    BY <1>10, <2>2, OneTells
  <2>4. HasTrap(config, before, p, k)
    <3>1. Len(<<l>>) = 1 /\ <<l>>[1] = l /\ IsLog(<<l>>)
      BY LogOne
    <3>2. 1 \in DOMAIN <<l>>
      BY <3>1, LogFacts
    <3> QED BY <1>10, <3>1, <3>2 DEF HasTrap, ShowsTrap
  <2> QED BY <1>1, <1>7, <2>3, <2>4, BothTell
<1> QED BY <1>6, <1>9, <1>10 DEF s

(* A store, shown by a line of its own or with the register.               *)
LEMMA StoreTells ==
  ASSUME NEW h, History(config, h), NEW k \in DOMAIN h, Writes(h[k].op),
         NEW o, IsLine(o), o.pc = h[k].pc, o.csr = None, o.insn = None,
         \/ o \in {MemLine(h[k].pc), OwnLine(h[k].pc)} /\ ~h[k].op.fails
         \/ Told(config, o, h, k) /\ o.reg # None /\ config.sim \in OneLine,
         NEW l, l = StoreLine(o, h[k].op, k)
  PROVE  Tells(config, l, h, k) /\ l.addr # None /\ l.reg = o.reg /\ l.pc = o.pc
<1>1. Told(config, l, h, k) /\ l.csr = None
  BY StoreTold
<1>2. config.sim \in Simulators /\ h[k].op \in Operations
  BY StepTyped
<1>3. SameCommit(l, o) /\ ShowsStore(config, l, h[k].op, k)
  BY <1>2, StoreLineFields
<1>4. l.addr # None
  <2>1. h[k].op.addr \in Nat
    BY <1>2, LanesAssumption DEF Operations, Writes, Memory
  <2>2. Aligned(h[k].op.addr) \in Nat
    BY <2>1, AlignedTyped
  <2> QED BY <1>2, <1>3, <2>1, <2>2, NoneAssumption DEF ShowsStore, Wide, Narrow, Blocks, Simulators
<1>5. l.k = o.k /\ l.reg = o.reg /\ l.pc = o.pc
  BY <1>3 DEF SameCommit
<1>6. CASE o \in {MemLine(h[k].pc), OwnLine(h[k].pc)} /\ ~h[k].op.fails
  <2>1. o.k = "store"
    BY <1>6, MemLineFields
  <2> QED BY <1>1, <1>4, <1>5, <1>6, <2>1, NoneAssumption DEF Tells
<1>7. CASE Told(config, o, h, k) /\ o.reg # None /\ config.sim \in OneLine
  <2>1. o.k \in {"reg", "freg"}
    BY <1>7 DEF Told, ToldKind
  <2> QED BY <1>1, <1>4, <1>5, <1>7, <2>1, NoneAssumption DEF Tells
<1> QED BY <1>6, <1>7

(* The lines of an instruction that commits.                               *)
LEMMA EffectTells ==
  ASSUME NEW h, History(config, h), NEW k \in DOMAIN h, ~h[k].op.traps, config.sim # "boom"
  PROVE  LET s == EffectLines(h[k].pc, h[k].op, Value(h, k)) IN
         /\ AllTell(config, s, h, k)
         /\ h[k].op.reg # None => HasReg(s)
         /\ Writes(h[k].op) => HasMem(s)
<1> DEFINE p == h[k].pc  op == h[k].op  v == Value(h, k)
           s == EffectLines(p, op, v)
           r == RegLine(p, op.reg, v)
           m == StoreLine(MemLine(p), op, k)
           l == StoreLine(r, op, k)
<1>1. (op.csr # None => op.addr = None) /\ ~op.fails /\ ~op.killed /\ p # HandlerPc
  BY StepTyped DEF Proper
<1>2. op.addr # None => v = k /\ Writes(op)
  BY <1>1 DEF Value, Writes
<1>3. op.reg # None => /\ Told(config, r, h, k) /\ IsLine(r) /\ r.pc = p /\ r.csr = None /\ r.insn = None
                       /\ r.reg # None /\ r.k \in {"reg", "freg"}
  BY RegTold
<1>5. op.reg # None => Tells(config, r, h, k) /\ ShowsReg(r)
  <2>1. r.addr = None
    BY DEF RegLine, NoLine
  <2> HIDE DEF r
  <2> QED BY <1>1, <1>3, <2>1, NoneAssumption DEF Tells, ShowsReg
<1>6. op.addr # None => Tells(config, m, h, k) /\ m.addr # None
  <2> DEFINE o == MemLine(p)
  <2>1. IsLine(o) /\ o.pc = p /\ o.csr = None /\ o.insn = None
    BY MemLineFields
  <2> HIDE DEF o
  <2> QED BY <1>1, <1>2, <2>1, StoreTells DEF o
<1>7. op.addr # None /\ op.reg # None /\ config.sim \in OneLine
        => Tells(config, l, h, k) /\ l.addr # None /\ ShowsReg(l)
  <2> HIDE DEF r
  <2>1. ASSUME op.addr # None, op.reg # None, config.sim \in OneLine
        PROVE  Tells(config, l, h, k) /\ l.addr # None /\ l.reg = r.reg /\ l.pc = r.pc
    BY <1>2, <1>3, <2>1, StoreTells
  <2> QED BY <1>1, <1>3, <2>1 DEF ShowsReg
<1> HIDE DEF s
<1>8. CASE op.addr = None /\ op.reg = None
  <2> DEFINE o == [NoLine EXCEPT !.pc = p]
  <2>1. s = <<o>>
    BY <1>8 DEF s, EffectLines
  <2>2. IsLine(o) /\ o.k = "noise" /\ o.reg = None /\ o.addr = None /\ o.insn = None /\ o.csr = None
    BY DEF NoLine, IsLine, Fields
  <2> HIDE DEF o
  <2>3. Tells(config, o, h, k)
    BY <2>2, NoneAssumption DEF Tells, Told, ToldKind, ToldExc, ToldReg, ToldStore, ToldBoom
  <2> QED BY <1>8, <2>1, <2>3, OneTells DEF s, Writes
<1>9. CASE op.addr = None /\ op.reg # None
  <2>1. s = <<r>>
    BY <1>9 DEF s, EffectLines
  <2> HIDE DEF r
  <2> QED BY <1>5, <1>9, <2>1, OneTells DEF s, Writes
<1>10. CASE op.addr # None /\ op.reg = None
  <2>1. s = <<m>>
    BY <1>2, <1>10 DEF s, EffectLines, MemLine
  <2> HIDE DEF m
  <2> QED BY <1>6, <1>10, <2>1, OneTells DEF s, Writes
<1>11. CASE op.addr # None /\ op.reg # None
  <2>1. IF config.sim \in OneLine THEN s = <<l>> ELSE s = <<r, m>>
    BY <1>2, <1>11 DEF s, EffectLines, MemLine
  <2> HIDE DEF r, l, m
  <2>2. <<r, m>> = <<r>> \o <<m>>
    BY LogOne
  <2>3. CASE config.sim \in OneLine
    BY <1>7, <1>11, <2>1, <2>3, OneTells DEF s
  <2>4. CASE config.sim \notin OneLine
    <3>1. AllTell(config, <<r>>, h, k) /\ HasReg(<<r>>)
      BY <1>5, <1>11, OneTells
    <3>2. AllTell(config, <<m>>, h, k) /\ HasMem(<<m>>)
      BY <1>6, <1>11, OneTells
    <3>3. AllTell(config, <<r>> \o <<m>>, h, k) /\ HasReg(<<r>> \o <<m>>) /\ HasMem(<<r>> \o <<m>>)
      BY <3>1, <3>2, BothTell
    <3> QED BY <2>1, <2>2, <2>4, <3>3 DEF s
  <2> QED BY <2>3, <2>4
<1> QED BY <1>8, <1>9, <1>10, <1>11 DEF s

LEMMA CommitTells ==
  ASSUME NEW h, History(config, h), NEW k \in DOMAIN h, ~h[k].op.traps, config.sim # "boom"
  PROVE  LET s == CommitLines(h[k].pc, h[k].op, Value(h, k)) IN
         /\ AllTell(config, s, h, k)
         /\ h[k].op.reg # None => HasReg(s)
         /\ Writes(h[k].op) => HasMem(s)
<1> DEFINE p == h[k].pc  op == h[k].op  v == Value(h, k)
           s == CommitLines(p, op, v)
           t == EffectLines(p, op, v)
           b == IF config.style = "apart" /\ op.addr # None THEN <<StoreLine(OwnLine(p), op, v)>> ELSE <<>>
<1>1. s = b \o t
  BY DEF CommitLines
<1>2. AllTell(config, b, h, k)
  <2>1. CASE config.style = "apart" /\ op.addr # None
    <3> DEFINE o == OwnLine(p)  l == StoreLine(o, op, k)
    <3>1. (op.csr # None => op.addr = None) /\ ~op.fails /\ ~op.killed
      BY StepTyped DEF Proper
    <3>2. v = k /\ Writes(op)
      BY <2>1, <3>1 DEF Value, Writes
    <3>3. b = <<l>>
      BY <2>1, <3>2
    <3>4. IsLine(o) /\ o.pc = p /\ o.csr = None /\ o.insn = None
      BY MemLineFields
    <3>5. o \in {MemLine(p), OwnLine(p)}
      OBVIOUS
    <3> HIDE DEF o, b
    <3>6. Tells(config, l, h, k)
      BY <3>1, <3>2, <3>4, <3>5, StoreTells
    <3> HIDE DEF l
    <3> QED BY <3>3, <3>6, OneTells
  <2>2. CASE ~(config.style = "apart" /\ op.addr # None)
    <3>1. b = <<>>
      BY <2>2
    <3> HIDE DEF b
    <3> QED BY <3>1, NoneTells
  <2> QED BY <2>1, <2>2
<1> HIDE DEF b, t, s
<1>3. AllTell(config, t, h, k) /\ (op.reg # None => HasReg(t)) /\ (Writes(op) => HasMem(t))
  BY EffectTells DEF t
<1> QED BY <1>1, <1>2, <1>3, BothTell DEF s

(* BOOM's line, and the store it prints as Rocket does.                    *)
LEMMA BoomTells ==
  ASSUME NEW h, History(config, h), NEW k \in DOMAIN h, config.sim = "boom",
         NEW l, l = BoomLine(h[k].pc, h[k].op, Value(h, k), ReadsInterrupt(h, k)), Told(config, l, h, k)
  PROVE  AllTell(config, <<l>>, h, k) /\ (h[k].op.reg # None => HasReg(<<l>>))
<1> DEFINE op == h[k].op
<1>1. /\ l.pc = h[k].pc /\ l.addr = None /\ l.reg = op.reg
      /\ l.k = IF op.reg = None THEN "insn" ELSE IF op.reg = "f1" THEN "freg" ELSE "reg"
  BY BoomLineFields
<1>2. h[k].pc # HandlerPc
  BY StepTyped
<1>3. Tells(config, l, h, k)
  BY <1>1, <1>2 DEF Tells
<1> QED BY <1>1, <1>2, <1>3, OneTells DEF ShowsReg

(* All that a step prints.                                                 *)
LEMMA ExecuteTells ==
  ASSUME Printing, Execute
  PROVE  LET g == history'  k == Len(history) + 1 IN
         \E s : /\ IsLog(s) /\ log' = log \o s /\ AllTell(config, s, g, k)
                /\ g[k].op.reg # None => HasReg(s)
                /\ Writes(g[k].op) => HasMem(s) \/ (config.sim = "boom" /\ \E i \in DOMAIN store' : store'[i].val = k)
                /\ Excepted(config, g[k].op) => HasTrap(config, s, g[k].pc, k)
                /\ k \in DOMAIN g /\ History(config, g) /\ g[k] \in Executable(config) /\ g = Append(history, g[k])
                /\ \A i \in DOMAIN store : i \in DOMAIN store' /\ store'[i] = store[i]
<1> DEFINE h == history  k == Len(h) + 1  p == config.path[k]  op == config.program[p]
           r == [pc |-> p, op |-> op]  g == Append(h, r)
           atEnd == IF op.traps THEN TrapLines(p, op, k) ELSE <<>>
           before == IF op.irq THEN TrapLines(p, op, k) ELSE <<>>
           between == CASE config.sim = "boom" /\ Printed /\ Writes(op) ->
                             <<StoreLine([NoLine EXCEPT !.k = "store", !.pc = p], op, k)>>
                        [] config.sim = "boom" /\ ~(Printed /\ Writes(op)) ->
                             <<BoomLine(p, op, Value(g, k), ReadsInterrupt(g, k))>>
                        [] config.sim # "boom" /\ ~op.traps -> CommitLines(p, op, Value(g, k))
                        [] OTHER -> <<>>
           s == (before \o between) \o atEnd
<1>1. /\ history' = g /\ log' = ((log \o before) \o between) \o atEnd /\ config' = config
      /\ store' = IF config.sim = "boom" /\ Writes(op) /\ ~Printed
                  THEN Append(store, [pc |-> p, op |-> op, val |-> k])
                  ELSE store
  BY DEF Execute, Executed
<1>2. r \in Executable(config) /\ Runnable(config)
  <2>1. Runnable(config) /\ Len(h) \in Nat
    BY ConfigsAssumption DEF Printing, History
  <2>3. k <= Len(config.path)
    <3>1. Len(history) < Len(config.path)
      BY DEF Execute, Executed
    <3>2. Len(config.path) \in Nat
      BY <2>1 DEF Runnable
    <3> QED BY <2>1, <3>1, <3>2
  <2>2. p \in DOMAIN config.program
    BY <2>1, <2>3 DEF Runnable
  <2> QED BY <2>1, <2>2 DEF Executable
<1>3. /\ History(config, h) /\ History(config, g) /\ Len(h) \in Nat /\ Len(g) = k /\ g[k] = r
      /\ k \in DOMAIN g /\ g[k].pc = p /\ g[k].op = op
  BY <1>2, HistoryGrows DEF Printing
<1>4. op \in Operations /\ Proper(op) /\ p \in DOMAIN config.program
  <2> HIDE DEF h, k, p, op, r, g
  <2> QED BY <1>3, StepTyped
<1>5. op.irq \/ op.traps => Struck(g, k)
  BY <1>3 DEF Struck
<1> HIDE DEF h, k, r, g
<1> HIDE DEF p, op
<1>6. AllTell(config, before, g, k) /\ (op.irq /\ config.sim = "rocket" => HasTrap(config, before, p, k))
  <2>1. CASE op.irq
    <3>1. config.sim = "rocket" => ~Unshown(config)
      BY DEF Unshown
    <3> QED BY <1>3, <1>5, <2>1, <3>1, TrapTells
  <2>2. CASE ~op.irq
    BY <2>2, NoneTells
  <2> QED BY <2>1, <2>2
<1>7. AllTell(config, atEnd, g, k) /\ (op.traps => HasTrap(config, atEnd, p, k))
  <2>1. CASE op.traps
    <3>1. ~op.irq
      BY <1>4, <2>1 DEF Proper
    <3> QED BY <1>3, <1>5, <2>1, <3>1, TrapTells
  <2>2. CASE ~op.traps
    BY <2>2, NoneTells
  <2> QED BY <2>1, <2>2
<1>8. /\ AllTell(config, between, g, k) /\ (op.reg # None => HasReg(between))
      /\ Writes(op) => HasMem(between) \/ (config.sim = "boom" /\ \E i \in DOMAIN store' : store'[i].val = k)
  <2>1. CASE config.sim = "boom" /\ Printed /\ Writes(op)
    <3> DEFINE o == MemLine(p)  l == StoreLine(o, op, k)
    <3>1. between = <<l>>
      BY <2>1 DEF MemLine
    <3>2. IsLine(o) /\ o.pc = p /\ o.csr = None /\ o.insn = None
      BY MemLineFields
    <3>5. op.reg = None /\ ~op.fails
      BY <1>2, <1>4, <2>1 DEF Runnable, Printed, Writes, p, op
    <3> HIDE DEF o
    <3>3. Tells(config, l, g, k) /\ l.addr # None
      BY <1>3, <2>1, <3>2, <3>5, StoreTells DEF o
    <3> HIDE DEF l, between
    <3> QED BY <3>1, <3>3, <3>5, OneTells
  <2>2. CASE config.sim = "boom" /\ ~(Printed /\ Writes(op))
    <3> DEFINE l == BoomLine(p, op, Value(g, k), ReadsInterrupt(g, k))
    <3>1. between = <<l>>
      BY <2>2
    <3>2. Told(config, l, g, k)
      BY <1>3, <2>2, BoomTold
    <3>3. AllTell(config, between, g, k) /\ (op.reg # None => HasReg(between))
      <4> HIDE DEF between
      <4> QED BY <1>3, <2>2, <3>1, <3>2, BoomTells
    <3>4. ASSUME Writes(op) PROVE \E i \in DOMAIN store' : store'[i].val = k
      <4> DEFINE w == [pc |-> p, op |-> op, val |-> k]
      <4>1. store' = Append(store, w) /\ IsLog(store)
        BY <1>1, <2>2, <3>4 DEF Printing
      <4>2. w.val = k
        OBVIOUS
      <4> HIDE DEF w
      <4> QED BY <4>1, <4>2, OneAdds
    <3> HIDE DEF between
    <3> QED BY <2>2, <3>3, <3>4
  <2>3. CASE config.sim # "boom" /\ ~op.traps
    <3>1. between = CommitLines(p, op, Value(g, k))
      BY <2>3
    <3> HIDE DEF between
    <3> QED BY <1>3, <2>3, <3>1, CommitTells
  <2>4. CASE config.sim # "boom" /\ op.traps
    <3>1. between = <<>>
      BY <2>4
    <3>2. op.reg = None /\ ~Writes(op)
      BY <1>4, <2>4 DEF Proper, Writes
    <3> HIDE DEF between
    <3> QED BY <3>1, <3>2, NoneTells
  <2> QED BY <2>1, <2>2, <2>3, <2>4
<1> HIDE DEF before, between, atEnd
<1>9. /\ AllTell(config, before \o between, g, k)
      /\ op.irq /\ config.sim = "rocket" => HasTrap(config, before \o between, p, k)
  BY <1>6, <1>8, BothTell
<1>10. /\ AllTell(config, s, g, k) /\ (op.reg # None => HasReg(s))
       /\ Writes(op) => HasMem(s) \/ (config.sim = "boom" /\ \E i \in DOMAIN store' : store'[i].val = k)
       /\ Excepted(config, op) => HasTrap(config, s, p, k)
  <2>1. AllTell(config, s, g, k) /\ (op.reg # None => HasReg(s))
    BY <1>6, <1>7, <1>8, <1>9, BothTell
  <2>2. Writes(op) => HasMem(s) \/ (config.sim = "boom" /\ \E i \in DOMAIN store' : store'[i].val = k)
    BY <1>6, <1>7, <1>8, <1>9, BothTell
  <2>3. Excepted(config, op) => HasTrap(config, s, p, k)
    BY <1>7, <1>9, BothTell DEF Excepted
  <2> QED BY <2>1, <2>2, <2>3
<1>11. log' = log \o s
  <2>1. IsLog(log) /\ IsLog(before) /\ IsLog(between) /\ IsLog(atEnd)
    BY <1>6, <1>7, <1>8 DEF AllTell, Printing, Good
  <2>2. IsLog(before \o between)
    BY <2>1, LogFacts
  <2>3. (log \o before) \o between = log \o (before \o between)
    BY <2>1, LogAssoc
  <2> DEFINE t == before \o between
  <2>4. IsLog(t)
    BY <2>2
  <2>5. (log \o before) \o between = log \o t
    BY <2>3
  <2> HIDE DEF t
  <2>6. log \o (t \o atEnd) = (log \o t) \o atEnd
    BY <2>1, <2>4, LogAssoc
  <2>7. s = t \o atEnd
    BY DEF t
  <2> QED BY <1>1, <2>5, <2>6, <2>7
<1>12. \A i \in DOMAIN store : i \in DOMAIN store' /\ store'[i] = store[i]
  <2> DEFINE w == [pc |-> p, op |-> op, val |-> k]
  <2>1. IsLog(store) /\ (store' = store \/ store' = Append(store, w))
    BY <1>1 DEF Printing
  <2> HIDE DEF w
  <2> QED BY <2>1, OneAdds
<1> HIDE DEF s
<1>13. IsLog(s) /\ g[k] \in Executable(config) /\ g = Append(h, g[k])
  BY <1>2, <1>3, <1>10 DEF AllTell, g
<1> QED BY <1>1, <1>3, <1>10, <1>11, <1>12, <1>13 DEF h, k

-----------------------------------------------------------------------------
(* Each line of a log has its step; the lines of all simulators but BOOM   *)
(* are in the order of the steps.                                          *)
Numbers(c, lg, h, S) ==
  /\ S \in [DOMAIN lg -> DOMAIN h]
  /\ \A m \in DOMAIN lg : Tells(c, lg[m], h, S[m])
  /\ c.sim # "boom" => \A a, b \in DOMAIN lg : a <= b => S[a] <= S[b]

(* The line of each effect of a step.                                      *)
RegAt(lg, S, k) == \E m \in DOMAIN lg : S[m] = k /\ ShowsReg(lg[m])
MemAt(lg, S, k) == \E m \in DOMAIN lg : S[m] = k /\ lg[m].addr # None
TrapAt(c, lg, h, S, k) == \E m \in DOMAIN lg : S[m] = k /\ ShowsTrap(c, lg, m, h[k].pc, k)
Kept(st, k) == \E i \in DOMAIN st : st[i].val = k
Whole(c, lg, h, st, S) ==
  \A k \in DOMAIN h :
    /\ h[k].op.reg # None => RegAt(lg, S, k)
    /\ Writes(h[k].op) => MemAt(lg, S, k) \/ Kept(st, k)
    /\ Excepted(c, h[k].op) => TrapAt(c, lg, h, S, k)
NumberedBy(S) == Numbers(config, log, history, S) /\ Whole(config, log, history, store, S)

(* Lines that tell of the last step are added.                             *)
LEMMA NumbersAdd ==
  ASSUME NEW c, NEW lg, IsLog(lg), NEW h, NEW S, Numbers(c, lg, h, S),
         NEW k \in DOMAIN h, NEW s, AllTell(c, s, h, k),
         DOMAIN h \subseteq Nat, c.sim # "boom" => \A j \in DOMAIN h : j <= k
  PROVE  \E T : /\ Numbers(c, lg \o s, h, T)
                /\ \A j : /\ RegAt(lg, S, j) => RegAt(lg \o s, T, j)
                          /\ MemAt(lg, S, j) => MemAt(lg \o s, T, j)
                          /\ TrapAt(c, lg, h, S, j) => TrapAt(c, lg \o s, h, T, j)
                /\ HasReg(s) => RegAt(lg \o s, T, k)
                /\ HasMem(s) => MemAt(lg \o s, T, k)
                /\ HasTrap(c, s, h[k].pc, k) => TrapAt(c, lg \o s, h, T, k)
<1> DEFINE b == lg \o s
           T == [m \in DOMAIN b |-> IF m \in DOMAIN lg THEN S[m] ELSE k]
<1>1. /\ IsLog(s) /\ IsLog(b) /\ Len(lg) \in Nat /\ Len(s) \in Nat
      /\ DOMAIN lg = 1..Len(lg) /\ DOMAIN s = 1..Len(s) /\ DOMAIN b = 1..Len(lg) + Len(s)
      /\ \A i \in 1..Len(lg) : b[i] = lg[i]
      /\ \A i \in 1..Len(s) : b[Len(lg) + i] = s[i]
  <2>1. IsLog(s)
    BY DEF AllTell
  <2> HIDE DEF b, T
  <2>2. /\ IsLog(lg \o s) /\ Len(lg) \in Nat /\ Len(s) \in Nat
        /\ DOMAIN lg = 1..Len(lg) /\ DOMAIN (lg \o s) = 1..Len(lg) + Len(s)
        /\ \A i \in 1..Len(lg) : (lg \o s)[i] = lg[i]
        /\ \A i \in 1..Len(s) : (lg \o s)[Len(lg) + i] = s[i]
    <3>1. IsLog(lg \o s) /\ Len(lg) \in Nat /\ Len(s) \in Nat
      BY <2>1, LogFacts
    <3>2. DOMAIN lg = 1..Len(lg) /\ DOMAIN (lg \o s) = 1..Len(lg) + Len(s)
      BY <2>1, LogFacts
    <3>3. \A i \in 1..Len(lg) : (lg \o s)[i] = lg[i]
      BY <2>1, LogFacts
    <3>4. \A i \in 1..Len(s) : (lg \o s)[Len(lg) + i] = s[i]
      BY <2>1, LogFacts
    <3> QED BY <3>1, <3>2, <3>3, <3>4, Zenon
  <2>3. DOMAIN s = 1..Len(s)
    BY <2>1, LogFacts, SMTT(60)
  <2> QED BY <2>1, <2>2, <2>3, Zenon DEF b
<1> HIDE DEF b
<1>2. /\ \A i \in DOMAIN lg : i \in DOMAIN b /\ b[i] = lg[i] /\ T[i] = S[i]
      /\ \A i \in DOMAIN s : Len(lg) + i \in DOMAIN b /\ b[Len(lg) + i] = s[i] /\ T[Len(lg) + i] = k
  BY <1>1
<1>3. \A m \in DOMAIN b : m \in DOMAIN lg \/ (m - Len(lg) \in DOMAIN s /\ m = Len(lg) + (m - Len(lg)))
  BY <1>1
<1>4. Numbers(c, b, h, T)
  <2>1. T \in [DOMAIN b -> DOMAIN h]
    BY DEF Numbers
  <2>2. \A m \in DOMAIN b : Tells(c, b[m], h, T[m])
    <3> HIDE DEF T
    <3> QED BY <1>2, <1>3 DEF Numbers, AllTell
  <2>3. ASSUME c.sim # "boom", NEW m \in DOMAIN b, NEW n \in DOMAIN b, m <= n
        PROVE  T[m] <= T[n]
    <3>1. CASE n \in DOMAIN lg
      <4>1. m \in DOMAIN lg
        BY <1>1, <2>3, <3>1
      <4> QED BY <2>3, <3>1, <4>1 DEF Numbers
    <3>2. CASE n \notin DOMAIN lg
      <4>1. T[n] = k /\ T[m] \in DOMAIN h
        BY <2>1, <3>2
      <4> HIDE DEF T
      <4> QED BY <2>3, <4>1
    <3> QED BY <3>1, <3>2
  <2> HIDE DEF T
  <2> QED BY <2>1, <2>2, <2>3 DEF Numbers
<1> HIDE DEF T
<1>5. ASSUME NEW j
      PROVE  /\ RegAt(lg, S, j) => RegAt(b, T, j)
             /\ MemAt(lg, S, j) => MemAt(b, T, j)
  BY <1>2 DEF RegAt, MemAt
<1>6. ASSUME NEW j, TrapAt(c, lg, h, S, j) PROVE TrapAt(c, b, h, T, j)
  <2>1. PICK m \in DOMAIN lg : S[m] = j /\ ShowsTrap(c, lg, m, h[j].pc, j)
    BY <1>6 DEF TrapAt
  <2>2. ShowsTrap(c, b, m, h[j].pc, j)
    BY <1>2, <2>1 DEF ShowsTrap
  <2> QED BY <1>2, <2>1, <2>2 DEF TrapAt
<1>7. (HasReg(s) => RegAt(b, T, k)) /\ (HasMem(s) => MemAt(b, T, k))
  BY <1>2 DEF HasReg, HasMem, RegAt, MemAt
<1>8. ASSUME HasTrap(c, s, h[k].pc, k) PROVE TrapAt(c, b, h, T, k)
  <2>1. PICK m \in DOMAIN s : ShowsTrap(c, s, m, h[k].pc, k)
    BY <1>8 DEF HasTrap
  <2>2. (Len(lg) + m) - 1 = Len(lg) + (m - 1)
    BY <1>1
  <2>3. ShowsTrap(c, b, Len(lg) + m, h[k].pc, k)
    BY <1>2, <2>1, <2>2 DEF ShowsTrap
  <2> QED BY <1>2, <2>1, <2>3 DEF TrapAt
<1>9. \E U : U = T
  OBVIOUS
<1> QED BY <1>4, <1>5, <1>6, <1>7, <1>8 DEF b

(* What is told of a step stays.                                           *)
LEMMA TellsGrows ==
  ASSUME NEW h, History(config, h), NEW s \in Executable(config), NEW k \in DOMAIN h, NEW l, Tells(config, l, h, k)
  PROVE  Tells(config, l, Append(h, s), k)
<1> DEFINE g == Append(h, s)
<1>1. Told(config, l, g, k)
  BY ToldGrows DEF Tells
<1>2. g[k] = h[k] /\ (Struck(h, k) => Struck(g, k))
  BY HistoryGrows, TakenGrows
<1> HIDE DEF g
<1> QED BY <1>1, <1>2 DEF Tells, g

LEMMA NumbersGrow ==
  ASSUME NEW h, History(config, h), NEW s \in Executable(config), NEW lg, NEW S, Numbers(config, lg, h, S)
  PROVE  /\ Numbers(config, lg, Append(h, s), S)
         /\ \A k \in DOMAIN h : TrapAt(config, lg, h, S, k) => TrapAt(config, lg, Append(h, s), S, k)
<1> DEFINE g == Append(h, s)
<1>1. /\ DOMAIN h \subseteq DOMAIN g /\ \A k \in DOMAIN h : g[k] = h[k]
  BY HistoryGrows
<1>2. \A m \in DOMAIN lg : Tells(config, lg[m], g, S[m])
  BY TellsGrows DEF Numbers
<1> HIDE DEF g
<1>3. Numbers(config, lg, g, S)
  BY <1>1, <1>2 DEF Numbers
<1>4. \A k \in DOMAIN h : TrapAt(config, lg, h, S, k) => TrapAt(config, lg, g, S, k)
  BY <1>1 DEF TrapAt
<1> QED BY <1>3, <1>4 DEF g

LEMMA ExecuteNumbers ==
  ASSUME Printing, NEW S, NumberedBy(S), Execute
  PROVE  (\E T : NumberedBy(T))'
<1> DEFINE h == history  g == history'  k == Len(history) + 1
<1>1. PICK s : /\ IsLog(s) /\ log' = log \o s /\ AllTell(config, s, g, k)
               /\ g[k].op.reg # None => HasReg(s)
               /\ Writes(g[k].op) => HasMem(s) \/ (config.sim = "boom" /\ \E i \in DOMAIN store' : store'[i].val = k)
               /\ Excepted(config, g[k].op) => HasTrap(config, s, g[k].pc, k)
               /\ k \in DOMAIN g /\ History(config, g) /\ g[k] \in Executable(config) /\ g = Append(history, g[k])
               /\ \A i \in DOMAIN store : i \in DOMAIN store' /\ store'[i] = store[i]
  BY ExecuteTells
<1>2. History(config, h) /\ config' = config /\ IsLog(log)
  BY DEF Printing, Execute, Good
<1> HIDE DEF g
<1> DEFINE e == g[k]
<1>3. e \in Executable(config) /\ g = Append(h, e)
  BY <1>1
<1>4. /\ Len(h) \in Nat /\ Len(g) = k /\ DOMAIN h = 1..Len(h) /\ DOMAIN g = DOMAIN h \cup {k}
      /\ k \notin DOMAIN h /\ \A j \in DOMAIN h : g[j] = h[j]
  <2> HIDE DEF e, h
  <2>1. /\ Len(h) \in Nat /\ Len(g) = Len(h) + 1 /\ DOMAIN h = 1..Len(h) /\ DOMAIN g = DOMAIN h \cup {Len(g)}
        /\ Len(g) \notin DOMAIN h /\ \A j \in DOMAIN h : g[j] = h[j]
    BY <1>2, <1>3, HistoryGrows
  <2> QED BY <2>1 DEF h
<1> HIDE DEF e, h, k
<1>5. Numbers(config, log, g, S) /\ \A j \in DOMAIN h : TrapAt(config, log, h, S, j) => TrapAt(config, log, g, S, j)
  BY <1>2, <1>3, NumbersGrow DEF NumberedBy, h
<1>6. DOMAIN g \subseteq Nat /\ \A j \in DOMAIN g : j <= k
  BY <1>4 DEF k, h
<1>7. PICK T : /\ Numbers(config, log \o s, g, T)
               /\ \A j : /\ RegAt(log, S, j) => RegAt(log \o s, T, j)
                         /\ MemAt(log, S, j) => MemAt(log \o s, T, j)
                         /\ TrapAt(config, log, g, S, j) => TrapAt(config, log \o s, g, T, j)
               /\ HasReg(s) => RegAt(log \o s, T, k)
               /\ HasMem(s) => MemAt(log \o s, T, k)
               /\ HasTrap(config, s, g[k].pc, k) => TrapAt(config, log \o s, g, T, k)
  BY <1>1, <1>2, <1>5, <1>6, NumbersAdd
<1>8. Whole(config, log \o s, g, store', T)
  <2> SUFFICES ASSUME NEW j \in DOMAIN g
               PROVE  /\ g[j].op.reg # None => RegAt(log \o s, T, j)
                      /\ Writes(g[j].op) => MemAt(log \o s, T, j) \/ Kept(store', j)
                      /\ Excepted(config, g[j].op) => TrapAt(config, log \o s, g, T, j)
    BY DEF Whole
  <2>1. CASE j = k
    BY <1>1, <1>7, <2>1 DEF Kept
  <2>2. CASE j \in DOMAIN h
    <3>1. /\ h[j].op.reg # None => RegAt(log, S, j)
          /\ Writes(h[j].op) => MemAt(log, S, j) \/ Kept(store, j)
          /\ Excepted(config, h[j].op) => TrapAt(config, log, h, S, j)
      BY <2>2 DEF NumberedBy, Whole, h
    <3>2. Kept(store, j) => Kept(store', j)
      BY <1>1 DEF Kept
    <3>3. g[j] = h[j]
      BY <1>4, <2>2
    <3> QED BY <1>5, <1>7, <2>2, <3>1, <3>2, <3>3
  <2> QED BY <1>4, <2>1, <2>2
<1>9. Numbers(config', log', history', T) /\ Whole(config', log', history', store', T)
  BY <1>1, <1>2, <1>7, <1>8 DEF g
<1> QED BY <1>9 DEF NumberedBy

(* BOOM prints a memory write that was kept.                               *)
LEMMA PrintWriteNumbers ==
  ASSUME Printing, NEW S, NumberedBy(S), PrintWrite
  PROVE  (\E T : NumberedBy(T))'
<1> DEFINE w == store[1]  l == MtLine(w)
<1>1. /\ store # <<>> /\ IsLog(store) /\ IsLog(log) /\ log' = Append(log, l) /\ store' = Tail(store)
      /\ UNCHANGED <<config, history>> /\ History(config, history)
  <2>1. store # <<>> /\ IsLog(store)
    BY DEF PrintWrite, Printing
  <2>2. Head(store) = store[1]
    BY <2>1 DEF IsLog
  <2> QED BY <2>1, <2>2 DEF PrintWrite, Printing, Good, MtLine
<1>2. Len(store) \in Nat \ {0} /\ DOMAIN store = 1..Len(store)
      /\ \A i \in 1..Len(store) - 1 : i \in DOMAIN Tail(store) /\ Tail(store)[i] = store[i + 1]
  BY <1>1 DEF IsLog
<1>3. PICK k \in DOMAIN history : /\ config.sim = "boom" /\ Writes(history[k].op)
                                  /\ w = [pc |-> history[k].pc, op |-> history[k].op, val |-> k]
  BY <1>2 DEF Printing, Stored
<1> HIDE DEF w
<1>4. Told(config, l, history, k) /\ l.k = "mt" /\ l.csr = None
  BY <1>3, WriteTold
<1> HIDE DEF l
<1>5. Tells(config, l, history, k) /\ l.addr # None
  BY <1>4, NoneAssumption DEF Tells, Told, ToldKind
<1>6. AllTell(config, <<l>>, history, k) /\ HasMem(<<l>>)
  BY <1>5, OneTells
<1>7. DOMAIN history \subseteq Nat
  BY <1>1, StepTyped
<1>8. PICK T : /\ Numbers(config, log \o <<l>>, history, T)
               /\ \A j : /\ RegAt(log, S, j) => RegAt(log \o <<l>>, T, j)
                         /\ MemAt(log, S, j) => MemAt(log \o <<l>>, T, j)
                         /\ TrapAt(config, log, history, S, j) => TrapAt(config, log \o <<l>>, history, T, j)
               /\ HasMem(<<l>>) => MemAt(log \o <<l>>, T, k)
  <2>1. Numbers(config, log, history, S)
    BY DEF NumberedBy
  <2> QED BY <1>1, <1>3, <1>6, <1>7, <2>1, NumbersAdd
<1>9. ASSUME NEW j, Kept(store, j) PROVE j = k \/ Kept(store', j)
  <2>1. PICK i \in DOMAIN store : store[i].val = j
    BY <1>9 DEF Kept
  <2>2. CASE i = 1
    BY <1>3, <2>1, <2>2 DEF w
  <2>3. CASE i # 1
    <3>1. i - 1 \in 1..Len(store) - 1 /\ (i - 1) + 1 = i
      BY <1>2, <2>1, <2>3
    <3>2. i - 1 \in DOMAIN Tail(store) /\ Tail(store)[i - 1].val = j
      BY <1>2, <2>1, <3>1
    <3> QED BY <1>1, <3>2 DEF Kept
  <2> QED BY <2>2, <2>3
<1>10. Whole(config, log \o <<l>>, history, store', T)
  <2> SUFFICES ASSUME NEW j \in DOMAIN history
               PROVE  /\ history[j].op.reg # None => RegAt(log \o <<l>>, T, j)
                      /\ Writes(history[j].op) => MemAt(log \o <<l>>, T, j) \/ Kept(store', j)
                      /\ Excepted(config, history[j].op) => TrapAt(config, log \o <<l>>, history, T, j)
    BY DEF Whole
  <2>1. /\ history[j].op.reg # None => RegAt(log, S, j)
        /\ Writes(history[j].op) => MemAt(log, S, j) \/ Kept(store, j)
        /\ Excepted(config, history[j].op) => TrapAt(config, log, history, S, j)
    BY DEF NumberedBy, Whole
  <2> QED BY <1>6, <1>8, <1>9, <2>1
<1>11. Append(log, l) = log \o <<l>>
  BY <1>1, OneAdds
<1>12. Numbers(config', log', history', T) /\ Whole(config', log', history', store', T)
  BY <1>1, <1>8, <1>10, <1>11
<1> QED BY <1>12 DEF NumberedBy

(* A line of another module tells nothing.                                 *)
LEMMA PrintNoiseNumbers ==
  ASSUME Printing, NEW S, NumberedBy(S), PrintNoise
  PROVE  (\E T : NumberedBy(T))'
<1> DEFINE l == NoLine
<1>1. /\ store # <<>> /\ IsLog(store) /\ IsLog(log) /\ log' = Append(log, l)
      /\ UNCHANGED <<config, history, store>> /\ History(config, history)
  BY DEF PrintNoise, Printing, Good
<1>2. 1 \in DOMAIN store
  BY <1>1 DEF IsLog
<1>3. PICK k \in DOMAIN history : config.sim = "boom"
  BY <1>2 DEF Printing, Stored
<1>4. Tells(config, l, history, k)
  BY NoLineFields, NoneAssumption DEF Tells, Told, ToldKind, ToldExc, ToldReg, ToldStore, ToldBoom
<1> HIDE DEF l
<1>5. AllTell(config, <<l>>, history, k)
  BY <1>4, OneTells
<1>6. DOMAIN history \subseteq Nat
  BY <1>1, StepTyped
<1>7. PICK T : /\ Numbers(config, log \o <<l>>, history, T)
               /\ \A j : /\ RegAt(log, S, j) => RegAt(log \o <<l>>, T, j)
                         /\ MemAt(log, S, j) => MemAt(log \o <<l>>, T, j)
                         /\ TrapAt(config, log, history, S, j) => TrapAt(config, log \o <<l>>, history, T, j)
  <2>1. Numbers(config, log, history, S)
    BY DEF NumberedBy
  <2> QED BY <1>1, <1>3, <1>5, <1>6, <2>1, NumbersAdd
<1>8. Whole(config, log \o <<l>>, history, store, T)
  BY <1>7 DEF NumberedBy, Whole
<1>9. Append(log, l) = log \o <<l>>
  BY <1>1, OneAdds
<1>10. Numbers(config', log', history', T) /\ Whole(config', log', history', store', T)
  BY <1>1, <1>7, <1>8, <1>9
<1> QED BY <1>10 DEF NumberedBy

-----------------------------------------------------------------------------
(* What the parsers make of the bytes of a store.                          *)

LEMMA Widths ==
  ASSUME NEW s \in 0..3
  PROVE  2^s \in Nat /\ 2^s >= 1
<1>1. 2^0 = 1 /\ 2^1 = 2 /\ 2^2 = 4 /\ 2^3 = 8
  OBVIOUS
<1>2. s = 0 \/ s = 1 \/ s = 2 \/ s = 3
  OBVIOUS
<1>3. s = 0 => 2^s = 2^0
  OBVIOUS
<1>4. s = 1 => 2^s = 2^1
  OBVIOUS
<1>5. s = 2 => 2^s = 2^2
  OBVIOUS
<1>6. s = 3 => 2^s = 2^3
  OBVIOUS
<1> DEFINE t == 2^s
<1>7. t \in {2^0, 2^1, 2^2, 2^3}
  BY <1>2, <1>3, <1>4, <1>5, <1>6
<1>8. t \in {1, 2, 4, 8}
  BY <1>1, <1>7
<1> HIDE DEF t
<1>9. t \in Nat /\ t >= 1
  BY <1>8
<1> QED BY <1>9 DEF t

Bytes(h, k) == [a \in Covered(h[k].op) |-> <<k, a - h[k].op.addr>>]

(* A store covers a byte, and all its bytes are in one block.              *)
LEMMA CoveredBlock ==
  ASSUME NEW op, op \in Operations, Proper(op), op.addr # None
  PROVE  /\ op.addr \in Nat /\ op.addr \in Covered(op) /\ Aligned(op.addr) \in Nat
         /\ \A a \in Covered(op) : /\ a \in Memory /\ a \in Nat /\ a >= op.addr /\ a - op.addr \in 0..Lanes - 1
                                   /\ a = Aligned(op.addr) + (a % Lanes) /\ a % Lanes \in 0..Lanes - 1
<1>1. op.addr \in Nat /\ op.size \in 0..3
  BY LanesAssumption DEF Operations, Memory
<1>2. 2^op.size \in Nat /\ 2^op.size >= 1
  BY <1>1, Widths
<1>3. op.addr \in Covered(op)
  <2> DEFINE t == 2^op.size
  <2> HIDE DEF t
  <2>1. op.addr \in op.addr .. op.addr + t - 1
    BY <1>1, <1>2 DEF t
  <2> QED BY <2>1 DEF Covered, t
<1>4. Aligned(op.addr) \in Nat
  BY <1>1, AlignedTyped
<1>5. ASSUME NEW a \in Covered(op)
      PROVE  /\ a \in Memory /\ a \in Nat /\ a >= op.addr /\ a - op.addr \in 0..Lanes - 1
             /\ a = Aligned(op.addr) + (a % Lanes) /\ a % Lanes \in 0..Lanes - 1
  <2>1. a \in Memory /\ a - op.addr \in 0..Lanes - 1
    BY <1>5, CoveredLanes
  <2>2. Aligned(a) = Aligned(op.addr) /\ a \in Nat
    BY <1>5, <2>1, LanesAssumption DEF Proper, Memory
  <2>3. a - Aligned(a) = a % Lanes /\ Aligned(a) \in Nat
    BY <2>2, AlignedTyped
  <2>4. a % Lanes \in 0..Lanes - 1
    BY <2>2, LanesAssumption
  <2>5. a >= op.addr
    BY <1>1, <2>1, <2>2, LanesAssumption
  <2>6. a = Aligned(op.addr) + (a % Lanes)
    BY <2>2, <2>3, <2>4, LanesAssumption
  <2> QED BY <2>1, <2>2, <2>4, <2>5, <2>6
<1> QED BY <1>1, <1>3, <1>4, <1>5

(* A list from the lowest byte of a store.                                 *)
LEMMA SizedBytes ==
  ASSUME NEW h, History(config, h), NEW k \in DOMAIN h, h[k].op.addr # None,
         Line.addr = h[k].op.addr, Line.data = Low(k), NEW n, n = 2^h[k].op.size
  PROVE  Sized(n) = Bytes(h, k)
<1> DEFINE op == h[k].op
<1>1. op \in Operations /\ Proper(op)
  BY StepTyped
<1>2. Line.addr .. Line.addr + n - 1 = Covered(op)
  BY DEF Covered
<1>3. \A a \in Covered(op) : Line.data[a - op.addr] = <<k, a - op.addr>>
  <2> SUFFICES ASSUME NEW a \in Covered(op) PROVE Low(k)[a - op.addr] = <<k, a - op.addr>>
    OBVIOUS
  <2>1. a - op.addr \in 0..Lanes - 1
    BY <1>1, CoveredLanes
  <2> QED BY <2>1 DEF Low
<1> QED BY <1>2, <1>3 DEF Sized, Bytes

(* The lanes of a block.                                                   *)
LEMMA MaskedBytes ==
  ASSUME NEW h, History(config, h), NEW k \in DOMAIN h, h[k].op.addr # None,
         Line.mask = LaneMask(h[k].op), Line.data = Moved(k, h[k].op.addr)
  PROVE  Masked(Aligned(h[k].op.addr)) = Bytes(h, k)
<1> DEFINE op == h[k].op  base == Aligned(op.addr)
<1>1. op \in Operations /\ Proper(op)
  BY StepTyped
<1>2. /\ op.addr \in Nat /\ op.addr \in Covered(op) /\ base \in Nat
      /\ \A a \in Covered(op) : /\ a \in Memory /\ a \in Nat /\ a >= op.addr /\ a - op.addr \in 0..Lanes - 1
                                /\ a = base + (a % Lanes) /\ a % Lanes \in 0..Lanes - 1
  BY <1>1, CoveredBlock
<1>3. Line.mask = {(a % Lanes) : a \in Covered(op)}
  BY DEF LaneMask
<1> HIDE DEF base
<1>4. {base + i : i \in Line.mask} = Covered(op)
  <2>1. \A i \in Line.mask : base + i \in Covered(op)
    BY <1>2, <1>3
  <2>2. \A a \in Covered(op) : a % Lanes \in Line.mask /\ a = base + (a % Lanes)
    BY <1>2, <1>3
  <2> QED BY <2>1, <2>2
<1>5. ASSUME NEW a \in Covered(op) PROVE Line.data[a - base] = <<k, a - op.addr>>
  <2>1. a = base + (a % Lanes) /\ op.addr = base + (op.addr % Lanes) /\ a >= op.addr
    BY <1>2
  <2>2. a % Lanes \in 0..Lanes - 1 /\ op.addr % Lanes \in 0..Lanes - 1 /\ Lanes \in Nat
    BY <1>2, LanesAssumption
  <2> DEFINE i == a % Lanes  j == op.addr % Lanes
  <2>3. Line.data = [n \in 0..Lanes - 1 |-> IF n < j THEN <<k, Lanes>> ELSE <<k, n - j>>]
    BY DEF Moved
  <2> HIDE DEF i, j
  <2>4. a = base + i /\ op.addr = base + j /\ i \in 0..Lanes - 1 /\ j \in 0..Lanes - 1
    BY <2>1, <2>2 DEF i, j
  <2>5. a - base = i /\ ~(i < j) /\ i - j = a - op.addr
    BY <1>2, <2>1, <2>2, <2>4
  <2> QED BY <2>3, <2>4, <2>5
<1> QED BY <1>4, <1>5 DEF Masked, Bytes, base

(* The bytes that a line of cva6 lists, or those of its mask.              *)
LEMMA ListedBytes ==
  ASSUME NEW h, History(config, h), NEW k \in DOMAIN h, h[k].op.addr # None,
         ShowsStore(config, Line, h[k].op, k), config.sim = "cva6"
  PROVE  Cva6Bytes = Bytes(h, k)
<1> DEFINE op == h[k].op
<1>1. op \in Operations /\ Proper(op)
  BY StepTyped
<1>2. /\ op.addr \in Nat /\ op.addr \in Covered(op) /\ Aligned(op.addr) \in Nat
      /\ \A a \in Covered(op) : /\ a \in Memory /\ a \in Nat /\ a >= op.addr /\ a - op.addr \in 0..Lanes - 1
                                /\ a = Aligned(op.addr) + (a % Lanes) /\ a % Lanes \in 0..Lanes - 1
  BY <1>1, CoveredBlock
<1>3. /\ Line.addr = op.addr /\ Line.mask = LaneMask(op)
      /\ Line.data = Moved(k, op.addr) /\ Line.segments = ByteList(config, op, k)
  BY DEF ShowsStore
<1>4. CASE config.segments
  <2>1. Line.segments = {<<a, <<k, a - op.addr>> >> : a \in Covered(op)}
    BY <1>3, <1>4 DEF ByteList
  <2> DEFINE C == Covered(op)  L == Line.segments  d(a) == <<k, a - op.addr>>
  <2>10. L = {<<a, d(a)>> : a \in C} /\ op.addr \in C
    BY <1>2, <2>1
  <2> HIDE DEF C, L, d
  <2>11. \A a \in C : <<a, d(a)>> \in L
    BY <2>10
  <2>12. \A x \in L : \E a \in C : x = <<a, d(a)>>
    BY <2>10
  <2>13. \A a, e : <<a, e>>[1] = a /\ <<a, e>>[2] = e
    OBVIOUS
  <2>2. L # {}
    BY <2>10, <2>11
  <2>3. {x[1] : x \in L} = C
    <3>1. \A x \in L : x[1] \in C
      BY <2>12, <2>13
    <3>2. \A a \in C : \E x \in L : x[1] = a
      BY <2>11, <2>13
    <3> QED BY <3>1, <3>2
  <2>4. ASSUME NEW a \in C
        PROVE  (CHOOSE s \in L : s[1] = a)[2] = d(a)
    <3> DEFINE x == CHOOSE s \in L : s[1] = a
    <3>1. <<a, d(a)>> \in L /\ <<a, d(a)>>[1] = a
      BY <2>11, <2>13
    <3>2. x \in L /\ x[1] = a
      BY <3>1
    <3> HIDE DEF x
    <3>3. PICK b \in C : x = <<b, d(b)>>
      BY <2>12, <3>2
    <3>4. b = a /\ x[2] = d(b)
      BY <2>13, <3>2, <3>3
    <3> QED BY <3>4 DEF x
  <2>5. Segments = [a \in C |-> d(a)]
    BY <2>3, <2>4 DEF Segments, L
  <2>6. Segments = Bytes(h, k)
    BY <2>5 DEF Bytes, C, d
  <2> QED BY <2>2, <2>6 DEF Cva6Bytes, L
<1>5. CASE ~config.segments
  <2>1. Line.segments = {}
    BY <1>3, <1>5 DEF ByteList
  <2> DEFINE j == op.addr % Lanes  T == {(a % Lanes) : a \in Covered(op)}
  <2>2. Line.mask = T
    BY <1>3 DEF LaneMask
  <2>3. j \in T
    BY <1>2
  <2>4. ASSUME NEW i \in T PROVE i \in Nat /\ j <= i
    <3>1. PICK a \in Covered(op) : i = a % Lanes
      OBVIOUS
    <3> HIDE DEF T
    <3>2. a = Aligned(op.addr) + i /\ op.addr = Aligned(op.addr) + j /\ a >= op.addr /\ a \in Nat
      BY <1>2, <3>1
    <3>3. i \in 0..Lanes - 1 /\ j \in 0..Lanes - 1 /\ Lanes \in Nat
      BY <1>2, <3>1, LanesAssumption
    <3> HIDE DEF j
    <3> QED BY <1>2, <3>2, <3>3
  <2> HIDE DEF T, j
  <2>5. j \in Nat
    BY <2>3, <2>4
  <2>6. Min(T) = j
    <3>1. Min(T) \in T /\ \A i \in T : Min(T) <= i
      BY <2>3, <2>4 DEF Min
    <3>2. Min(T) <= j /\ j <= Min(T) /\ Min(T) \in Nat
      BY <2>3, <2>4, <3>1
    <3> QED BY <2>5, <3>2
  <2>7. Line.addr - Min(Line.mask) = Aligned(op.addr)
    <3>1. op.addr = Aligned(op.addr) + j
      BY <1>2 DEF j
    <3> QED BY <1>2, <1>3, <2>2, <2>5, <2>6, <3>1
  <2>8. Line.mask # {}
    BY <2>2, <2>3
  <2>9. Masked(Aligned(op.addr)) = Bytes(h, k)
    BY <1>3, MaskedBytes
  <2> QED BY <2>1, <2>7, <2>8, <2>9 DEF Cva6Bytes
<1> QED BY <1>4, <1>5

(* Every parser finds the bytes that were written.                         *)
LEMMA BytesFound ==
  ASSUME NEW h, History(config, h), NEW k \in DOMAIN h, Told(config, Line, h, k), Line.addr # None
  PROVE  /\ Writes(h[k].op)
         /\ config.sim \in Wide => Sized(2^Line.size) = Bytes(h, k)
         /\ config.sim \in Narrow => Sized(Line.size) = Bytes(h, k)
         /\ config.sim \in Blocks => Masked(Line.addr) = Bytes(h, k)
         /\ config.sim = "cva6" => Cva6Bytes = Bytes(h, k)
<1>1. Writes(h[k].op) /\ ShowsStore(config, Line, h[k].op, k)
  BY DEF Told, ToldStore
<1>2. h[k].op.addr # None
  BY <1>1 DEF Writes
<1>3. ASSUME config.sim \in Wide PROVE Sized(2^Line.size) = Bytes(h, k)
  <2>1. Line.addr = h[k].op.addr /\ Line.size = h[k].op.size /\ Line.data = Low(k)
    BY <1>1, <1>3 DEF ShowsStore
  <2> QED BY <1>2, <2>1, SizedBytes
<1>4. ASSUME config.sim \in Narrow PROVE Sized(Line.size) = Bytes(h, k)
  <2>1. Line.addr = h[k].op.addr /\ Line.size = 2^h[k].op.size /\ Line.data = Low(k)
    BY <1>1, <1>4 DEF ShowsStore
  <2> QED BY <1>2, <2>1, SizedBytes
<1>5. ASSUME config.sim \in Blocks PROVE Masked(Line.addr) = Bytes(h, k)
  <2>1. /\ Line.addr = Aligned(h[k].op.addr) /\ Line.mask = LaneMask(h[k].op)
        /\ Line.data = Moved(k, h[k].op.addr)
    BY <1>1, <1>5 DEF ShowsStore
  <2> QED BY <1>2, <2>1, MaskedBytes
<1>6. config.sim = "cva6" => Cva6Bytes = Bytes(h, k)
  BY <1>1, <1>2, ListedBytes
<1> QED BY <1>1, <1>3, <1>4, <1>5, <1>6

-----------------------------------------------------------------------------
(* What a line adds to the trace.                                          *)

LEMMA LineRead ==
  ASSUME ReadLine
  PROVE  /\ pc = "read" /\ pos < Len(log) /\ pos' = pos + 1
         /\ pc' \in {"read", "failed"} /\ UNCHANGED <<tvars, config, history, store, log, output>>
<1> USE DEF Others, Consumed, Plain, Reads
<1>1. CASE RocketRegister \/ RocketFloat \/ RocketStore \/ RocketException \/ SpikeCommit \/ SpikeException
  BY <1>1 DEF RocketRegister, RocketFloat, RocketStore, RocketException, SpikeCommit, SpikeException
<1>2. CASE Cva6Register \/ Cva6Atomic \/ Cva6Store \/ Cva6Exception \/ PicoLine \/ XsCommit \/ XsMemory \/ XsException
  BY <1>2 DEF Cva6Register, Cva6Atomic, Cva6Store, Cva6Exception, PicoLine, XsCommit, XsMemory, XsException
<1>3. CASE VexWrite \/ VexException \/ IbexLine \/ KronosLine \/ Srv32Line \/ Ignore
  BY <1>3 DEF VexWrite, VexException, IbexLine, KronosLine, Srv32Line, Ignore
<1>4. CASE BoomInstruction \/ BoomRegister \/ BoomFloat \/ BoomStore \/ BoomException \/ BoomWrite
  BY <1>4 DEF BoomInstruction, BoomRegister, BoomFloat, BoomStore, BoomException, BoomWrite
<1> QED BY <1>1, <1>2, <1>3, <1>4 DEF ReadLine

Enters(ws, xs, w) == xs = Put(ws, w) \/ xs = Push(ws, w)

LEMMA ReadsRegister ==
  ASSUME PairedInv, ReadLine
  PROVE  IF Line.reg = None THEN regs' = regs ELSE Enters(regs, regs', Write(Line.reg, Line.val))
<1>1. pos < Len(log)
  BY LineRead
<1>2. PICK k \in DOMAIN history : Told(config, Line, history, k)
  BY <1>1, LineTold
<1>3. Line.reg # None <=> Line.k \in {"reg", "freg"}
  BY <1>2 DEF Told, ToldKind
<1>4. Line.reg # "x0"
  <2>1. History(config, history)
    BY DEF PairedInv, PrintingInv, Printing
  <2>2. Line.reg # None /\ Line.reg # "x5" /\ Line.reg # "x6" => Line.reg = history[k].op.reg
    BY <1>2 DEF Told, ToldReg
  <2>3. history[k].op.reg \in {"x1", "f1", None}
    BY <2>1, StepTyped DEF Operations, Registers
  <2>4. "x0" # None
    BY NoneAssumption
  <2> QED BY <2>2, <2>3, <2>4
<1> DEFINE w == Write(Line.reg, Line.val)
<1> HIDE DEF w
<1> USE DEF Enters, Reg, trace
<1>5. CASE RocketRegister \/ RocketFloat \/ RocketStore \/ RocketException \/ SpikeCommit \/ SpikeException
  BY <1>3, <1>5 DEF RocketRegister, RocketFloat, RocketStore, RocketException, SpikeCommit, SpikeException, w
<1>6. CASE Cva6Register \/ Cva6Atomic \/ Cva6Store \/ Cva6Exception \/ PicoLine \/ XsCommit \/ XsMemory \/ XsException
  BY <1>3, <1>6 DEF Cva6Register, Cva6Atomic, Cva6Store, Cva6Exception, PicoLine, XsCommit, XsMemory, XsException, w
<1>7. CASE VexWrite \/ VexException \/ IbexLine \/ KronosLine \/ Srv32Line \/ Ignore
  BY <1>3, <1>4, <1>7 DEF VexWrite, VexException, IbexLine, KronosLine, Srv32Line, Ignore, w
<1>8. CASE BoomInstruction \/ BoomRegister \/ BoomFloat \/ BoomStore \/ BoomException \/ BoomWrite
  BY <1>3, <1>8 DEF BoomInstruction, BoomRegister, BoomFloat, BoomStore, BoomException, BoomWrite, w
<1> QED BY <1>5, <1>6, <1>7, <1>8 DEF ReadLine, w

LEMMA ReadsStore ==
  ASSUME PairedInv, ReadLine, NEW k \in DOMAIN history, Tells(config, Line, history, k), config.sim # "boom"
  PROVE  IF Line.addr = None THEN mems' = mems
         ELSE LET w == Write(Line.addr, Bytes(history, k)) IN
              \/ Enters(mems, mems', w)
              \/ config.sim = "xiangshan" /\ mems' = mems /\ \E v \in mems : v.pc = w.pc
<1> DEFINE B == Bytes(history, k)  w == Write(Line.addr, B)
<1> SUFFICES IF Line.addr = None THEN mems' = mems
             ELSE \/ Enters(mems, mems', w)
                  \/ config.sim = "xiangshan" /\ mems' = mems /\ \E v \in mems : v.pc = w.pc
  OBVIOUS
<1>1. History(config, history)
  BY DEF PairedInv, PrintingInv, Printing
<1>2. /\ Line.k \in {"noise", "insn", "reg", "freg", "store", "mt", "exc"}
      /\ Line.reg # None <=> Line.k \in {"reg", "freg"}
      /\ Line.k \in {"store", "mt"} => Line.addr # None
      /\ Line.addr # None => Line.k \in {"store", "mt", "reg", "freg"}
      /\ Line.k # "mt"
      /\ Line.addr # None => Line.k = "store" \/ config.sim \in OneLine
  BY DEF Tells, Told, ToldKind, ToldBoom
<1>3. Line.addr # None =>
        /\ config.sim \in Wide => Sized(2^Line.size) = B
        /\ config.sim \in Narrow => Sized(Line.size) = B
        /\ config.sim \in Blocks => Masked(Line.addr) = B
        /\ config.sim = "cva6" => Cva6Bytes = B
  BY <1>1, BytesFound DEF Tells
<1> HIDE DEF B
<1>4. w.pc = Line.pc
  BY DEF Write
<1> HIDE DEF w
<1> USE DEF Enters, Mem, Reg, trace, OneLine, Reads
<1>5. CASE RocketRegister \/ RocketFloat \/ RocketStore \/ RocketException
  <2>1. config.sim = "rocket" /\ (Line.addr # None => Sized(2^Line.size) = B)
    BY <1>3, <1>5 DEF RocketRegister, RocketFloat, RocketStore, RocketException, Wide
  <2> QED BY <1>2, <1>5, <2>1 DEF RocketRegister, RocketFloat, RocketStore, RocketException, w
<1>6. CASE SpikeCommit \/ SpikeException
  <2>1. config.sim = "spike" /\ (Line.addr # None => Sized(Line.size) = B)
    BY <1>3, <1>6 DEF SpikeCommit, SpikeException, Narrow
  <2> QED BY <1>2, <1>6, <2>1 DEF SpikeCommit, SpikeException, w
<1>7. CASE Cva6Register \/ Cva6Atomic \/ Cva6Store \/ Cva6Exception
  <2>1. config.sim = "cva6" /\ (Line.addr # None => Cva6Bytes = B)
    BY <1>3, <1>7 DEF Cva6Register, Cva6Atomic, Cva6Store, Cva6Exception
  <2> QED BY <1>2, <1>7, <2>1 DEF Cva6Register, Cva6Atomic, Cva6Store, Cva6Exception, w
<1>8. CASE PicoLine
  <2>1. config.sim = "picorv32" /\ (Line.addr # None => Sized(Line.size) = B)
    BY <1>3, <1>8 DEF PicoLine, Narrow
  <2> QED BY <1>2, <1>8, <2>1 DEF PicoLine, w
<1>9. CASE XsCommit \/ XsMemory \/ XsException
  <2>1. config.sim = "xiangshan" /\ (Line.addr # None => Masked(Line.addr) = B)
    BY <1>3, <1>9 DEF XsCommit, XsMemory, XsException, Blocks
  <2> QED BY <1>2, <1>4, <1>9, <2>1 DEF XsCommit, XsMemory, XsException, w
<1>10. CASE VexWrite \/ VexException \/ IbexLine
  <2>1. config.sim \in {"vex", "ibex"} /\ (Line.addr # None => Sized(Line.size) = B)
    BY <1>3, <1>10 DEF VexWrite, VexException, IbexLine, Narrow
  <2> QED BY <1>2, <1>10, <2>1 DEF VexWrite, VexException, IbexLine, w
<1>11. CASE KronosLine
  <2>1. config.sim = "kronos" /\ (Line.addr # None => Masked(Line.addr) = B)
    BY <1>3, <1>11 DEF KronosLine, Blocks
  <2> QED BY <1>2, <1>11, <2>1 DEF KronosLine, w
<1>12. CASE Srv32Line
  <2>1. config.sim = "srv32" /\ (Line.addr # None => Sized(2^Line.size) = B)
    BY <1>3, <1>12 DEF Srv32Line, Wide
  <2> QED BY <1>2, <1>12, <2>1 DEF Srv32Line, w
<1>13. CASE Ignore
  BY <1>2, <1>13 DEF Ignore
<1>14. CASE BoomInstruction \/ BoomRegister \/ BoomFloat \/ BoomStore \/ BoomException \/ BoomWrite
  BY <1>14 DEF BoomInstruction, BoomRegister, BoomFloat, BoomStore, BoomException, BoomWrite
<1> QED BY <1>5, <1>6, <1>7, <1>8, <1>9, <1>10, <1>11, <1>12, <1>13, <1>14 DEF ReadLine

(* BOOM's stores, but a failed store-conditional.  A write that can be     *)
(* attributed is kept at some address.                                     *)
LEMMA BoomReadsStore ==
  ASSUME WriteInv, ReadLine, NEW k \in DOMAIN history, Tells(config, Line, history, k), config.sim = "boom"
  PROVE  IF Line.addr = None \/ history[k].op.fails THEN mems' = mems
         ELSE \/ mems' = mems /\ Line.k = "mt" /\ ~Attributable(pos + 1)
              \/ \E p : Enters(mems, mems', [Write(Line.addr, Bytes(history, k)) EXCEPT !.pc = p])
<1> DEFINE B == Bytes(history, k)
<1>1. History(config, history)
  BY DEF WriteInv, PairedInv, PrintingInv, Printing
<1>2. /\ Line.k \in {"noise", "insn", "reg", "freg", "store", "mt", "exc"}
      /\ Line.k \in {"store", "mt"} <=> Line.addr # None
      /\ Line.k = "store" => ~history[k].op.fails
      /\ Line.k = "mt" => Line.insn = history[k].op
  BY DEF Tells, Told, ToldKind, ToldBoom, OneLine
<1>3. Line.addr # None => Sized(2^Line.size) = B
  BY <1>1, BytesFound DEF Tells, Wide
<1> HIDE DEF B
<1>4. \/ BoomInstruction \/ BoomRegister \/ BoomFloat \/ BoomStore \/ BoomException \/ BoomWrite
      \/ Ignore
  BY DEF ReadLine, Reads, RocketRegister, RocketFloat, RocketStore, RocketException, SpikeCommit,
     SpikeException, Cva6Register, Cva6Atomic, Cva6Store, Cva6Exception, PicoLine, XsCommit, XsMemory, XsException,
     VexWrite, VexException, IbexLine, KronosLine, Srv32Line
<1>5. CASE BoomStore
  <2>1. Line.k = "store" /\ mems' = Put(mems, Write(Line.addr, Sized(2^Line.size)))
    BY <1>5 DEF BoomStore
  <2>2. Line.addr # None /\ mems' = Put(mems, Write(Line.addr, B)) /\ ~history[k].op.fails
    BY <1>2, <1>3, <2>1
  <2>3. Write(Line.addr, B) = [Write(Line.addr, B) EXCEPT !.pc = Line.pc]
    BY DEF Write
  <2> QED BY <2>2, <2>3 DEF Enters, B
<1>6. CASE BoomWrite
  <2>1. PICK p : /\ Line.k = "mt"
                 /\ mems' = IF p = None \/ Line.insn.fails THEN mems
                            ELSE Put(mems, [Write(Line.addr, Sized(2^Line.size)) EXCEPT !.pc = p])
    BY <1>6 DEF BoomWrite
  <2>2. Line.addr # None /\ Line.insn = history[k].op
    BY <1>2, <2>1
  <2>3. CASE ~Attributable(pos + 1)
    <3>1. mems' = IF p = None \/ history[k].op.fails THEN mems
                  ELSE Put(mems, [Write(Line.addr, B) EXCEPT !.pc = p])
      BY <1>3, <2>1, <2>2
    <3> QED BY <2>1, <2>2, <2>3, <3>1 DEF Enters, B
  <2>4. CASE Attributable(pos + 1)
    <3>1. Known /\ MemsRight(pos) /\ (Unnamed /\ ClearTo(pos) => QueueRight(boom, pos))
      BY DEF WriteInv, Reading, Known
    <3>2. PICK q : mems' = IF Line.insn.fails THEN mems
                           ELSE Put(mems, [Write(Line.addr, Sized(2^Line.size)) EXCEPT !.pc = q])
      BY <1>6, <2>4, <3>1, BoomWriteReads
    <3>3. mems' = IF history[k].op.fails THEN mems ELSE Put(mems, [Write(Line.addr, B) EXCEPT !.pc = q])
      BY <1>3, <2>2, <3>2
    <3> QED BY <2>2, <3>3 DEF Enters, B
  <2> QED BY <2>3, <2>4
<1>7. CASE ~(BoomStore \/ BoomWrite)
  BY <1>2, <1>4, <1>7 DEF BoomInstruction, BoomRegister, BoomFloat, BoomException, Ignore, trace
<1> QED BY <1>5, <1>6, <1>7

-----------------------------------------------------------------------------
(* Exceptions that are read off.                                           *)

(* The handler's read of mepc in the line before was noted.                *)
EpcNoted ==
  config.sim \in Noting /\ pos > 0 /\ log[pos].csr = "mepc" /\ log[pos].pc = HandlerPc
    => trap.mepc = log[pos].val

(* The lines of the two simulators from which CSR values are noted.        *)
LEMMA NotingLine ==
  ASSUME PairedInv, ReadLine, config.sim \in Noting, Line.csr # None
  PROVE  /\ Line.k = "reg" /\ Line.reg # None
         /\ IF config.sim = "boom" THEN BoomRegister ELSE Srv32Line
         /\ config.sim = "srv32" => Line.pc = HandlerPc /\ HandlerReads = Line.csr
<1>1. pos < Len(log)
  BY LineRead
<1>2. PICK k \in DOMAIN history : Told(config, Line, history, k)
  BY <1>1, LineTold
<1>3. Line.k = "reg" /\ Line.reg # None
  BY <1>2, NoneAssumption DEF Told, ToldKind
<1>4. config.sim = "boom" => BoomRegister
  BY <1>3 DEF ReadLine, Reads, RocketRegister, RocketFloat, RocketStore, RocketException, SpikeCommit,
     SpikeException, Cva6Register, Cva6Atomic, Cva6Store, Cva6Exception, PicoLine, XsCommit, XsMemory, XsException,
     VexWrite, VexException, IbexLine, KronosLine, Srv32Line, BoomInstruction, BoomFloat, BoomStore,
     BoomException, BoomWrite, Ignore
<1>5. config.sim = "srv32" => Srv32Line
  BY <1>3 DEF ReadLine, Reads, RocketRegister, RocketFloat, RocketStore, RocketException, SpikeCommit,
     SpikeException, Cva6Register, Cva6Atomic, Cva6Store, Cva6Exception, PicoLine, XsCommit, XsMemory, XsException,
     VexWrite, VexException, IbexLine, KronosLine, BoomInstruction, BoomRegister, BoomFloat, BoomStore,
     BoomException, BoomWrite, Ignore
<1>6. ASSUME config.sim = "srv32" PROVE Line.pc = HandlerPc /\ HandlerReads = Line.csr
  <2>1. Line.pc = HandlerPc /\ <<Line.csr, Line.reg>> \in {<<"mepc", "x5">>, <<"mcause", "x6">>}
    BY <1>2, <1>3, <1>6 DEF Told, ToldReg
  <2> QED BY <2>1 DEF HandlerReads
<1> QED BY <1>3, <1>4, <1>5, <1>6 DEF Noting

LEMMA EpcNext ==
  ASSUME PairedInv, ReadLine
  PROVE  EpcNoted'
<1>1. pos < Len(log) /\ pos' = pos + 1 /\ config' = config /\ log' = log
  BY LineRead
<1> SUFFICES ASSUME config.sim \in Noting, Line.csr = "mepc" PROVE trap'.mepc = Line.val
  BY <1>1 DEF EpcNoted, Line
<1>2. /\ IF config.sim = "boom" THEN BoomRegister ELSE Srv32Line
      /\ config.sim = "srv32" => HandlerReads = Line.csr
  BY NotingLine, NoneAssumption
<1>3. Noticed("mepc") = [mepc |-> Line.val, mcause |-> None]
  BY DEF Noticed
<1>4. CASE BoomRegister
  <2>1. trap' = Noticed(Line.csr)
    BY <1>3, <1>4 DEF BoomRegister
  <2> QED BY <1>3, <2>1
<1>5. CASE config.sim = "srv32" /\ Srv32Line
  <2>1. HandlerReads = "mepc"
    BY <1>2, <1>5
  <2>2. trap' = Noticed(HandlerReads)
    BY <1>3, <1>5, <2>1 DEF Srv32Line
  <2> QED BY <1>3, <2>1, <2>2
<1> QED BY <1>2, <1>4, <1>5 DEF Noting

(* The two reads of the handler make the exception.                        *)
LEMMA ReadsTrap ==
  ASSUME PairedInv, EpcNoted, ReadLine, NEW k \in DOMAIN history, Unshown(config),
         ShowsTrap(config, log, pos + 1, history[k].pc, k)
  PROVE  \E i : excs' = Put(excs, Raised(history[k].pc, k, i))
<1> DEFINE p == history[k].pc
<1>1. pos < Len(log) /\ pos \in Nat
  BY LineRead, LineTold
<1>2. log[pos] = EpcLine(p) /\ Line = CauseLine(k, FALSE) /\ pos \in DOMAIN log
  <2>1. (pos + 1) - 1 = pos
    BY <1>1
  <2> QED BY <2>1 DEF ShowsTrap, Line
<1>3. log[pos].csr = "mepc" /\ log[pos].pc = HandlerPc /\ log[pos].val = p
  BY <1>2, HandlerLineFields
<1>4. Line.csr = "mcause" /\ Line.val = k /\ Line.pc = HandlerPc /\ Line.k = "reg"
  <2>1. CauseLine(k, FALSE) # EpcLine(p)
    BY DEF EpcLine, CauseLine, RegLine, NoLine
  <2> DEFINE l == CauseLine(k, FALSE)
  <2>2. l # EpcLine(p)
    BY <2>1
  <2>3. l.csr = "mcause" /\ l.val = k /\ l.pc = HandlerPc /\ l.k = "reg"
    BY DEF CauseLine, RegLine, NoLine
  <2> QED BY <1>2, <2>3
<1>5. pos > 0
  <2>1. IsLog(log)
    BY DEF PairedInv, PrintingInv, Printing, Good
  <2>2. DOMAIN log = 1..Len(log) /\ Len(log) \in Nat
    BY <2>1, LogFacts
  <2> QED BY <1>1, <1>2, <2>2
<1>6. config.sim \in Noting
  BY DEF Unshown, Noting
<1>7. trap.mepc = p
  BY <1>3, <1>5, <1>6 DEF EpcNoted
<1>8. p # None /\ k # None
  <2>1. History(config, history)
    BY DEF PairedInv, PrintingInv, Printing
  <2>2. p \in Nat /\ k \in Nat
    BY <2>1, StepTyped
  <2> QED BY <2>2, NoneAssumption
<1>9. DOMAIN trap = {"mepc", "mcause"}
  BY DEF PairedInv, Noted
<1>10. Noticed("mcause").mepc = p /\ Noticed("mcause").mcause = k
  BY <1>4, <1>7, <1>9 DEF Noticed
<1>11. Line.csr # None
  BY <1>4, NoneAssumption
<1>12. /\ Line.reg # None
       /\ IF config.sim = "boom" THEN BoomRegister ELSE Srv32Line
       /\ config.sim = "srv32" => Line.pc = HandlerPc /\ HandlerReads = "mcause"
  BY <1>4, <1>6, <1>11, NotingLine
<1> HIDE DEF p
<1>13. CASE BoomRegister
  <2>1. excs' = Put(excs, Raised(p, k, Line.irq))
    BY <1>4, <1>8, <1>10, <1>11, <1>13 DEF BoomRegister
  <2> QED BY <2>1 DEF p
<1>14. CASE config.sim = "srv32" /\ Srv32Line
  <2>1. HandlerReads = "mcause" /\ Line.pc = HandlerPc /\ Reg
    BY <1>12, <1>14 DEF Reg
  <2>2. excs' = Put(excs, Raised(p, k, Line.irq))
    BY <1>8, <1>10, <1>14, <2>1 DEF Srv32Line
  <2> QED BY <2>2 DEF p
<1> QED BY <1>6, <1>12, <1>13, <1>14 DEF Noting

(* Vex shows exceptions in one file.                                       *)
OneFile == config.sim = "vex" => \A m \in DOMAIN log : log[m].k = "exc" => log[m].file = config.file

LEMMA FileBelieved ==
  ASSUME OneFile, config.sim = "vex"
  PROVE  Believed(config.file)
<1> SUFFICES ASSUME NEW i \in 1..3, \E j \in i + 1..3 : VexFiles[j] = config.file
             PROVE  ~Shown(VexFiles[i])
  BY DEF Believed
<1>1. VexFiles[1] = "exc" /\ VexFiles[2] = "log" /\ VexFiles[3] = "dbg"
  BY DEF VexFiles
<1>2. VexFiles[i] # config.file
  <2>1. i = 1 \/ i = 2 \/ i = 3
    OBVIOUS
  <2>2. CASE i = 1
    <3>1. i + 1..3 = {2, 3}
      BY <2>2
    <3> QED BY <1>1, <2>2, <3>1
  <2>3. CASE i = 2
    <3>1. i + 1..3 = {3}
      BY <2>3
    <3> QED BY <1>1, <2>3, <3>1
  <2>4. CASE i = 3
    <3>1. i + 1..3 = {}
      BY <2>4
    <3> QED BY <3>1
  <2> QED BY <2>1, <2>2, <2>3, <2>4
<1> QED BY <1>2 DEF Shown, OneFile

(* An exception line makes an exception of its step; no other line does,   *)
(* but reads of mepc and mcause, on srv32 those of the handler only.       *)
LEMMA ReadsException ==
  ASSUME PairedInv, ReadLine, OneFile, NEW k \in DOMAIN history, Tells(config, Line, history, k)
  PROVE  /\ Line.k = "exc" => \E i : excs' = Put(excs, Raised(history[k].pc, k, i))
         /\ \/ excs' = excs
            \/ \E p, c, i : excs' = Put(excs, Raised(p, c, i)) /\ (config.sim \in ByCycle => c = k)
<1>1. pos < Len(log) /\ pos + 1 \in DOMAIN log
  BY LineRead, LineTold
<1>2. Line.k = "exc" => Line.pc = history[k].pc /\ Line.cause = k /\ (config.sim = "vex" => Believed(Line.file))
  <2> SUFFICES ASSUME Line.k = "exc"
               PROVE  Line.pc = history[k].pc /\ Line.cause = k /\ (config.sim = "vex" => Believed(Line.file))
    OBVIOUS
  <2>1. Line.pc = history[k].pc /\ Line.cause = k /\ (config.sim = "vex" => Line.file = config.file)
    BY DEF Tells, Told, ToldExc
  <2> QED BY <2>1, FileBelieved
<1>3. CASE Line.k = "exc"
  <2>1. \E i : excs' = Put(excs, Raised(Line.pc, Line.cause, i))
    <3>1. CASE RocketRegister \/ RocketFloat \/ RocketStore \/ RocketException \/ SpikeCommit \/ SpikeException
      BY <1>3, <3>1 DEF RocketRegister, RocketFloat, RocketStore, RocketException, SpikeCommit, SpikeException
    <3>2. CASE Cva6Register \/ Cva6Atomic \/ Cva6Store \/ Cva6Exception \/ PicoLine \/ XsCommit \/ XsMemory \/ XsException
      <4>1. Line.reg = None
        BY <1>3 DEF Tells, Told, ToldExc
      <4> QED BY <1>3, <3>2, <4>1
            DEF Cva6Register, Cva6Atomic, Cva6Store, Cva6Exception, PicoLine, XsCommit, XsMemory, XsException, Reg
    <3>3. CASE VexWrite \/ VexException \/ IbexLine \/ KronosLine \/ Srv32Line \/ Ignore
      BY <1>2, <1>3, <3>3 DEF VexWrite, VexException, IbexLine, KronosLine, Srv32Line, Ignore, Reads
    <3>4. CASE BoomInstruction \/ BoomRegister \/ BoomFloat \/ BoomStore \/ BoomException \/ BoomWrite
      BY <1>3, <3>4 DEF BoomInstruction, BoomRegister, BoomFloat, BoomStore, BoomException, BoomWrite
    <3> QED BY <3>1, <3>2, <3>3, <3>4 DEF ReadLine
  <2>2. PICK i : excs' = Put(excs, Raised(history[k].pc, k, i))
    BY <1>2, <1>3, <2>1
  <2> QED BY <2>2
<1>4. CASE Line.k # "exc" /\ BoomRegister
  <2>1. config.sim \notin ByCycle
    BY <1>4 DEF BoomRegister, Reads, ByCycle
  <2>2. excs' = excs \/ excs' = Put(excs, Raised(Noticed(Line.csr).mepc, Noticed(Line.csr).mcause, Line.irq))
    BY <1>4 DEF BoomRegister
  <2> QED BY <1>4, <2>1, <2>2
<1>5. CASE Line.k # "exc" /\ Srv32Line
  <2> DEFINE seen == Noticed(HandlerReads)
             known == seen.mepc # None /\ seen.mcause # None /\ Reg /\ Line.pc = HandlerPc
  <2>1. excs' = IF known THEN Put(excs, Raised(seen.mepc, seen.mcause, Line.irq)) ELSE excs
    BY <1>5 DEF Srv32Line
  <2>2. ASSUME known PROVE seen.mcause = k
    <3>1. HandlerReads = "mcause"
      <4>1. HandlerReads \in {"mepc", "mcause", None}
        BY DEF HandlerReads
      <4>2. HandlerReads # "mepc"
        <5>1. HandlerReads = "mepc" => seen.mcause = None
          BY DEF Noticed
        <5> QED BY <2>2, <5>1
      <4>3. HandlerReads # None
        <5>1. HandlerReads = None => seen = trap
          BY NoneAssumption DEF Noticed
        <5>2. trap.mepc # None => trap.mcause = None
          BY DEF PairedInv, Noted
        <5> QED BY <2>2, <5>1, <5>2
      <4> QED BY <4>1, <4>2, <4>3
    <3>2. Line.reg = "x6" /\ Line.pc = HandlerPc /\ Line.reg # None
      BY <2>2, <3>1, NoneAssumption DEF HandlerReads, Reg
    <3>3. Line.csr = "mcause"
      BY <3>2 DEF Tells, Told, ToldReg
    <3>4. Line.val = k
      BY <3>2, <3>3 DEF Tells
    <3>5. DOMAIN trap = {"mepc", "mcause"}
      BY DEF PairedInv, Noted
    <3>6. seen.mcause = Line.val
      BY <3>1, <3>5 DEF Noticed
    <3> QED BY <3>4, <3>6
  <2> HIDE DEF known, seen
  <2> QED BY <1>5, <2>1, <2>2
<1>6. CASE Line.k # "exc" /\ ~BoomRegister /\ ~Srv32Line
  <2>1. excs' = excs
    <3> USE DEF trace
    <3>1. CASE RocketRegister \/ RocketFloat \/ RocketStore \/ RocketException \/ SpikeCommit \/ SpikeException
      BY <1>6, <3>1 DEF RocketRegister, RocketFloat, RocketStore, RocketException, SpikeCommit, SpikeException
    <3>2. CASE Cva6Register \/ Cva6Atomic \/ Cva6Store \/ Cva6Exception \/ PicoLine \/ XsCommit \/ XsMemory \/ XsException
      BY <1>6, <3>2
         DEF Cva6Register, Cva6Atomic, Cva6Store, Cva6Exception, PicoLine, XsCommit, XsMemory, XsException
    <3>3. CASE VexWrite \/ VexException \/ IbexLine \/ KronosLine \/ Ignore
      BY <1>6, <3>3 DEF VexWrite, VexException, IbexLine, KronosLine, Ignore
    <3>4. CASE BoomInstruction \/ BoomFloat \/ BoomStore \/ BoomException \/ BoomWrite
      BY <1>6, <3>4 DEF BoomInstruction, BoomFloat, BoomStore, BoomException, BoomWrite
    <3> QED BY <1>6, <3>1, <3>2, <3>3, <3>4 DEF ReadLine
  <2> QED BY <1>6, <2>1
<1> QED BY <1>3, <1>4, <1>5, <1>6

-----------------------------------------------------------------------------
(* What the trace holds of the lines read so far: each of its writes comes *)
(* from a line, with the step that the line is about, and each line has    *)
(* left a write at its address, or a later one took its place.             *)
RegsRight ==
  /\ \A w \in regs : /\ w.at \in 1..pos /\ log[w.at].reg # None
                     /\ w.pc = log[w.at].pc /\ w.key = log[w.at].reg /\ w.data = log[w.at].val
  /\ \A m \in 1..pos : log[m].reg # None =>
       \E w \in regs : w.pc = log[m].pc /\ w.key = log[m].reg /\ m <= w.at
MemsFrom(S) ==
  \A w \in mems : /\ w.at \in 1..pos /\ log[w.at].addr # None /\ Writes(history[S[w.at]].op)
                  /\ ~history[S[w.at]].op.fails /\ w.data = Bytes(history, S[w.at])
MemsNamed(S) ==
  /\ \A w \in mems : w.pc = history[S[w.at]].pc
  /\ \A m \in 1..pos : log[m].addr # None /\ ~history[S[m]].op.fails =>
       \E w \in mems : w.pc = history[S[m]].pc /\ (config.sim \in ByCycle => m <= w.at)
ExcsRight(S) ==
  /\ \A x \in excs : x.at \in 1..pos /\ (config.sim \in ByCycle => x.data[1] = S[x.at])
  /\ \A m \in 1..pos :
       Excepted(config, history[S[m]].op) /\ ShowsTrap(config, log, m, history[S[m]].pc, S[m]) =>
         \E x \in excs : x.pc = history[S[m]].pc /\ (config.sim \in ByCycle => m <= x.at)
(* The writers of the first n lines can be told.                           *)
AllNamed(n) == \A m \in 1..n : log[m].k = "mt" => Attributable(m)
ReadRight(S) ==
  RegsRight /\ MemsFrom(S) /\ (AllNamed(pos) => MemsNamed(S)) /\ ExcsRight(S)
ShowInv == WriteInv /\ EpcNoted /\ \E S : NumberedBy(S) /\ ReadRight(S)

LEMMA EntersFacts ==
  ASSUME NEW ws, NEW xs, NEW w, Enters(ws, xs, w)
  PROVE  /\ w \in xs /\ \A v \in xs : v \in ws \/ v = w
         /\ \A v \in ws : v \in xs \/ (v.pc = w.pc /\ v.key = w.key)
BY DEF Enters, Put, Push

LEMMA RegsNext ==
  ASSUME PairedInv, ReadLine, RegsRight
  PROVE  RegsRight'
<1> DEFINE n == pos + 1
<1>1. pos \in Nat /\ pos' = n /\ log' = log
  BY LineRead, LineTold
<1>2. 1..n = 1..pos \cup {n} /\ n \notin 1..pos /\ \A m \in 1..n : m \in Nat /\ m <= n
  BY <1>1
<1>3. IF Line.reg = None THEN regs' = regs ELSE Enters(regs, regs', Write(Line.reg, Line.val))
  BY ReadsRegister
<1> HIDE DEF n
<1>4. CASE Line.reg = None
  BY <1>1, <1>2, <1>3, <1>4 DEF RegsRight, Line, n
<1>5. CASE Line.reg # None
  <2> DEFINE w == Write(Line.reg, Line.val)
  <2>1. w.pc = Line.pc /\ w.key = Line.reg /\ w.data = Line.val /\ w.at = n
    BY DEF Write, n
  <2>2. Enters(regs, regs', w)
    BY <1>3, <1>5
  <2> HIDE DEF w
  <2>3. /\ w \in regs' /\ \A v \in regs' : v \in regs \/ v = w
        /\ \A v \in regs : v \in regs' \/ (v.pc = w.pc /\ v.key = w.key)
    BY <2>2, EntersFacts
  <2>4. Line = log[n]
    BY DEF Line, n
  <2>5. ASSUME NEW v \in regs'
        PROVE  /\ v.at \in 1..n /\ log[v.at].reg # None
               /\ v.pc = log[v.at].pc /\ v.key = log[v.at].reg /\ v.data = log[v.at].val
    BY <1>2, <1>5, <2>1, <2>3, <2>4 DEF RegsRight
  <2>6. ASSUME NEW m \in 1..n, log[m].reg # None
        PROVE  \E v \in regs' : v.pc = log[m].pc /\ v.key = log[m].reg /\ m <= v.at
    <3>1. CASE m = n
      BY <1>2, <2>1, <2>3, <2>4, <3>1
    <3>2. CASE m \in 1..pos
      <4>1. PICK v \in regs : v.pc = log[m].pc /\ v.key = log[m].reg /\ m <= v.at
        BY <2>6, <3>2 DEF RegsRight
      <4> QED BY <1>2, <2>1, <2>3, <4>1
    <3> QED BY <1>2, <3>1, <3>2
  <2> QED BY <1>1, <2>5, <2>6 DEF RegsRight
<1> QED BY <1>4, <1>5

LEMMA MemsNext ==
  ASSUME WriteInv, ReadLine, NEW S, Numbers(config, log, history, S), MemsFrom(S)
  PROVE  MemsFrom(S)'
<1> DEFINE n == pos + 1  k == S[n]
<1>0. PairedInv
  BY DEF WriteInv
<1>1. pos \in Nat /\ pos' = n /\ UNCHANGED <<log, history, config>> /\ n \in DOMAIN log
  BY <1>0, LineRead, LineTold
<1>2. 1..n = 1..pos \cup {n}
  BY <1>1
<1>3. k \in DOMAIN history /\ Line = log[n] /\ Tells(config, Line, history, k)
  BY <1>1 DEF Numbers, Line
<1> HIDE DEF n
<1>4. \A w \in mems : /\ w.at \in 1..n /\ log[w.at].addr # None /\ Writes(history[S[w.at]].op)
                      /\ ~history[S[w.at]].op.fails /\ w.data = Bytes(history, S[w.at])
  BY <1>2 DEF MemsFrom
<1>7. \A w \in mems' : w \in mems \/ (/\ w.at = n /\ Line.addr # None /\ ~history[k].op.fails
                                      /\ w.data = Bytes(history, k))
  <2>1. CASE config.sim # "boom"
    <3> DEFINE w == Write(Line.addr, Bytes(history, k))
    <3>1. w.at = n /\ w.data = Bytes(history, k)
      BY DEF Write, n
    <3>2. \/ mems' = mems
          \/ Line.addr # None /\ Enters(mems, mems', w)
      BY <1>0, <1>3, <2>1, ReadsStore
    <3> HIDE DEF w
    <3>3. History(config, history)
      BY <1>0 DEF PairedInv, PrintingInv, Printing
    <3>4. ~history[k].op.fails
      BY <1>3, <2>1, <3>3, StepTyped
    <3> QED BY <3>1, <3>2, <3>4, EntersFacts
  <2>2. CASE config.sim = "boom"
    <3>1. \/ mems' = mems
          \/ /\ Line.addr # None /\ ~history[k].op.fails
             /\ \E p : Enters(mems, mems', [Write(Line.addr, Bytes(history, k)) EXCEPT !.pc = p])
      BY <1>3, <2>2, BoomReadsStore
    <3>2. CASE mems' = mems
      BY <3>2
    <3>3. ASSUME NEW p, Line.addr # None, ~history[k].op.fails,
                 Enters(mems, mems', [Write(Line.addr, Bytes(history, k)) EXCEPT !.pc = p])
          PROVE  \A w \in mems' : w \in mems \/ (w.at = n /\ w.data = Bytes(history, k))
      <4> DEFINE w == [Write(Line.addr, Bytes(history, k)) EXCEPT !.pc = p]
      <4>1. w.at = n /\ w.data = Bytes(history, k)
        BY DEF Write, n
      <4>2. Enters(mems, mems', w)
        BY <3>3
      <4> HIDE DEF w
      <4> QED BY <4>1, <4>2, EntersFacts
    <3> QED BY <3>1, <3>2, <3>3
  <2> QED BY <2>1, <2>2
<1>8. Line.addr # None => Writes(history[k].op)
  BY <1>3 DEF Tells, Told, ToldStore
<1>9. \A w \in mems' : /\ w.at \in 1..n /\ log[w.at].addr # None /\ Writes(history[S[w.at]].op)
                       /\ ~history[S[w.at]].op.fails /\ w.data = Bytes(history, S[w.at])
  BY <1>2, <1>3, <1>4, <1>7, <1>8
<1> QED BY <1>1, <1>9 DEF MemsFrom, Writes, Bytes, Covered

(* The addresses of the stores, given that what can be attributed is.      *)
LEMMA NamedNext ==
  ASSUME WriteInv, ReadLine, NEW S, Numbers(config, log, history, S), MemsNamed(S),
         Line.k = "mt" => Attributable(pos + 1),
         config.sim = "boom" => \A w \in mems' : Attributable(w.at) => MemRight(w, history)
  PROVE  MemsNamed(S)'
<1> DEFINE n == pos + 1  k == S[n]  p == history[k].pc
<1>0. PairedInv
  BY DEF WriteInv
<1>1. pos \in Nat /\ pos' = n /\ UNCHANGED <<log, history, config>> /\ n \in DOMAIN log
  BY <1>0, LineRead, LineTold
<1>2. 1..n = 1..pos \cup {n} /\ \A m \in 1..n : m \in Nat /\ m <= n
  BY <1>1
<1>3. k \in DOMAIN history /\ Line = log[n] /\ Tells(config, Line, history, k) /\ History(config, history)
  BY <1>0, <1>1 DEF Numbers, Line, PairedInv, PrintingInv, Printing
<1>8. Line.addr # None => Attributable(n)
  <2>1. Line.addr # None /\ Line.k # "mt" => Line.pc # HandlerPc
    <3>1. Line.addr # None /\ Line.k # "mt" => Line.pc = p
      BY <1>3 DEF Tells, Told, ToldStore
    <3> QED BY <1>3, <3>1, StepTyped
  <2> QED BY <1>3, <2>1 DEF Attributable
<1> HIDE DEF n
<1>4. \/ mems' = mems /\ (Line.addr = None \/ history[k].op.fails)
      \/ mems' = mems /\ config.sim \notin ByCycle /\ \E v \in mems : v.pc = p
      \/ \E w : Enters(mems, mems', w) /\ w.at = n /\ w.pc = p
  <2>1. CASE config.sim # "boom"
    <3> DEFINE w == Write(Line.addr, Bytes(history, k))
    <3>1. w.at = n /\ w.pc = Line.pc
      BY DEF Write, n
    <3>2. \/ mems' = mems /\ Line.addr = None
          \/ Line.addr # None /\ Enters(mems, mems', w)
          \/ Line.addr # None /\ config.sim = "xiangshan" /\ mems' = mems /\ \E v \in mems : v.pc = w.pc
      BY <1>0, <1>3, <2>1, ReadsStore
    <3> HIDE DEF w
    <3>3. Line.addr # None => Line.pc = p
      BY <1>3, <2>1 DEF Tells, Told, ToldStore, ToldBoom
    <3> QED BY <3>1, <3>2, <3>3 DEF ByCycle
  <2>2. CASE config.sim = "boom"
    <3>1. \/ mems' = mems /\ (Line.addr = None \/ history[k].op.fails)
          \/ /\ Line.addr # None
             /\ \E q : Enters(mems, mems', [Write(Line.addr, Bytes(history, k)) EXCEPT !.pc = q])
      BY <1>3, <1>8, <2>2, BoomReadsStore DEF n
    <3>2. ASSUME NEW q, Line.addr # None,
                 Enters(mems, mems', [Write(Line.addr, Bytes(history, k)) EXCEPT !.pc = q])
          PROVE  \E w : Enters(mems, mems', w) /\ w.at = n /\ w.pc = p
      <4> DEFINE w == [Write(Line.addr, Bytes(history, k)) EXCEPT !.pc = q]
      <4>1. w.at = n /\ w.data = Bytes(history, k)
        BY DEF Write, n
      <4>2. Enters(mems, mems', w)
        BY <3>2
      <4> HIDE DEF w
      <4>3. MemRight(w, history)
        <5>1. w \in mems'
          BY <4>2, EntersFacts
        <5> QED BY <1>8, <2>2, <3>2, <4>1, <5>1
      <4> DEFINE op == history[k].op
      <4>4. op \in Operations /\ Proper(op) /\ op.addr # None
        <5>1. Writes(op)
          BY <1>3, <3>2 DEF Tells, Told, ToldStore
        <5> QED BY <1>3, <5>1, StepTyped DEF Writes
      <4>5. op.addr \in Covered(op)
        BY <4>4, CoveredBlock
      <4>6. op.addr \in DOMAIN w.data /\ w.data[op.addr][1] = k
        BY <4>1, <4>5 DEF Bytes
      <4>7. w.pc = p
        BY <4>3, <4>6 DEF MemRight
      <4> QED BY <4>1, <4>2, <4>7
    <3> QED BY <3>1, <3>2
  <2> QED BY <2>1, <2>2
<1>5. CASE mems' = mems /\ (Line.addr = None \/ history[k].op.fails)
  BY <1>1, <1>2, <1>3, <1>5 DEF MemsNamed
<1>6. CASE mems' = mems /\ config.sim \notin ByCycle /\ \E v \in mems : v.pc = p
  BY <1>1, <1>2, <1>3, <1>6 DEF MemsNamed
<1>7. ASSUME NEW w, Enters(mems, mems', w), w.at = n, w.pc = p PROVE MemsNamed(S)'
  <2>1. /\ w \in mems' /\ \A v \in mems' : v \in mems \/ v = w
        /\ \A v \in mems : v \in mems' \/ (v.pc = w.pc /\ v.key = w.key)
    BY <1>7, EntersFacts
  <2>2. \A v \in mems' : v.pc = history[S[v.at]].pc
    BY <1>7, <2>1 DEF MemsNamed
  <2>3. ASSUME NEW m \in 1..n, log[m].addr # None, ~history[S[m]].op.fails
        PROVE  \E v \in mems' : v.pc = history[S[m]].pc /\ (config.sim \in ByCycle => m <= v.at)
    <3>1. CASE m = n
      BY <1>2, <1>7, <2>1, <3>1
    <3>2. CASE m \in 1..pos
      <4>1. PICK v \in mems : v.pc = history[S[m]].pc /\ (config.sim \in ByCycle => m <= v.at)
        BY <2>3, <3>2 DEF MemsNamed
      <4> QED BY <1>2, <1>7, <2>1, <4>1
    <3> QED BY <1>2, <3>1, <3>2
  <2> QED BY <1>1, <2>2, <2>3 DEF MemsNamed
<1> QED BY <1>4, <1>5, <1>6, <1>7

LEMMA ExcsNext ==
  ASSUME PairedInv, EpcNoted, ReadLine, NEW S, Numbers(config, log, history, S), ExcsRight(S)
  PROVE  ExcsRight(S)'
<1> DEFINE n == pos + 1  k == S[n]  p == history[k].pc
<1>1. pos \in Nat /\ pos' = n /\ UNCHANGED <<log, history, config>> /\ n \in DOMAIN log
  BY LineRead, LineTold
<1>2. 1..n = 1..pos \cup {n} /\ \A m \in 1..n : m \in Nat /\ m <= n
  BY <1>1
<1>3. k \in DOMAIN history /\ Line = log[n] /\ Tells(config, Line, history, k)
  BY <1>1 DEF Numbers, Line
<1>4. OneFile
  BY DEF Numbers, OneFile, Tells, Told, ToldExc
<1>5. ShowsTrap(config, log, n, p, k) => \E i : excs' = Put(excs, Raised(p, k, i))
  <2>1. CASE Unshown(config)
    BY <1>3, <2>1, ReadsTrap
  <2>2. CASE ~Unshown(config)
    <3>1. ShowsTrap(config, log, n, p, k) => Line.k = "exc"
      BY <1>3, <2>2 DEF ShowsTrap
    <3> QED BY <1>3, <1>4, <3>1, ReadsException
  <2> QED BY <2>1, <2>2
<1>6. \/ excs' = excs
      \/ \E q, c, i : excs' = Put(excs, Raised(q, c, i)) /\ (config.sim \in ByCycle => c = k)
  BY <1>3, <1>4, ReadsException
<1> HIDE DEF n
<1>7. \A q, c, i : LET x == Raised(q, c, i) IN
        x.pc = q /\ x.key = None /\ x.data[1] = c /\ x.at = n
  BY DEF Raised, n
<1>8. \A x \in excs' : x.at \in 1..n /\ (config.sim \in ByCycle => x.data[1] = S[x.at])
  <2>1. CASE excs' = excs
    BY <1>2, <2>1 DEF ExcsRight
  <2>2. ASSUME NEW q, NEW c, NEW i, excs' = Put(excs, Raised(q, c, i)), config.sim \in ByCycle => c = k,
               NEW x \in excs'
        PROVE  x.at \in 1..n /\ (config.sim \in ByCycle => x.data[1] = S[x.at])
    <3> DEFINE w == Raised(q, c, i)
    <3>1. w.data[1] = c /\ w.at = n
      BY <1>7
    <3>2. x \in excs \/ x = w
      BY <2>2 DEF Put
    <3> HIDE DEF w
    <3> QED BY <1>2, <2>2, <3>1, <3>2 DEF ExcsRight
  <2> QED BY <1>6, <2>1, <2>2
<1>9. ASSUME NEW m \in 1..n, Excepted(config, history[S[m]].op), ShowsTrap(config, log, m, history[S[m]].pc, S[m])
      PROVE  \E x \in excs' : x.pc = history[S[m]].pc /\ (config.sim \in ByCycle => m <= x.at)
  <2>1. CASE m = n
    <3>1. PICK i : excs' = Put(excs, Raised(p, k, i))
      BY <1>5, <1>9, <2>1
    <3> DEFINE w == Raised(p, k, i)
    <3>2. w.pc = p /\ w.at = n /\ w \in excs'
      BY <1>7, <3>1 DEF Put
    <3> HIDE DEF w
    <3> QED BY <1>2, <2>1, <3>2
  <2>2. CASE m \in 1..pos
    <3>1. PICK v \in excs : v.pc = history[S[m]].pc /\ (config.sim \in ByCycle => m <= v.at)
      BY <1>9, <2>2 DEF ExcsRight
    <3>2. CASE excs' = excs
      BY <3>1, <3>2
    <3>3. ASSUME NEW q, NEW c, NEW i, excs' = Put(excs, Raised(q, c, i))
          PROVE  \E x \in excs' : x.pc = history[S[m]].pc /\ (config.sim \in ByCycle => m <= x.at)
      <4> DEFINE w == Raised(q, c, i)
      <4>1. w.at = n
        BY <1>7
      <4>2. Enters(excs, excs', w)
        BY <3>3 DEF Enters
      <4> HIDE DEF w
      <4>3. w \in excs' /\ (v \in excs' \/ v.pc = w.pc)
        BY <4>2, EntersFacts
      <4> QED BY <1>2, <3>1, <4>1, <4>3
    <3> QED BY <1>6, <3>2, <3>3
  <2> QED BY <1>2, <2>1, <2>2
<1> QED BY <1>1, <1>8, <1>9 DEF ExcsRight, Excepted

-----------------------------------------------------------------------------
LEMMA ShowInit == Init => ShowInv
<1> SUFFICES ASSUME Init PROVE ShowInv
  OBVIOUS
<1>1. WriteInv
  BY WriteInit
<1>2. log = <<>> /\ history = <<>> /\ pos = 0 /\ regs = {} /\ mems = {} /\ excs = {}
  BY DEF Init
<1>3. DOMAIN log = {} /\ DOMAIN history = {}
  BY <1>2
<1> DEFINE S == [m \in {} |-> 0]
<1>4. S \in [DOMAIN log -> DOMAIN history]
  BY <1>3
<1> HIDE DEF S
<1>5. NumberedBy(S)
  BY <1>3, <1>4 DEF NumberedBy, Numbers, Whole
<1>6. 1..pos = {}
  BY <1>2
<1>7. ReadRight(S)
  BY <1>2, <1>6 DEF ReadRight, RegsRight, MemsFrom, MemsNamed, ExcsRight
<1>8. EpcNoted
  BY <1>2 DEF EpcNoted
<1> QED BY <1>1, <1>5, <1>7, <1>8 DEF ShowInv

LEMMA ShowNext ==
  ASSUME ShowInv, [Next]_vars
  PROVE  ShowInv'
<1>1. WriteInv /\ WriteInv' /\ PairedInv /\ Printing
  BY WriteNext DEF ShowInv, WriteInv, PairedInv, PrintingInv
<1>2. PICK S : NumberedBy(S) /\ ReadRight(S)
  BY DEF ShowInv
<1>3. CASE Execute \/ PrintWrite \/ PrintNoise
  <2>1. pos' = 0 /\ regs' = {} /\ mems' = {} /\ excs' = {}
    BY <1>1, <1>3 DEF Execute, PrintWrite, PrintNoise, PairedInv, PrintingInv, ReadersIdle, trace
  <2>2. PICK T : NumberedBy(T)'
    BY <1>1, <1>2, <1>3, ExecuteNumbers, PrintWriteNumbers, PrintNoiseNumbers
  <2>3. 1..pos' = {}
    BY <2>1
  <2>4. ReadRight(T)'
    BY <2>1, <2>3 DEF ReadRight, RegsRight, MemsFrom, MemsNamed, ExcsRight
  <2>5. EpcNoted'
    BY <2>1 DEF EpcNoted
  <2> QED BY <1>1, <2>2, <2>4, <2>5 DEF ShowInv
<1>4. CASE ReadLine
  <2>1. UNCHANGED <<config, history, store, log>>
    BY <1>4, LineRead
  <2>2. NumberedBy(S)'
    BY <1>2, <2>1 DEF NumberedBy
  <2>3. EpcNoted'
    BY <1>1, <1>4, EpcNext
  <2>4. RegsRight' /\ MemsFrom(S)' /\ ExcsRight(S)'
    BY <1>1, <1>2, <1>4, RegsNext, MemsNext, ExcsNext DEF NumberedBy, ReadRight, ShowInv
  <2>5. ASSUME AllNamed(pos)' PROVE MemsNamed(S)'
    <3>1. \A m : Attributable(m)' <=> Attributable(m)
      <4>1. \A m : Clear(m)' <=> Clear(m)
        BY <2>1, SameSaid
      <4> QED BY <2>1, <4>1 DEF Attributable
    <3>2. pos \in Nat /\ pos' = pos + 1
      BY <1>1, <1>4, LineRead, LineTold
    <3>3. \A m \in 1..pos + 1 : log[m].k = "mt" => Attributable(m)
      BY <2>1, <2>5, <3>1, <3>2 DEF AllNamed
    <3>4. AllNamed(pos) /\ (Line.k = "mt" => Attributable(pos + 1))
      BY <3>2, <3>3 DEF AllNamed, Line
    <3>5. config.sim = "boom" => \A w \in mems' : Attributable(w.at) => MemRight(w, history)
      <4>1. config.sim = "boom" => MemsRight(pos)'
        BY <1>1, <2>1 DEF WriteInv, Reading
      <4> QED BY <2>1, <3>1, <4>1 DEF MemsRight, MemRight, Writes
    <3> QED BY <1>1, <1>2, <1>4, <3>4, <3>5, NamedNext DEF NumberedBy, ReadRight
  <2> QED BY <1>1, <2>2, <2>3, <2>4, <2>5 DEF ShowInv, ReadRight
<1>5. CASE Exit \/ EndOfLog \/ MapLine \/ MapFails \/ Build \/ UNCHANGED vars
  <2>1. UNCHANGED <<config, history, store, log, pos, regs, mems, excs, trap>>
    BY <1>5 DEF Exit, EndOfLog, MapLine, MapFails, Build, vars, trace
  <2>2. NumberedBy(S)'
    BY <1>2, <2>1 DEF NumberedBy
  <2>3. EpcNoted'
    BY <2>1 DEF ShowInv, EpcNoted
  <2>4. ReadRight(S)'
    <3>1. RegsRight'
      BY <1>2, <2>1 DEF ReadRight, RegsRight
    <3>2. MemsFrom(S)'
      BY <1>2, <2>1 DEF ReadRight, MemsFrom, Writes, Bytes, Covered
    <3>3. AllNamed(pos)' => MemsNamed(S)'
      <4>1. \A m : Attributable(m)' <=> Attributable(m)
        <5>1. \A m : Clear(m)' <=> Clear(m)
          BY <2>1, SameSaid
        <5> QED BY <2>1, <5>1 DEF Attributable
      <4>2. AllNamed(pos)' <=> AllNamed(pos)
        BY <2>1, <4>1 DEF AllNamed
      <4> QED BY <1>2, <2>1, <4>2 DEF ReadRight, MemsNamed
    <3>4. ExcsRight(S)'
      BY <1>2, <2>1 DEF ReadRight, ExcsRight
    <3> QED BY <3>1, <3>2, <3>3, <3>4 DEF ReadRight
  <2> QED BY <1>1, <2>2, <2>3, <2>4 DEF ShowInv
<1> QED BY <1>3, <1>4, <1>5 DEF Next

-----------------------------------------------------------------------------
(* The merge of what the addresses of an instruction wrote.                *)

LEMMA LargestNumber ==
  ASSUME NEW n \in Nat, NEW T \in SUBSET (1..n), T # {}
  PROVE  Max(T) \in T /\ \A j \in T : j <= Max(T)
<1>1. \E m \in T : \A j \in T : m >= j
  <2> DEFINE Bounds == {b \in Nat : \A j \in T : j <= b}
  <2>1. n \in Bounds
    OBVIOUS
  <2>2. PICK b \in Bounds : \A c \in Bounds : b <= c
    <3> HIDE DEF Bounds
    <3> QED BY <2>1, LeastNumber DEF Bounds
  <2>3. b \in T
    <3> SUFFICES ASSUME b \notin T PROVE FALSE
      OBVIOUS
    <3>1. PICK j \in T : TRUE
      OBVIOUS
    <3>2. b - 1 \in Bounds
      BY <2>2, <3>1
    <3> QED BY <2>2, <3>2
  <2> QED BY <2>2, <2>3
<1>2. \A j \in T : j \in Nat
  OBVIOUS
<1> QED BY <1>1, <1>2 DEF Max

(* Writes of steps in the order that the executor merges by, some of which *)
(* are of the last step of a set.                                          *)
Dated(ws, n) == \A w \in ws : w.at \in 1..n /\ w.pc \in Nat
Reaches(ws, f, E) == \A k \in E : \E w \in ws : k <= f[w]
Ordered(ws, f) ==
  IF config.sim \in ByCycle THEN \A o, w \in ws : o.at <= w.at => f[o] <= f[w]
  ELSE \A o, w \in ws : o.pc <= w.pc <=> f[o] <= f[w]
Mergeable(ws, f, E, n, m) ==
  /\ config.sim \in Simulators /\ n \in Nat /\ E \in SUBSET (1..m) /\ m \in Nat /\ f \in [ws -> E]
  /\ Dated(ws, n) /\ Reaches(ws, f, E) /\ Ordered(ws, f)
Last(ws, f, E) == IF E = {} THEN ws = {} ELSE ws # {} /\ \A w \in ws : f[w] = Max(E)

LEMMA MergeRight ==
  ASSUME NEW ws, NEW f, NEW E, NEW N, NEW n, Mergeable(ws, f, E, N, n)
  PROVE  Last(Merge(ws), f, E)
<1> DEFINE Out == IF config.sim \in ByCycle THEN Latest(ws)
                  ELSE IF config.sim = "xiangshan" THEN First(Highest(ws)) ELSE Highest(ws)
<1> SUFFICES ASSUME config.sim \in Simulators, N \in Nat, E \in SUBSET (1..n), n \in Nat, f \in [ws -> E],
                    Dated(ws, N), Reaches(ws, f, E), Ordered(ws, f)
             PROVE  /\ E = {} => Merge(ws) = {}
                    /\ E # {} => Merge(ws) # {} /\ \A w \in Merge(ws) : f[w] = Max(E)
  BY DEF Mergeable, Last
<1> USE DEF Dated, Reaches, Ordered
<1>1. Merge(ws) = Out
  BY DEF Merge, Simulators, ByCycle, RocketMerge, BoomMerge, SpikeMerge, Cva6Merge, PicoMerge, XsMerge,
     VexMerge, IbexMerge, KronosMerge, Srv32Merge
<1>2. Out \subseteq ws
  BY DEF Latest, Highest, First
<1>3. CASE E = {}
  <2>1. ws = {}
    BY <1>3
  <2> QED BY <1>1, <1>2, <1>3, <2>1
<1>4. CASE E # {}
  <2> DEFINE M == Max(E)
  <2>1. M \in E /\ \A k \in E : k <= M
    BY <1>4, LargestNumber
  <2> HIDE DEF M
  <2>2. \A w \in ws : f[w] \in E /\ f[w] \in Nat
    <3>1. \A w \in ws : f[w] \in E
      OBVIOUS
    <3>2. \A k \in E : k \in Nat
      OBVIOUS
    <3> QED BY <3>1, <3>2
  <2> DEFINE V == {w \in ws : f[w] = M}
  <2>3. V # {}
    <3>1. PICK w \in ws : M <= f[w]
      BY <2>1
    <3>2. f[w] = M
      BY <2>1, <2>2, <3>1
    <3> QED BY <3>2
  <2>4. CASE config.sim \in ByCycle
    <3>1. ASSUME NEW w \in Latest(ws) PROVE f[w] = M
      <4>1. w \in ws /\ \A o \in ws : o.at <= w.at
        BY <3>1 DEF Latest
      <4>2. PICK v \in V : TRUE
        BY <2>3
      <4>3. M <= f[w]
        BY <2>4, <4>1, <4>2
      <4> QED BY <2>1, <2>2, <4>1, <4>3
    <3>2. Latest(ws) # {}
      <4> DEFINE T == {w.at : w \in ws}
      <4>1. T \in SUBSET (1..N) /\ T # {}
        BY <2>3
      <4>2. Max(T) \in T /\ \A t \in T : t <= Max(T)
        <5> HIDE DEF T
        <5> QED BY <4>1, LargestNumber
      <4>3. PICK w \in ws : w.at = Max(T)
        BY <4>2
      <4>4. \A o \in ws : o.at <= w.at
        <5>1. \A o \in ws : o.at \in T
          OBVIOUS
        <5> HIDE DEF T
        <5> QED BY <4>2, <4>3, <5>1
      <4> QED BY <4>4 DEF Latest
    <3> HIDE DEF V
    <3> QED BY <1>1, <1>4, <2>4, <3>1, <3>2 DEF M
  <2>5. CASE config.sim \notin ByCycle
    <3>1. \A w \in Highest(ws) : f[w] = M
      <4> SUFFICES ASSUME NEW w \in Highest(ws) PROVE f[w] = M
        OBVIOUS
      <4>1. w \in ws /\ \A o \in ws : o.pc <= w.pc
        BY DEF Highest
      <4>2. PICK v \in V : TRUE
        BY <2>3
      <4>3. M <= f[w]
        BY <2>5, <4>1, <4>2
      <4> QED BY <2>1, <2>2, <4>1, <4>3
    <3>2. V \subseteq Highest(ws)
      <4> SUFFICES ASSUME NEW w \in V, NEW o \in ws PROVE o.pc <= w.pc
        BY DEF Highest
      <4>1. f[o] <= f[w]
        BY <2>1, <2>2
      <4> QED BY <2>5, <4>1
    <3>3. First(Highest(ws)) # {}
      <4> DEFINE H == Highest(ws)  T == {w.at : w \in H}
      <4>1. H \subseteq ws /\ H # {}
        BY <2>3, <3>2 DEF Highest
      <4> HIDE DEF H
      <4>2. T \in SUBSET Nat /\ T # {}
        BY <4>1
      <4>3. PICK t \in T : \A u \in T : t <= u
        <5> HIDE DEF T
        <5> QED BY <4>2, LeastNumber
      <4>4. PICK w \in H : w.at = t
        OBVIOUS
      <4>5. \A o \in H : w.at <= o.at
        <5>1. \A o \in H : o.at \in T
          OBVIOUS
        <5> HIDE DEF T
        <5> QED BY <4>3, <4>4, <5>1
      <4> QED BY <4>5 DEF First, H
    <3>4. First(Highest(ws)) \subseteq Highest(ws)
      BY DEF First
    <3>5. Highest(ws) # {}
      BY <2>3, <3>2
    <3> HIDE DEF V
    <3> QED BY <1>1, <1>4, <2>5, <3>1, <3>3, <3>4, <3>5 DEF M
  <2> QED BY <2>4, <2>5
<1> QED BY <1>3, <1>4

-----------------------------------------------------------------------------
(* The outputs when all was printed and read.                              *)
AllShown(S) ==
  /\ PairedInv /\ NumberedBy(S) /\ ReadRight(S) /\ store = <<>> /\ pos = Len(log)
  /\ config.sim \in ByCycle \/ Ascending

(* Addresses that go upwards tell the steps apart.                         *)
LEMMA AscendingOrder ==
  ASSUME History(config, history), Ascending, NEW j \in DOMAIN history, NEW k \in DOMAIN history
  PROVE  j <= k <=> history[j].pc <= history[k].pc
<1> DEFINE h == history
           T == {d \in Nat : \A m \in DOMAIN h : m + (d + 1) \in DOMAIN h => h[m].pc < h[m + (d + 1)].pc}
<1>1. Len(h) \in Nat /\ DOMAIN h = 1..Len(h) /\ \A m \in DOMAIN h : h[m].pc \in Nat
  BY StepTyped DEF History
<1>2. \A m \in DOMAIN h : m + 1 \in DOMAIN h => h[m].pc < h[m + 1].pc
  BY <1>1 DEF Ascending, Executed
<1> HIDE DEF h
<1>3. 0 \in T
  BY <1>2
<1>4. ASSUME NEW d \in Nat, d \in T PROVE d + 1 \in T
  <2> SUFFICES ASSUME NEW m \in DOMAIN h, m + ((d + 1) + 1) \in DOMAIN h
               PROVE  h[m].pc < h[m + ((d + 1) + 1)].pc
    OBVIOUS
  <2>1. m + (d + 1) \in DOMAIN h /\ (m + (d + 1)) + 1 = m + ((d + 1) + 1)
    BY <1>1
  <2>2. h[m].pc < h[m + (d + 1)].pc
    BY <1>4, <2>1
  <2>3. h[m + (d + 1)].pc < h[(m + (d + 1)) + 1].pc
    BY <1>2, <2>1
  <2> QED BY <1>1, <2>1, <2>2, <2>3
<1>5. \A d \in Nat : d \in T
  <2> HIDE DEF T
  <2> QED BY <1>3, <1>4, Induction
<1>6. ASSUME NEW a \in DOMAIN h, NEW b \in DOMAIN h, a < b PROVE h[a].pc < h[b].pc
  <2>1. b - a - 1 \in Nat /\ a + ((b - a - 1) + 1) = b
    BY <1>1, <1>6
  <2>2. b - a - 1 \in T
    BY <1>5, <2>1
  <2> QED BY <2>1, <2>2
<1>7. j \in Nat /\ k \in Nat /\ h[j].pc \in Nat /\ h[k].pc \in Nat /\ j \in DOMAIN h /\ k \in DOMAIN h
  BY <1>1 DEF h
<1>8. (j < k => h[j].pc < h[k].pc) /\ (k < j => h[k].pc < h[j].pc)
  BY <1>6, <1>7
<1> QED BY <1>7, <1>8 DEF h

(* Writes of an instruction, each of a step of the set E, that leave out   *)
(* none of its steps but for a later one, come to the last.                *)
LEMMA LastShown ==
  ASSUME NEW S, AllShown(S), NEW E \in SUBSET DOMAIN history, NEW ws, NEW f \in [ws -> E],
         \A w \in ws : w.at \in 1..pos /\ w.pc = history[f[w]].pc,
         \A k \in E : \E w \in ws : w.pc = history[k].pc /\ (config.sim \in ByCycle => k <= f[w]),
         config.sim \in ByCycle => \A w \in ws : f[w] = S[w.at]
  PROVE  Last(Merge(ws), f, E)
<1>1. /\ History(config, history) /\ Len(history) \in Nat /\ DOMAIN history = 1..Len(history)
      /\ \A k \in DOMAIN history : history[k].pc \in Nat
  <2>1. History(config, history)
    BY DEF AllShown, PairedInv, PrintingInv, Printing
  <2> QED BY <2>1, StepTyped DEF History
<1>2. config.sim \in Simulators
  BY <1>1, ConfigsAssumption DEF History, Runnable
<1>3. pos \in Nat /\ DOMAIN log = 1..pos
  <2>1. IsLog(log)
    BY DEF AllShown, PairedInv, PrintingInv, Printing, Good
  <2> QED BY <2>1, LogFacts DEF AllShown
<1>4. \A w \in ws : f[w] \in E /\ f[w] \in DOMAIN history
  OBVIOUS
<1>5. Dated(ws, pos)
  BY <1>1, <1>4 DEF Dated
<1>6. E \in SUBSET (1..Len(history))
  BY <1>1
<1>7. Ordered(ws, f) /\ Reaches(ws, f, E)
  <2>1. CASE config.sim \in ByCycle
    <3>1. config.sim # "boom"
      BY <2>1 DEF ByCycle
    <3>2. \A a, b \in DOMAIN log : a <= b => S[a] <= S[b]
      BY <3>1 DEF AllShown, NumberedBy, Numbers
    <3>3. \A o, w \in ws : o.at <= w.at => f[o] <= f[w]
      BY <1>3, <2>1, <3>2
    <3> QED BY <2>1, <3>3 DEF Ordered, Reaches
  <2>2. CASE config.sim \notin ByCycle
    <3>1. Ascending
      BY <2>2 DEF AllShown
    <3>2. \A j, m \in DOMAIN history : j <= m <=> history[j].pc <= history[m].pc
      BY <1>1, <3>1, AscendingOrder
    <3>3. \A o, w \in ws : o.pc <= w.pc <=> f[o] <= f[w]
      BY <1>4, <3>2
    <3>4. ASSUME NEW j \in E PROVE \E w \in ws : j <= f[w]
      <4>1. PICK w \in ws : w.pc = history[j].pc
        OBVIOUS
      <4>2. history[f[w]].pc = history[j].pc /\ f[w] \in DOMAIN history /\ j \in DOMAIN history
        BY <1>4, <4>1
      <4>3. history[j].pc <= history[f[w]].pc
        BY <1>1, <4>2
      <4> QED BY <3>2, <4>2, <4>3
    <3> QED BY <2>2, <3>3, <3>4 DEF Ordered, Reaches
  <2> QED BY <2>1, <2>2
<1>8. Mergeable(ws, f, E, pos, Len(history))
  BY <1>1, <1>2, <1>3, <1>5, <1>6, <1>7 DEF Mergeable
<1> QED BY <1>8, MergeRight

LEMMA MergeSubset ==
  ASSUME NEW S, AllShown(S), NEW ws
  PROVE  Merge(ws) \subseteq ws
<1>1. config.sim \in Simulators
  BY ConfigsAssumption DEF AllShown, PairedInv, PrintingInv, Printing, History, Runnable
<1> QED BY <1>1 DEF Simulators, Merge, RocketMerge, BoomMerge, SpikeMerge, Cva6Merge, PicoMerge, XsMerge,
     VexMerge, IbexMerge, KronosMerge, Srv32Merge, Latest, Highest, First

(* What AllShown says of the history and the log.                          *)
LEMMA ShownFacts ==
  ASSUME NEW S, AllShown(S)
  PROVE  /\ History(config, history) /\ DOMAIN history = 1..Executed /\ IsLog(log)
         /\ pos \in Nat /\ DOMAIN log = 1..pos
         /\ \A m \in 1..pos : S[m] \in DOMAIN history /\ Tells(config, log[m], history, S[m])
         /\ config.sim \in ByCycle => \A a, b \in 1..pos : a <= b => S[a] <= S[b]
<1>1. History(config, history) /\ IsLog(log) /\ pos = Len(log)
  BY DEF AllShown, PairedInv, PrintingInv, Printing, Good
<1>2. Numbers(config, log, history, S)
  BY DEF AllShown, NumberedBy
<1>3. DOMAIN log = 1..Len(log) /\ Len(log) \in Nat
  BY <1>1, LogFacts
<1>4. DOMAIN history = 1..Executed
  BY <1>1 DEF History, Executed
<1>5. config.sim \in ByCycle => config.sim # "boom"
  BY DEF ByCycle
<1> QED BY <1>1, <1>2, <1>3, <1>4, <1>5 DEF Numbers

LEMMA RegsShown ==
  ASSUME NEW S, AllShown(S), NEW i, PcsOf(i) = config.expansion[i], HandlerPc \notin PcsOf(i),
         NEW r \in Registers
  PROVE  {w.data : w \in Merge({o \in At(regs, i) : o.key = r})} = TrueReg(i, r)
<1> DEFINE ws == {o \in At(regs, i) : o.key = r}
           E == {j \in Steps(i) : history[j].op.reg = r /\ ~history[j].op.traps}
           f == [w \in ws |-> S[w.at]]
<1>1. /\ History(config, history) /\ DOMAIN history = 1..Executed /\ IsLog(log)
      /\ pos \in Nat /\ DOMAIN log = 1..pos
      /\ \A m \in 1..pos : S[m] \in DOMAIN history /\ Tells(config, log[m], history, S[m])
      /\ config.sim \in ByCycle => \A a, b \in 1..pos : a <= b => S[a] <= S[b]
  BY ShownFacts
<1>2. r # None
  BY NoneAssumption DEF Registers
<1>3. /\ \A w \in regs : /\ w.at \in 1..pos /\ log[w.at].reg # None
                         /\ w.pc = log[w.at].pc /\ w.key = log[w.at].reg /\ w.data = log[w.at].val
      /\ \A m \in 1..pos : log[m].reg # None =>
           \E w \in regs : w.pc = log[m].pc /\ w.key = log[m].reg /\ m <= w.at
  BY DEF AllShown, ReadRight, RegsRight
<1>4. ASSUME NEW w \in ws
      PROVE  /\ w.at \in 1..pos /\ S[w.at] \in E /\ w.pc = history[S[w.at]].pc
             /\ w.data = Value(history, S[w.at])
  <2> DEFINE m == w.at  k == S[m]  l == log[m]
  <2>1. m \in 1..pos /\ l.reg = r /\ l.pc = w.pc /\ w.data = l.val /\ w.pc \in PcsOf(i)
    BY <1>3 DEF At
  <2>2. k \in DOMAIN history /\ Tells(config, l, history, k)
    BY <1>1, <2>1
  <2> HIDE DEF l, k, ws
  <2>3. l.pc = history[k].pc /\ l.reg = history[k].op.reg /\ l.val = Value(history, k)
    BY <1>2, <2>1, <2>2 DEF Tells, Told, ToldReg
  <2>4. ~history[k].op.traps
    <3>1. Proper(history[k].op)
      BY <1>1, <2>2, StepTyped
    <3> QED BY <1>2, <2>1, <2>3, <3>1 DEF Proper
  <2>5. k \in Steps(i)
    BY <1>1, <2>1, <2>2, <2>3 DEF Steps
  <2> QED BY <2>1, <2>3, <2>4, <2>5 DEF k
<1>5. ASSUME NEW k \in E
      PROVE  \E w \in ws : w.pc = history[k].pc /\ (config.sim \in ByCycle => k <= S[w.at])
  <2>1. k \in DOMAIN history /\ history[k].op.reg = r /\ history[k].pc \in PcsOf(i)
    BY <1>1 DEF Steps
  <2>2. RegAt(log, S, k)
    BY <1>2, <2>1 DEF AllShown, NumberedBy, Whole
  <2>3. PICK m \in DOMAIN log : S[m] = k /\ ShowsReg(log[m])
    BY <2>2 DEF RegAt
  <2>4. m \in 1..pos /\ Tells(config, log[m], history, k)
    BY <1>1, <2>3
  <2>5. log[m].reg = r /\ log[m].pc = history[k].pc /\ log[m].reg # None
    BY <2>1, <2>3, <2>4 DEF ShowsReg, Tells, Told, ToldReg
  <2>6. PICK w \in regs : w.pc = log[m].pc /\ w.key = log[m].reg /\ m <= w.at
    BY <1>3, <2>4, <2>5
  <2>7. w \in ws
    BY <2>1, <2>5, <2>6 DEF At
  <2>8. config.sim \in ByCycle => k <= S[w.at]
    BY <1>1, <1>3, <2>3, <2>4, <2>6
  <2> QED BY <2>5, <2>6, <2>7, <2>8
<1>6. E \in SUBSET DOMAIN history
  BY <1>1 DEF Steps
<1> HIDE DEF ws, E
<1>7. f \in [ws -> E] /\ \A w \in ws : f[w] = S[w.at]
  BY <1>4
<1> HIDE DEF f
<1>8. Last(Merge(ws), f, E)
  BY <1>4, <1>5, <1>6, <1>7, LastShown, SMTT(30)
<1>9. \A w \in Merge(ws) : w.data = Value(history, f[w])
  BY <1>4, <1>7, MergeSubset
<1>10. {w.data : w \in Merge(ws)} = {Value(history, k) : k \in LastOf(E)}
  BY <1>8, <1>9 DEF Last, LastOf
<1> QED BY <1>10 DEF TrueReg, ws, E

LEMMA MemsShown ==
  ASSUME NEW S, AllShown(S), AllNamed(Len(log)), NEW i, PcsOf(i) = config.expansion[i], NEW a
  PROVE  {w.data[a] : w \in Merge({o \in At(mems, i) : a \in DOMAIN o.data})} = TrueMem(i, a)
<1> DEFINE ws == {o \in At(mems, i) : a \in DOMAIN o.data}
           E == Stores(i, a)
           f == [w \in ws |-> S[w.at]]
<1>1. /\ History(config, history) /\ DOMAIN history = 1..Executed /\ IsLog(log)
      /\ pos \in Nat /\ DOMAIN log = 1..pos
      /\ \A m \in 1..pos : S[m] \in DOMAIN history /\ Tells(config, log[m], history, S[m])
      /\ config.sim \in ByCycle => \A m, n \in 1..pos : m <= n => S[m] <= S[n]
  BY ShownFacts
<1>2. /\ \A w \in mems : /\ w.at \in 1..pos /\ log[w.at].addr # None /\ Writes(history[S[w.at]].op)
                         /\ ~history[S[w.at]].op.fails /\ w.data = Bytes(history, S[w.at])
      /\ \A w \in mems : w.pc = history[S[w.at]].pc
      /\ \A m \in 1..pos : log[m].addr # None /\ ~history[S[m]].op.fails =>
           \E w \in mems : w.pc = history[S[m]].pc /\ (config.sim \in ByCycle => m <= w.at)
  BY DEF AllShown, ReadRight, MemsFrom, MemsNamed
<1>3. \A k : DOMAIN Bytes(history, k) = Covered(history[k].op)
             /\ (a \in Covered(history[k].op) => Bytes(history, k)[a] = <<k, a - history[k].op.addr>>)
  BY DEF Bytes
<1>4. ASSUME NEW w \in ws
      PROVE  /\ w.at \in 1..pos /\ S[w.at] \in E /\ w.pc = history[S[w.at]].pc
             /\ w.data[a] = <<S[w.at], a - history[S[w.at]].op.addr>>
  <2> DEFINE m == w.at  k == S[m]
  <2>1. /\ m \in 1..pos /\ w.pc = history[k].pc /\ w.pc \in PcsOf(i)
        /\ Writes(history[k].op) /\ ~history[k].op.fails /\ w.data = Bytes(history, k) /\ a \in DOMAIN w.data
    BY <1>2 DEF At
  <2>2. k \in DOMAIN history
    BY <1>1, <2>1
  <2> HIDE DEF k, ws
  <2>3. a \in Covered(history[k].op) /\ w.data[a] = <<k, a - history[k].op.addr>>
    BY <1>3, <2>1
  <2>4. k \in E
    BY <1>1, <2>1, <2>2, <2>3 DEF Stores, Steps
  <2> QED BY <2>1, <2>3, <2>4 DEF k
<1>5. ASSUME NEW k \in E
      PROVE  \E w \in ws : w.pc = history[k].pc /\ (config.sim \in ByCycle => k <= S[w.at])
  <2>1. /\ k \in DOMAIN history /\ Writes(history[k].op) /\ ~history[k].op.fails
        /\ a \in Covered(history[k].op) /\ history[k].pc \in PcsOf(i)
    BY <1>1 DEF Stores, Steps
  <2>2. MemAt(log, S, k)
    <3>1. ~Kept(store, k)
      <4>1. store = <<>>
        BY DEF AllShown
      <4>2. DOMAIN store = {}
        BY <4>1
      <4> QED BY <4>2 DEF Kept
    <3> QED BY <2>1, <3>1 DEF AllShown, NumberedBy, Whole
  <2>3. PICK m \in DOMAIN log : S[m] = k /\ log[m].addr # None
    BY <2>2 DEF MemAt
  <2>4. m \in 1..pos
    BY <1>1
  <2>5. PICK w \in mems : w.pc = history[k].pc /\ (config.sim \in ByCycle => m <= w.at)
    BY <1>2, <2>1, <2>3, <2>4
  <2>6. w \in ws
    <3> DEFINE j == S[w.at]
    <3>1. /\ w.data = Bytes(history, j) /\ w.pc = history[j].pc /\ j \in DOMAIN history
      BY <1>1, <1>2
    <3>2. history[j].pc = history[k].pc
      BY <2>5, <3>1
    <3> HIDE DEF j
    <3>3. history[j].op = history[k].op
      <4>1. history[j].op = config.program[history[j].pc]
        BY <1>1, <3>1, StepTyped
      <4>2. history[k].op = config.program[history[k].pc]
        BY <1>1, <2>1, StepTyped
      <4> QED BY <3>2, <4>1, <4>2
    <3>4. a \in DOMAIN w.data
      BY <1>3, <2>1, <3>1, <3>3
    <3> QED BY <2>1, <2>5, <3>4 DEF At
  <2>7. config.sim \in ByCycle => k <= S[w.at]
    BY <1>1, <1>2, <2>3, <2>4, <2>5
  <2> QED BY <2>5, <2>6, <2>7
<1>6. E \in SUBSET DOMAIN history
  BY <1>1 DEF Stores, Steps
<1> HIDE DEF ws, E
<1>7. f \in [ws -> E] /\ \A w \in ws : f[w] = S[w.at]
  BY <1>4
<1> HIDE DEF f
<1>8. Last(Merge(ws), f, E)
  BY <1>4, <1>5, <1>6, <1>7, LastShown, SMTT(30)
<1> DEFINE G(k) == <<k, a - history[k].op.addr>>
<1>9. \A w \in Merge(ws) : w.data[a] = G(f[w])
  BY <1>4, <1>7, MergeSubset
<1> HIDE DEF G
<1>10. {w.data[a] : w \in Merge(ws)} = {G(k) : k \in LastOf(E)}
  BY <1>8, <1>9 DEF Last, LastOf
<1> QED BY <1>10 DEF TrueMem, ws, E, G

LEMMA ExcsShown ==
  ASSUME NEW S, AllShown(S), NEW i, PcsOf(i) = config.expansion[i], HandlerPc \notin PcsOf(i)
  PROVE  {w.data[1] : w \in Merge(At(IF config.sim \in {"rocket", "boom", "spike"}
                                     THEN Synchronous ELSE excs, i))} = TrueExc(i)
<1> DEFINE ws == At(IF config.sim \in {"rocket", "boom", "spike"} THEN Synchronous ELSE excs, i)
           E == {k \in Steps(i) : Excepts(history[k].op)}
           f == [w \in ws |-> w.data[1]]
           Filters == config.sim = "spike" \/ (config.sim \in TellsInterrupts /\ config.base = 64)
<1>1. /\ History(config, history) /\ DOMAIN history = 1..Executed /\ IsLog(log)
      /\ pos \in Nat /\ DOMAIN log = 1..pos
      /\ \A m \in 1..pos : S[m] \in DOMAIN history /\ Tells(config, log[m], history, S[m])
      /\ config.sim \in ByCycle => \A m, n \in 1..pos : m <= n => S[m] <= S[n]
  BY ShownFacts
<1>2. /\ \A x \in excs : x.at \in 1..pos /\ (config.sim \in ByCycle => x.data[1] = S[x.at])
      /\ \A m \in 1..pos :
           Excepts(history[S[m]].op) /\ ShowsTrap(config, log, m, history[S[m]].pc, S[m]) =>
             \E x \in excs : x.pc = history[S[m]].pc /\ (config.sim \in ByCycle => m <= x.at)
      /\ \A x \in excs : ExcRight(x, history)
  BY DEF AllShown, ReadRight, ExcsRight, PairedInv, Excepts, Excepted
<1>3. \A w : w \in ws <=> /\ w \in excs /\ w.pc \in PcsOf(i)
                          /\ Filters => ~w.data[2]
  BY DEF At, Synchronous, TellsInterrupts
(* A processor that tells interrupts and is not filtered is Rocket on RV32. *)
<1>12. ASSUME config.sim \in TellsInterrupts, ~Filters PROVE config.sim = "rocket" /\ config.base = 32
  <2>1. config.base \in {32, 64} /\ (config.sim = "boom" => config.base = 64)
    BY <1>1, ConfigsAssumption DEF History, Runnable
  <2> QED BY <1>12, <2>1 DEF TellsInterrupts
<1>13. Filters => ~(config.sim = "rocket" /\ config.base = 32)
  BY DEF TellsInterrupts
<1> HIDE DEF ws, Filters
<1>4. ASSUME NEW w \in excs, w.pc \in PcsOf(i)
      PROVE  \E k \in DOMAIN history :
               /\ w.data[1] = k /\ w.pc = history[k].pc /\ history[k].pc \in config.expansion[i]
               /\ ~Excepts(history[k].op) => Filters /\ w.data[2]
               /\ Excepts(history[k].op) => ~Filters \/ ~w.data[2]
  <2>1. PICK k \in DOMAIN history : Struck(history, k) /\ history[k].pc = w.pc /\ w.data = <<k, history[k].op.irq>>
    BY <1>2, <1>4 DEF ExcRight
  <2>2. w.data[1] = k /\ w.data[2] = history[k].op.irq
    BY <2>1
  <2>3. /\ history[k].op.irq => config.sim \in TellsInterrupts
        /\ history[k].op.traps => ~history[k].op.irq
        /\ history[k].op.traps \/ history[k].op.irq
    BY <1>1, <2>1, StepTyped DEF Struck, Proper
  <2>4. ~Excepts(history[k].op) => Filters /\ w.data[2]
    BY <1>12, <2>2, <2>3 DEF Excepts
  <2>5. Excepts(history[k].op) => ~Filters \/ ~w.data[2]
    BY <1>13, <2>2, <2>3 DEF Excepts
  <2> QED BY <1>4, <2>1, <2>2, <2>4, <2>5
<1>5. ASSUME NEW w \in ws
      PROVE  /\ w.at \in 1..pos /\ w.data[1] \in E /\ w.pc = history[w.data[1]].pc
             /\ config.sim \in ByCycle => w.data[1] = S[w.at]
  <2>1. w \in excs /\ w.pc \in PcsOf(i) /\ (Filters => ~w.data[2])
    BY <1>3
  <2>2. PICK k \in DOMAIN history :
               /\ w.data[1] = k /\ w.pc = history[k].pc /\ history[k].pc \in config.expansion[i]
               /\ ~Excepts(history[k].op) => Filters /\ w.data[2]
    BY <1>4, <2>1
  <2>3. k \in E
    BY <1>1, <2>1, <2>2 DEF Steps
  <2> QED BY <1>2, <2>1, <2>2, <2>3
<1>6. ASSUME NEW k \in E
      PROVE  \E w \in ws : w.pc = history[k].pc /\ (config.sim \in ByCycle => k <= w.data[1])
  <2>1. k \in DOMAIN history /\ Excepts(history[k].op) /\ history[k].pc \in PcsOf(i)
    BY <1>1 DEF Steps
  <2>2. TrapAt(config, log, history, S, k)
    BY <2>1 DEF AllShown, NumberedBy, Whole, Excepts, Excepted
  <2>3. PICK m \in DOMAIN log : S[m] = k /\ ShowsTrap(config, log, m, history[k].pc, k)
    BY <2>2 DEF TrapAt
  <2>4. m \in 1..pos
    BY <1>1
  <2>5. PICK w \in excs : w.pc = history[k].pc /\ (config.sim \in ByCycle => m <= w.at)
    BY <1>2, <2>1, <2>3, <2>4
  <2>6. w.pc \in PcsOf(i)
    BY <2>1, <2>5
  <2>7. PICK j \in DOMAIN history :
               /\ w.data[1] = j /\ w.pc = history[j].pc
               /\ Excepts(history[j].op) => ~Filters \/ ~w.data[2]
    BY <1>4, <2>6
  <2>8. Excepts(history[j].op)
    <3>1. history[j].pc = history[k].pc
      BY <2>5, <2>7
    <3>2. history[j].op = history[k].op
      <4>1. history[j].op = config.program[history[j].pc]
        BY <1>1, <2>7, StepTyped
      <4>2. history[k].op = config.program[history[k].pc]
        BY <1>1, <2>1, StepTyped
      <4> QED BY <3>1, <4>1, <4>2
    <3> QED BY <2>1, <3>2
  <2>9. w \in ws
    BY <1>3, <2>6, <2>7, <2>8
  <2>10. config.sim \in ByCycle => k <= w.data[1]
    BY <1>1, <1>2, <2>3, <2>4, <2>5
  <2> QED BY <2>5, <2>9, <2>10
<1>7. E \in SUBSET DOMAIN history
  BY <1>1 DEF Steps
<1> HIDE DEF E
<1>8. f \in [ws -> E] /\ \A w \in ws : f[w] = w.data[1]
  BY <1>5
<1> HIDE DEF f
<1>9. Last(Merge(ws), f, E)
  BY <1>5, <1>6, <1>7, <1>8, LastShown, SMTT(30)
<1>10. \A w \in Merge(ws) : w.data[1] = f[w]
  BY <1>8, MergeSubset
<1>11. {w.data[1] : w \in Merge(ws)} = LastOf(E)
  BY <1>9, <1>10 DEF Last, LastOf
<1> QED BY <1>11 DEF TrueExc, ws, E

-----------------------------------------------------------------------------
(* The output is built once, of all that was read.                         *)
Built == pc = "done" => output = [i \in DOMAIN texts |-> OutputOf(i)]
DoneInv == MappingInv /\ ShowInv /\ Built

LEMMA StepsToDone ==
  ASSUME [Next]_vars
  PROVE  pc' = "done" => Build \/ UNCHANGED vars
<1>1. CASE Execute \/ PrintWrite \/ PrintNoise \/ Exit
  BY <1>1 DEF Execute, PrintWrite, PrintNoise, Exit
<1>2. CASE ReadLine
  <2>1. pc' \in {"read", "failed"}
    BY <1>2, LineRead
  <2> QED BY <2>1
<1>3. CASE EndOfLog \/ MapLine \/ MapFails
  BY <1>3 DEF EndOfLog, MapLine, MapFails
<1> QED BY <1>1, <1>2, <1>3 DEF Next

LEMMA OutputSame ==
  ASSUME UNCHANGED <<pcOf, config, regs, mems, excs>>, NEW i
  PROVE  OutputOf(i)' = OutputOf(i)
BY SMTT(30) DEF OutputOf, At, PcsOf, Synchronous, Merge, RocketMerge, BoomMerge, SpikeMerge,
                Cva6Merge, PicoMerge, XsMerge, VexMerge, IbexMerge, KronosMerge, Srv32Merge,
                Highest, First, Latest

LEMMA BuiltNext ==
  ASSUME Built, [Next]_vars
  PROVE  Built'
<1> SUFFICES ASSUME pc' = "done" PROVE output' = [i \in DOMAIN texts |-> OutputOf(i)]'
  BY DEF Built
<1>1. CASE Build
  <2>1. /\ output' = [i \in DOMAIN texts |-> OutputOf(i)]
        /\ UNCHANGED <<texts, pcOf, config, regs, mems, excs>>
    BY <1>1, SMTT(30) DEF Build, tvars, trace
  <2>2. ASSUME NEW i PROVE OutputOf(i)' = OutputOf(i)
    BY <2>1, OutputSame
  <2> QED BY <2>1, <2>2
<1>2. CASE UNCHANGED vars
  <2>1. UNCHANGED <<texts, pcOf, config, regs, mems, excs, output, pc>>
    BY <1>2 DEF vars, tvars, trace
  <2>2. ASSUME NEW i PROVE OutputOf(i)' = OutputOf(i)
    BY <2>1, OutputSame
  <2> QED BY <2>1, <2>2 DEF Built
<1> QED BY <1>1, <1>2, StepsToDone

LEMMA DoneHolds == Spec => []DoneInv
<1>1. Init => ShowInv /\ Built
  BY ShowInit DEF Init, Built
<1>2. ShowInv /\ Built /\ [Next]_vars => (ShowInv /\ Built)'
  <2>1. ASSUME ShowInv, Built, [Next]_vars PROVE ShowInv' /\ Built'
    BY <2>1, ShowNext, BuiltNext
  <2> QED BY <2>1
<1>3. MappingInv /\ ShowInv /\ Built <=> DoneInv
  BY DEF DoneInv
<1> QED BY <1>1, <1>2, <1>3, MappingHolds, PTL DEF Spec

(* An instruction does not have the address of the trap handler.           *)
LEMMA HandlerApart ==
  ASSUME Mapping, ~MissingSource, NEW i \in DOMAIN texts
  PROVE  HandlerPc \notin config.expansion[i]
<1>1. config \in Configs /\ texts = config.texts /\ Lines = config.dump
  BY DEF Mapping, Lines
<1>2. Listed(config)
  BY <1>1, ConfigsAssumption
<1>3. ~Incomplete(config)
  <2>1. \A o \in DOMAIN texts : \E j \in DOMAIN Lines : Lines[j] = Source(texts[o])
    BY DEF Mapping, MissingSource
  <2> QED BY <1>1, <2>1 DEF Incomplete
<1>4. PICK at \in [DOMAIN texts -> DOMAIN Lines] : Disassembled(config, at)
  BY <1>1, <1>2, <1>3 DEF Listed
<1> QED BY <1>4 DEF Disassembled

(* The ten simulators' executions come to what the instructions did, for   *)
(* programs, executions and disassemblies of any length: the merge shows   *)
(* of the writes of an instruction the one of its last step, the bytes of  *)
(* the last store at each address and the exception of the last step that  *)
(* had one: on RV32 also the interrupt that Rocket's executor keeps.  For  *)
(* BOOM, memory is left out where the writer of some line cannot be told.  *)
THEOREM ShowsHolds == Spec => []Shows
<1>1. ASSUME DoneInv PROVE Shows
  <2> SUFFICES ASSUME pc = "done", Ascending \/ config.sim \in ByCycle, NEW i \in DOMAIN texts
               PROVE  Agrees(i)
    BY DEF Shows, ShowsExecution, LatestExecution
  <2>1. PICK S : NumberedBy(S) /\ ReadRight(S)
    BY <1>1 DEF DoneInv, ShowInv
  <2>2. AllShown(S)
    BY <1>1, <2>1 DEF DoneInv, ShowInv, WriteInv, AllShown
  <2>3. PcsOf(i) = config.expansion[i] /\ HandlerPc \notin PcsOf(i)
    BY <1>1, AllRead, HandlerApart DEF DoneInv, MappingInv
  <2>4. output[i] = OutputOf(i)
    BY <1>1 DEF DoneInv, Built
  <2>5. ASSUME NEW r \in Registers PROVE output[i].regs[r] = TrueReg(i, r)
    BY <2>2, <2>3, <2>4, RegsShown DEF OutputOf
  <2>6. ASSUME AllNamed(Len(log)), NEW a \in Memory PROVE output[i].mem[a] = TrueMem(i, a)
    BY <2>2, <2>3, <2>4, <2>6, MemsShown DEF OutputOf
  <2>8. AllNamed(Len(log)) \/ \E n \in DOMAIN log : log[n].k = "mt" /\ ~Attributable(n)
    <3>1. DOMAIN log = 1..Len(log)
      BY <2>2, ShownFacts, LogFacts
    <3> QED BY <3>1 DEF AllNamed
  <2>7. output[i].exc = TrueExc(i)
    BY <2>2, <2>3, <2>4, ExcsShown DEF OutputOf
  <2> QED BY <2>5, <2>6, <2>7, <2>8 DEF Agrees
<1>2. DoneInv => Shows
  BY <1>1
<1> QED BY <1>2, DoneHolds, PTL

-----------------------------------------------------------------------------
(* The queue of the parser stays within its limit.                         *)
Limited(q) == IsLog(q) /\ Len(q) <= MaxPending

LEMMA AppendLimited ==
  ASSUME NEW q, IsLog(q), NEW x
  PROVE  /\ IsLog(Append(q, x)) /\ Len(Append(q, x)) = Len(q) + 1
         /\ IsLog(Tail(Append(q, x))) /\ Len(Tail(Append(q, x))) = Len(q)
<1>1. PICK S : q \in Seq(S)
  BY DEF IsLog
<1>2. q \in Seq(S \cup {x}) /\ x \in S \cup {x}
  BY <1>1
<1> DEFINE r == Append(q, x)
<1>3. r \in Seq(S \cup {x}) /\ Len(r) = Len(q) + 1 /\ Len(q) \in Nat
  BY <1>2
<1> HIDE DEF r
<1>4. r # <<>>
  BY <1>3
<1>5. Tail(r) \in Seq(S \cup {x}) /\ Len(Tail(r)) = Len(r) - 1
  BY <1>3, <1>4
<1> QED BY <1>3, <1>5 DEF r, IsLog

(* How many entries are kept.                                              *)
LEMMA DropLength ==
  ASSUME NEW q, IsLog(q), NEW p
  PROVE  IsLog(DropAt(q, p)) /\ Len(DropAt(q, p)) <= Len(q)
<1>1. PICK kept : /\ DropAt(q, p) = kept[Len(q)] /\ kept[0] = <<>>
                  /\ \A i \in 1..Len(q) :
                       kept[i] = IF q[i].pc = p THEN kept[i - 1] ELSE Append(kept[i - 1], q[i])
  BY DropSteps
<1>2. Len(q) \in Nat
  BY LogFacts
<1> DEFINE U == {n \in Nat : n <= Len(q) => IsLog(kept[n]) /\ Len(kept[n]) <= n}
<1>3. 0 \in U
  <2>1. IsLog(<<>>) /\ Len(<<>>) = 0
    BY LogOne
  <2> QED BY <1>1, <2>1
<1>4. ASSUME NEW n \in Nat, n \in U PROVE n + 1 \in U
  <2> SUFFICES ASSUME n + 1 <= Len(q) PROVE IsLog(kept[n + 1]) /\ Len(kept[n + 1]) <= n + 1
    OBVIOUS
  <2> DEFINE a == kept[n]  b == kept[n + 1]  c == Append(a, q[n + 1])
  <2>1. IsLog(a) /\ Len(a) <= n
    BY <1>2, <1>4
  <2>2. n + 1 \in 1..Len(q) /\ (n + 1) - 1 = n
    BY <1>2
  <2>3. b = a \/ b = c
    BY <1>1, <2>2
  <2>4. IsLog(c) /\ Len(c) = Len(a) + 1 /\ Len(a) \in Nat
    BY <2>1, AppendLimited, LogFacts
  <2> HIDE DEF a, b, c
  <2>5. IsLog(b) /\ Len(b) <= n + 1
    <3>1. CASE b = a
      BY <2>1, <2>4, <3>1
    <3>2. CASE b = c
      BY <2>1, <2>4, <3>2
    <3> QED BY <2>3, <3>1, <3>2
  <2> QED BY <2>5 DEF b
<1>5. \A n \in Nat : n \in U
  <2> HIDE DEF U
  <2> QED BY <1>3, <1>4, Induction
<1> QED BY <1>1, <1>2, <1>5

LEMMA WithoutLimited ==
  ASSUME NEW q, IsLog(q), NEW i \in DOMAIN q
  PROVE  IsLog(Without(q, i)) /\ Len(Without(q, i)) <= Len(q)
<1>1. i \in 1..Len(q) /\ Len(q) \in Nat
  BY LogFacts
<1> QED BY <1>1, WithoutFacts

(* The entry a write uses up is one of the queue.                          *)
LEMMA WaitingEntry ==
  ASSUME NEW op, IsLog(boom.pending), Waiting(op) # 0
  PROVE  Waiting(op) \in DOMAIN boom.pending
<1>1. DOMAIN boom.pending \subseteq Nat
  <2>1. DOMAIN boom.pending = 1..Len(boom.pending)
    BY LogFacts
  <2> QED BY <2>1
<1>2. Matching(boom.pending, op) \subseteq DOMAIN boom.pending /\ Recent(op) \subseteq DOMAIN boom.pending
  BY DEF Matching, Recent
<1>3. ASSUME NEW T \in SUBSET DOMAIN boom.pending, T # {} PROVE Min(T) \in DOMAIN boom.pending
  <2>1. \E x \in T : \A y \in T : x <= y
    BY <1>1, <1>3, LeastNumber
  <2>2. Min(T) \in T
    BY <2>1 DEF Min
  <2> QED BY <2>2
<1> QED BY <1>2, <1>3 DEF Waiting

(* The state of the parser of BOOM has its fields, and the processor has   *)
(* no more steps than its path.                                            *)
BoomFields(b) == DOMAIN b = {"pending", "last", "lastAt", "current"} /\ Limited(b.pending)
QueueInv ==
  /\ BoomFields(boom)
  /\ Executed <= Len(config.path)

LEMMA CommittedLimited ==
  ASSUME NEW b, BoomFields(b), NEW p, NEW op
  PROVE  BoomFields(Committed(b, p, op))
<1> DEFINE c == Committed(b, p, op)  e == Entry(p, op)  q == Append(b.pending, e)
<1>1. CASE Decoded(op) = None
  <2>1. c = [b EXCEPT !.current = p]
    BY <1>1 DEF Committed
  <2> HIDE DEF c
  <2>2. DOMAIN c = DOMAIN b /\ c.pending = b.pending
    BY <2>1 DEF BoomFields
  <2> QED BY <2>2 DEF c, BoomFields
<1>2. CASE Decoded(op) # None
  <2>1. c = [pending |-> IF Len(q) > MaxPending THEN Tail(q) ELSE q,
             last |-> e, lastAt |-> pos + 1, current |-> p]
    BY <1>2 DEF Committed
  <2>2. /\ IsLog(q) /\ Len(q) = Len(b.pending) + 1
        /\ IsLog(Tail(q)) /\ Len(Tail(q)) = Len(b.pending) /\ Len(b.pending) <= MaxPending
    BY AppendLimited DEF Limited, BoomFields
  <2>3. Len(b.pending) \in Nat
    BY LogFacts DEF Limited, BoomFields
  <2> HIDE DEF q, e, c
  <2>4. c.pending = (IF Len(q) > MaxPending THEN Tail(q) ELSE q)
        /\ DOMAIN c = {"pending", "last", "lastAt", "current"}
    BY <2>1
  <2>5. CASE Len(q) > MaxPending
    BY <2>2, <2>4, <2>5 DEF Limited, c, BoomFields
  <2>6. CASE ~(Len(q) > MaxPending)
    <3>1. Len(q) <= MaxPending
      BY <2>2, <2>3, <2>6, LanesAssumption
    <3> QED BY <2>2, <2>4, <2>6, <3>1 DEF Limited, c, BoomFields
  <2> QED BY <2>5, <2>6
<1> QED BY <1>1, <1>2

LEMMA DroppedLimited ==
  ASSUME NEW q, Limited(q), NEW p
  PROVE  Limited(DropAt(q, p))
<1>1. IsLog(q) /\ Len(q) <= MaxPending
  BY DEF Limited
<1>2. IsLog(DropAt(q, p)) /\ Len(DropAt(q, p)) <= Len(q)
  BY <1>1, DropLength
<1>3. Len(q) \in Nat /\ Len(DropAt(q, p)) \in Nat
  BY <1>1, <1>2, LogFacts
<1> QED BY <1>1, <1>2, <1>3, LanesAssumption DEF Limited

LEMMA DropsFields ==
  ASSUME NEW b, BoomFields(b), NEW p
  PROVE  /\ BoomFields([b EXCEPT !.pending = DropAt(@, p)])
         /\ BoomFields([b EXCEPT !.pending = DropAt(@, p), !.current = p])
         /\ BoomFields([b EXCEPT !.current = p])
<1>1. Limited(DropAt(b.pending, p))
  BY DroppedLimited DEF BoomFields
<1> DEFINE d == DropAt(b.pending, p)
           x == [b EXCEPT !.pending = d]
           y == [b EXCEPT !.pending = d, !.current = p]
           z == [b EXCEPT !.current = p]
<1>2. /\ x = [b EXCEPT !.pending = DropAt(@, p)]
      /\ y = [b EXCEPT !.pending = DropAt(@, p), !.current = p]
  OBVIOUS
<1> HIDE DEF d
<1>3. /\ DOMAIN x = DOMAIN b /\ x.pending = d /\ DOMAIN y = DOMAIN b /\ y.pending = d
      /\ DOMAIN z = DOMAIN b /\ z.pending = b.pending
  BY DEF BoomFields
<1> HIDE DEF x, y, z
<1>4. BoomFields(x) /\ BoomFields(y) /\ BoomFields(z)
  BY <1>1, <1>3 DEF BoomFields, d
<1> QED BY <1>2, <1>4 DEF z

LEMMA BoomFieldsNext ==
  ASSUME BoomFields(boom),
         BoomInstruction \/ BoomRegister \/ BoomFloat \/ BoomStore \/ BoomException \/ BoomWrite
  PROVE  BoomFields(boom')
<1>1. CASE BoomInstruction \/ BoomFloat
  <2>1. boom' = Committed(boom, Line.pc, Line.insn)
    BY <1>1 DEF BoomInstruction, BoomFloat
  <2> QED BY <2>1, CommittedLimited
<1>2. CASE BoomRegister
  <2> DEFINE seen == Noticed(Line.csr)
             known == Line.csr # None /\ seen.mepc # None /\ seen.mcause # None
             b == IF known THEN [boom EXCEPT !.pending = DropAt(@, seen.mepc)] ELSE boom
  <2>1. boom' = IF Line.insn = None THEN [b EXCEPT !.current = Line.pc] ELSE Committed(b, Line.pc, Line.insn)
    BY <1>2 DEF BoomRegister
  <2>2. BoomFields(b)
    BY DropsFields
  <2> HIDE DEF b
  <2>3. BoomFields([b EXCEPT !.current = Line.pc]) /\ BoomFields(Committed(b, Line.pc, Line.insn))
    BY <2>2, DropsFields, CommittedLimited
  <2> QED BY <2>1, <2>3
<1>3. CASE BoomStore
  BY <1>3, DropsFields DEF BoomStore
<1>4. CASE BoomException
  BY <1>4, DropsFields DEF BoomException
<1>5. CASE BoomWrite
  <2> DEFINE i == IF Line.pc # HandlerPc THEN 0 ELSE Waiting(Line.insn)
             q == Without(boom.pending, i)
             c == [boom EXCEPT !.pending = q]
  <2>1. boom' = IF i = 0 THEN boom ELSE c
    BY <1>5 DEF BoomWrite
  <2>2. ASSUME i # 0 PROVE Limited(q)
    <3>1. IsLog(boom.pending) /\ Len(boom.pending) <= MaxPending
      BY DEF BoomFields, Limited
    <3>2. i \in DOMAIN boom.pending
      BY <2>2, <3>1, WaitingEntry
    <3> HIDE DEF i
    <3>3. IsLog(q) /\ Len(q) <= Len(boom.pending)
      BY <3>1, <3>2, WithoutLimited
    <3>4. Len(q) \in Nat /\ Len(boom.pending) \in Nat
      BY <3>1, <3>3, LogFacts
    <3> HIDE DEF q
    <3>5. Len(q) <= MaxPending
      BY <3>1, <3>3, <3>4, LanesAssumption
    <3> QED BY <3>3, <3>5 DEF Limited
  <2> HIDE DEF i, q
  <2>3. DOMAIN c = DOMAIN boom /\ c.pending = q
    BY DEF BoomFields
  <2> HIDE DEF c
  <2> QED BY <2>1, <2>2, <2>3 DEF BoomFields
<1> QED BY <1>1, <1>2, <1>3, <1>4, <1>5

LEMMA QueueNext ==
  ASSUME QueueInv, PrintingInv, [Next]_vars
  PROVE  QueueInv'
<1>1. BoomFields(boom) /\ Executed <= Len(config.path) /\ QueueInv' = (BoomFields(boom') /\ (Executed <= Len(config.path))')
  BY DEF QueueInv
<1>2. CASE Execute
  <2>1. Executed < Len(config.path) /\ boom' = boom /\ config' = config
    BY <1>2 DEF Execute
  <2>2. IsLog(history) /\ Len(config.path) \in Nat
    BY ConfigsAssumption DEF PrintingInv, Printing, History, IsLog, Runnable
  <2>3. Len(history') = Len(history) + 1 /\ Len(history) \in Nat
    BY <1>2, <2>2, AppendLimited, LogFacts DEF Execute
  <2>4. Len(history') <= Len(config'.path)
    BY <2>1, <2>2, <2>3 DEF Executed
  <2> QED BY <1>1, <2>1, <2>4 DEF Executed
<1>3. CASE PrintWrite \/ PrintNoise \/ Exit \/ EndOfLog \/ MapLine \/ MapFails \/ Build \/ UNCHANGED vars
  <2>1. UNCHANGED <<boom, history, config>>
    BY <1>3 DEF PrintWrite, PrintNoise, Exit, EndOfLog, MapLine, MapFails, Build, vars
  <2> QED BY <1>1, <2>1 DEF Executed
<1>4. CASE ReadLine
  <2>1. UNCHANGED <<history, config>>
    BY <1>4, LineRead
  <2>2. BoomFields(boom')
    <3> USE DEF Plain
    <3>1. CASE RocketRegister \/ RocketFloat \/ RocketStore \/ RocketException \/ SpikeCommit \/ SpikeException
      BY <1>1, <3>1 DEF RocketRegister, RocketFloat, RocketStore, RocketException, SpikeCommit, SpikeException
    <3>2. CASE Cva6Register \/ Cva6Atomic \/ Cva6Store \/ Cva6Exception \/ PicoLine \/ XsCommit \/ XsMemory \/ XsException
      BY <1>1, <3>2 DEF Cva6Register, Cva6Atomic, Cva6Store, Cva6Exception, PicoLine, XsCommit, XsMemory, XsException
    <3>3. CASE VexWrite \/ VexException \/ IbexLine \/ KronosLine \/ Srv32Line \/ Ignore
      BY <1>1, <3>3 DEF VexWrite, VexException, IbexLine, KronosLine, Srv32Line, Ignore
    <3> QED BY <1>1, <1>4, <3>1, <3>2, <3>3, BoomFieldsNext DEF ReadLine
  <2> QED BY <1>1, <2>1, <2>2 DEF Executed
<1> QED BY <1>2, <1>3, <1>4 DEF Next

-----------------------------------------------------------------------------
LEMMA QueueHolds == Spec => []QueueInv
<1>1. ASSUME Init PROVE QueueInv
  <2>1. boom = NoBoom /\ history = <<>> /\ config \in Configs
    BY <1>1 DEF Init
  <2>2. IsLog(<<>>) /\ Len(<<>>) = 0
    BY LogOne
  <2>3. BoomFields(boom)
    BY <2>1, <2>2, LanesAssumption DEF BoomFields, Limited, NoBoom
  <2>4. Len(config.path) \in Nat
    BY <2>1, ConfigsAssumption DEF Runnable
  <2> QED BY <2>1, <2>2, <2>3, <2>4 DEF QueueInv, Executed
<1>2. Init => QueueInv /\ PrintingInv
  BY <1>1, PrintingInit
<1>3. QueueInv /\ PrintingInv /\ [Next]_vars => (QueueInv /\ PrintingInv)'
  BY QueueNext, PrintingNext
<1> QED BY <1>2, <1>3, PTL DEF Spec

(* The types: the stages and the lines read, the registers and the bytes   *)
(* that a trace can hold, the limit of the queue of BOOM's parser and the  *)
(* instructions found in the disassembly, for executions of any length.    *)
THEOREM TypeCorrect == Spec => []TypeOK
<1>1. ASSUME DoneInv, QueueInv PROVE TypeOK
  <2>1. PICK S : NumberedBy(S) /\ ReadRight(S)
    BY <1>1 DEF DoneInv, ShowInv
  <2>2. PairedInv /\ Printing /\ History(config, history) /\ IsLog(log) /\ AllTold(config, log, history)
    BY <1>1 DEF DoneInv, ShowInv, WriteInv, PairedInv, PrintingInv, Printing, Good
  <2>3. Len(log) \in Nat /\ DOMAIN log = 1..Len(log) /\ pos \in 0..Len(log)
    BY <2>2, LogFacts DEF PairedInv
  <2>4. pc \in {"run", "read", "map", "done", "failed"}
    BY <2>2 DEF PairedInv, PrintingInv
  <2>5. ASSUME NEW w \in regs PROVE w.key \in Registers \cup {"x5", "x6"} /\ w.at <= pos
    <3> DEFINE l == log[w.at]
    <3>1. w.at \in 1..pos /\ l.reg # None /\ w.key = l.reg
      BY <2>1 DEF ReadRight, RegsRight
    <3>2. PICK k \in DOMAIN history : Told(config, l, history, k)
      BY <2>2, <2>3, <3>1 DEF AllTold
    <3> HIDE DEF l
    <3>3. l.reg \in {"x5", "x6"} \/ l.reg = history[k].op.reg
      BY <3>1, <3>2 DEF Told, ToldReg
    <3>4. history[k].op.reg \in Registers \cup {None}
      BY <2>2, StepTyped DEF Operations
    <3> QED BY <2>3, <3>1, <3>3, <3>4
  <2>6. ASSUME NEW w \in mems PROVE DOMAIN w.data \subseteq Memory
    <3> DEFINE k == S[w.at]
    <3>1. w.at \in 1..pos /\ Writes(history[k].op) /\ w.data = Bytes(history, k)
      BY <2>1 DEF ReadRight, MemsFrom
    <3>2. k \in DOMAIN history
      BY <2>1, <2>3, <3>1 DEF NumberedBy, Numbers
    <3> HIDE DEF k
    <3>3. Proper(history[k].op) /\ history[k].op.addr # None
      BY <2>2, <3>1, <3>2, StepTyped DEF Writes
    <3>4. DOMAIN w.data = Covered(history[k].op)
      BY <3>1 DEF Bytes
    <3> QED BY <3>3, <3>4 DEF Proper
  <2>7. found \subseteq DOMAIN texts
    BY <1>1 DEF DoneInv, MappingInv, Mapping
  <2> QED BY <1>1, <2>3, <2>4, <2>5, <2>6, <2>7 DEF TypeOK, QueueInv, BoomFields, Limited
<1>2. DoneInv /\ QueueInv => TypeOK
  BY <1>1
<1> QED BY <1>2, DoneHolds, QueueHolds, PTL
=============================================================================

---------------------------- MODULE LaunchProofs ----------------------------
(***************************************************************************)
(* For every set of requests: each core of a testcase is given the program *)
(* of this execution, and runs it on the machine that was meant; and the   *)
(* strings that tell the tools what it may use are closed and consistent.  *)
(***************************************************************************)
EXTENDS Launch, FiniteSetTheorems, TLAPS

-----------------------------------------------------------------------------
(* The strings name at least what they are built from.                     *)

LEMMA MarchNames ==
  ASSUME NEW b \in Bases, NEW s
  PROVE  s \subseteq March(b, s)
<1>1. \A t : t \subseteq Imply(b, t)
  BY Zenon DEF Imply
<1>2. \A t : t \subseteq Imply4(b, t)
  BY <1>1, Zenon DEF Imply4
<1>3. \A t : t \subseteq ApplyImplied(b, t)
  BY <1>2, Zenon DEF ApplyImplied
<1>4. \A t : t \subseteq Combine(t)
  BY Zenon DEF Combine
<1>5. \A t : t \subseteq Combine2(t)
  BY <1>4, Zenon DEF Combine2
<1>6. \A t : t \subseteq ApplyCombined(t)
  BY <1>5, Zenon DEF ApplyCombined
<1> QED BY <1>3, <1>6, Zenon DEF March

(* What the cores have in common each of them has, so each is built for it.*)
LEMMA CommonOfEach ==
  ASSUME NEW G, NEW b, NEW i \in G
  PROVE  Common(G, b) \subseteq Extensions(i, b)
BY DEF Common

LEMMA BuiltWithCommon ==
  ASSUME NEW G, NEW b, NEW i \in G
  PROVE  Common(G, b) \subseteq BuiltWith(i, b, Common(G, b))
BY CommonOfEach DEF BuiltWith

-----------------------------------------------------------------------------
(* Types.                                                                  *)

LEMMA TestcaseTyped ==
  ASSUME NEW t \in Testcases
  PROVE  /\ t.cores \subseteq Core /\ t.base \in Bases
         /\ t.requirement \in {{}, {FALSE}, {TRUE}}
         /\ t.common = Common(t.cores, t.base)
         /\ t.filtered => \A i \in t.cores : t.requirement \subseteq Modes[i]
<1>1. PICK r \in Requests : t = Generate(r)
  BY DEF Testcases
<1>2. /\ r.cores \subseteq Core /\ r.base \in Bases
      /\ r.requirement \in {{}, {FALSE}, {TRUE}} /\ r.filtered \in BOOLEAN
  BY RequestsAssumption
<1> QED BY <1>1, <1>2 DEF Generate, Filtered

(* The mode a core runs in by default is one it has.                       *)
LEMMA DefaultModeHad ==
  ASSUME NEW i \in Core
  PROVE  DefaultMode[i] \in BOOLEAN /\ DefaultMode[i] \in Modes[i]
<1>1. CASE i = "XiangShan"
  <2>1. DefaultMode[i] = TRUE
    BY <1>1, Zenon DEF DefaultMode, Core
  <2>2. Modes[i] = BOOLEAN
    BY <1>1 DEF Modes
  <2> QED BY <2>1, <2>2, Zenon
<1>2. CASE i = "Ibex"
  <2>1. DefaultMode[i] = TRUE
    BY <1>2, Zenon DEF DefaultMode, Core
  <2>2. Modes[i] = {TRUE}
    BY <1>2 DEF Modes
  <2> QED BY <2>1, <2>2, Zenon
<1>3. CASE i \notin {"XiangShan", "Ibex"}
  <2>1. DefaultMode[i] = FALSE
    <3>1. DefaultMode[i] = (i \in {"XiangShan", "Ibex"})
      BY Zenon DEF DefaultMode
    <3>2. (i \in {"XiangShan", "Ibex"}) = FALSE
      BY <1>3, SMT
    <3> QED BY <3>1, <3>2, Zenon
  <2>2. Modes[i] = IF i = "Spike" THEN BOOLEAN ELSE {FALSE}
    BY <1>3 DEF Modes
  <2> QED BY <2>1, <2>2, Zenon
<1> QED BY <1>1, <1>2, <1>3

(* What a core is asked for is the required mode, and one it has if the    *)
(* filter let it pass.                                                     *)
LEMMA ModeRight ==
  ASSUME NEW i \in Core, testcase.requirement \in {{}, {FALSE}, {TRUE}}
  PROVE  /\ AllowUnaligned(i) \in BOOLEAN
         /\ testcase.requirement \subseteq {AllowUnaligned(i)}
         /\ testcase.requirement \subseteq Modes[i] => AllowUnaligned(i) \in Modes[i]
<1>1. CASE testcase.requirement = {}
  <2>1. AllowUnaligned(i) = DefaultMode[i]
    BY <1>1, Zenon DEF AllowUnaligned
  <2> QED BY <1>1, <2>1, DefaultModeHad, Zenon
<1>2. CASE testcase.requirement = {FALSE}
  <2>1. (TRUE \in {FALSE}) = FALSE
    OBVIOUS
  <2>2. testcase.requirement # {}
    BY <1>2
  <2>3. AllowUnaligned(i) = FALSE
    BY <1>2, <2>1, <2>2, Zenon DEF AllowUnaligned
  <2> QED BY <1>2, <2>3, Zenon
<1>3. CASE testcase.requirement = {TRUE}
  <2>1. (TRUE \in {TRUE}) = TRUE
    OBVIOUS
  <2>2. testcase.requirement # {}
    BY <1>3
  <2>3. AllowUnaligned(i) = TRUE
    BY <1>3, <2>1, <2>2, Zenon DEF AllowUnaligned
  <2> QED BY <1>3, <2>3, Zenon
<1> QED BY <1>1, <1>2, <1>3

-----------------------------------------------------------------------------
(* The registers.                                                          *)

(* On RV64 a core with singles has doubles; on RV32 only some have either. *)
LEMMA FloatsOf ==
  ASSUME NEW i \in Core
  PROVE  /\ "f" \in Extensions(i, 64) => "d" \in Extensions(i, 64)
         /\ i \in {"CVA6", "Vex"} => "d" \notin Extensions(i, 32)
         /\ i \in {"Ibex", "Kronos", "PicoRV32", "Srv32"} => "f" \notin Extensions(i, 32)
<1>1. /\ {"f", "d"} \subseteq SpikeBoth /\ {"f", "d"} \subseteq RocketBoth
      /\ {"f", "d"} \subseteq BoomBoth /\ {"f", "d"} \subseteq XiangShanExtensions
  BY DEF SpikeBoth, RocketBoth, BoomBoth, XiangShanExtensions
<1>2. "d" \notin Cva6Both \cup {"zcf"} /\ "d" \notin VexExtensions
  BY DEF Cva6Both, VexExtensions
<1>3. /\ "f" \notin IbexExtensions /\ "f" \notin KronosExtensions
      /\ "f" \notin PicoExtensions /\ "f" \notin Srv32Extensions
  BY DEF IbexExtensions, KronosExtensions, PicoExtensions, Srv32Extensions
<1>4. "f" \in Extensions(i, 64) => "d" \in Extensions(i, 64)
  BY <1>1 DEF Extensions, Extensions64, Core
<1>5. i \in {"CVA6", "Vex"} => "d" \notin Extensions(i, 32)
  BY <1>2 DEF Extensions, Extensions32, Core
<1>6. i \in {"Ibex", "Kronos", "PicoRV32", "Srv32"} => "f" \notin Extensions(i, 32)
  BY <1>3 DEF Extensions, Extensions32, Core
<1> QED BY <1>4, <1>5, <1>6

LEMMA DoublesOf64 ==
  ASSUME NEW G \in SUBSET Core, "f" \in Common(G, 64)
  PROVE  "d" \in Common(G, 64)
<1>1. G # {} /\ \A i \in G : "f" \in Extensions(i, 64)
  BY DEF Common
<1>2. \A i \in G : "d" \in Extensions(i, 64)
  BY <1>1, FloatsOf
<1> QED BY <1>1, <1>2 DEF Common

(* Spike has doubles if they were asked for, and singles if not: nothing   *)
(* it has implies doubles.                                                 *)
LEMMA SpikeFloats ==
  ASSUME NEW s \in SUBSET (SpikeBoth \cup {"zkn"}), "f" \in s
  PROVE  "f" \in SpikeIsa(s) /\ ("d" \in SpikeIsa(s) <=> "d" \in s)
<1> DEFINE Plain(t) == {"q", "zve64d"} \cap t = {}
<1>1. Plain(s \cup {"zicsr"})
  BY DEF SpikeBoth
<1>2. ASSUME NEW t, Plain(t) PROVE Plain(SpikeImply(t)) /\ t \subseteq SpikeImply(t)
  <2>1. \A x \in DOMAIN SpikeImplied : {"q", "zve64d"} \cap SpikeImplied[x] = {}
    BY DEF SpikeImplied
  <2>2. t \subseteq SpikeImply(t)
    BY Zenon DEF SpikeImply
  <2>3. ASSUME NEW x \in {"q", "zve64d"} PROVE x \notin SpikeImply(t)
    <3> DEFINE U == UNION { SpikeImplied[y] : y \in t \cap DOMAIN SpikeImplied }
               B == IF {"zba", "zbb", "zbs"} \subseteq t THEN {"b"} ELSE {}
    <3>1. x # "b" /\ x \notin t
      BY <1>2
    <3>2. x \notin U
      BY <2>1
    <3>3. x \notin B
      BY <3>1
    <3>4. SpikeImply(t) = t \cup U \cup B
      BY Zenon DEF SpikeImply
    <3> HIDE DEF U, B
    <3> QED BY <3>1, <3>2, <3>3, <3>4
  <2> QED BY <2>2, <2>3
<1>3. ASSUME NEW t, Plain(t)
      PROVE Plain(SpikeApplyImplications(t)) /\ t \subseteq SpikeApplyImplications(t)
  <2> HIDE DEF Plain
  <2> QED BY <1>2, <1>3 DEF SpikeApplyImplications, SpikeImply2
<1>4. /\ {"q", "zve64d"} \cap SpikeApplyImplications(s \cup {"zicsr"}) = {}
      /\ s \subseteq SpikeApplyImplications(s \cup {"zicsr"})
  BY <1>1, <1>3
<1> QED BY <1>4 DEF SpikeIsa

-----------------------------------------------------------------------------
(* The simulator that is found for a core.                                 *)

(* What SameMachine and RequiredMode say of one that was run.              *)
SameAs(i, m) ==
  \/ m.generic /\ testcase.base = 32
  \/ /\ m.base = testcase.base
     /\ "f" \in testcase.common =>
          SeenWidth([core |-> i, machine |-> m])
            = (IF "d" \in testcase.common THEN 64 ELSE 32)
InMode(i, m) ==
  m.unaligned \in Modes[i] /\ testcase.requirement \subseteq {m.unaligned}

LEMMA NamedFields ==
  ASSUME NEW i \in Core, NEW w \in {0, 32, 64}, testcase \in Testcases
  PROVE  /\ Named(i, w) \in Simulator
         /\ Named(i, w).base = testcase.base /\ Named(i, w).flen = w
         /\ Named(i, w).unaligned = AllowUnaligned(i) /\ Named(i, w).generic = FALSE
<1>1. testcase.base \in {32, 64} /\ AllowUnaligned(i) \in BOOLEAN
  BY TestcaseTyped, ModeRight DEF Bases
<1> QED BY <1>1 DEF Named, Simulator, Bases

(* Whatever core finds whatever binary, it is of the testcase's base and   *)
(* register width.                                                         *)
LEMMA FoundRight ==
  ASSUME testcase \in Testcases, NEW i \in testcase.cores,
         testcase.base \in SupportedBases[i], NEW m \in Binaries(i)
  PROVE  m \in Simulator /\ m.unaligned = AllowUnaligned(i) /\ SameAs(i, m)
<1> DEFINE b == testcase.base
           c == testcase.common
<1>1. i \in Core /\ b \in {32, 64} /\ c = Common(testcase.cores, b)
  BY TestcaseTyped DEF Bases
<1>2. c \subseteq Extensions(i, b)
  BY <1>1, CommonOfEach
<1>3. b = 64 /\ "f" \in c => "d" \in c
  <2>1. testcase.cores \in SUBSET Core
    BY TestcaseTyped
  <2> QED BY <1>1, <2>1, DoublesOf64
<1>4. b = 32 /\ i \in {"CVA6", "Vex"} => "d" \notin c
  BY <1>1, <1>2, FloatsOf
<1>5. b = 32 /\ i \in {"Ibex", "Kronos", "PicoRV32", "Srv32"} => "f" \notin c
  BY <1>1, <1>2, FloatsOf
<1>6. /\ i \in {"BoomV3", "BoomV4", "XiangShan"} => b = 64
      /\ i \in {"Vex", "Ibex", "Kronos", "PicoRV32", "Srv32"} => b = 32
  BY <1>1 DEF SupportedBases, Core
<1>7. i \in TakesOverride => Exts(i) = c
  BY DEF Exts, BuiltWith
<1>8. ASSUME NEW w \in {0, 32, 64}, m = Named(i, w), i # "Vex",
             "f" \in c => w = (IF "d" \in c THEN 64 ELSE 32)
      PROVE  m \in Simulator /\ m.unaligned = AllowUnaligned(i) /\ SameAs(i, m)
  BY <1>1, <1>8, NamedFields DEF SameAs, SeenWidth
<1>9. CASE i = "Rocket"
  BY <1>1, <1>3, <1>7, <1>8, <1>9 DEF Binaries, RocketBinaries, TakesOverride
<1>10. CASE i = "Spike"
  <2>1. c \in SUBSET (SpikeBoth \cup {"zkn"})
    BY <1>1, <1>2, <1>10 DEF Extensions, Extensions32, Extensions64, Core
  <2>2. Exts(i) = c
    BY <1>7, <1>10 DEF TakesOverride
  <2>3. PICK w \in {0, 32, 64} :
          /\ m = Named("Spike", w)
          /\ "d" \in SpikeIsa(c) => w = 64
          /\ "d" \notin SpikeIsa(c) /\ "f" \in SpikeIsa(c) => w = 32
    <3> DEFINE w == IF "d" \in SpikeIsa(c) THEN 64 ELSE IF "f" \in SpikeIsa(c) THEN 32 ELSE 0
    <3>1. m = Named("Spike", w)
      BY <2>2, <1>10, Zenon DEF Binaries, SpikeBinaries
    <3> QED BY <3>1
  <2>4. "f" \in c => w = (IF "d" \in c THEN 64 ELSE 32)
    BY <2>1, <2>3, SpikeFloats
  <2> QED BY <2>3, <2>4, <1>8, <1>10
<1>11. CASE i \in {"BoomV3", "BoomV4", "XiangShan"}
  <2>1. m = Named(i, 64)
    BY <1>11 DEF Binaries, BoomBinaries, XiangShanBinaries
  <2> QED BY <2>1, <1>3, <1>6, <1>8, <1>11
<1>12. CASE i = "CVA6"
  <2>1. CASE m = Named("CVA6", IF b = 32 THEN 32 ELSE 64)
    BY <2>1, <1>1, <1>3, <1>4, <1>8, <1>12
  <2>2. CASE m = [Named("CVA6", 64) EXCEPT !.base = 64, !.generic = TRUE]
    <3>1. /\ m \in Simulator /\ m.unaligned = AllowUnaligned(i)
          /\ m.generic = TRUE /\ m.base = 64 /\ m.flen = 64
      BY <2>2, <1>1, <1>12, NamedFields DEF Named, Simulator, Bases
    <3> QED BY <3>1, <1>1, <1>3, <1>12 DEF SameAs, SeenWidth
  <2> QED BY <2>1, <2>2, <1>12 DEF Binaries, Cva6Binaries
<1>13. CASE i = "Vex"
  <2>1. "d" \notin c
    BY <1>4, <1>6, <1>13
  <2>2. PICK w \in {32, 64} : m = Named("Vex", w)
    BY <2>1, <1>7, <1>13 DEF Binaries, VexBinaries, TakesOverride
  <2>3. "q" \notin c
    BY <1>2, <1>6, <1>13 DEF Extensions, Extensions32, VexExtensions, Core
  <2>4. SeenWidth([core |-> i, machine |-> m]) = 32
    BY <2>1, <2>3, <1>13 DEF SeenWidth
  <2>5. m \in Simulator /\ m.unaligned = AllowUnaligned(i) /\ m.base = b
    BY <2>2, <1>1, <1>13, NamedFields
  <2> QED BY <2>1, <2>4, <2>5 DEF SameAs
<1>14. CASE i \in {"Ibex", "Kronos", "PicoRV32", "Srv32"}
  <2>1. m = Named(i, 0)
    BY <1>14 DEF Binaries, IbexBinaries, KronosBinaries, PicoBinaries, Srv32Binaries
  <2> QED BY <2>1, <1>5, <1>6, <1>8, <1>14
<1> QED BY <1>1, <1>9, <1>10, <1>11, <1>12, <1>13, <1>14 DEF Core

-----------------------------------------------------------------------------
(* The inductive invariant.                                                *)

(* A core is in todo, the one being executed, or read.                     *)
Alone == core = {} \/ \E i \in testcase.cores : core = {i}
Apart == outputs \cap core = {} /\ outputs \cap todo = {} /\ core \cap todo = {}

(* Only a core that was not rejected is executed, and only on a simulator  *)
(* that was found for it.                                                  *)
Accepted == \A i \in core : ~Rejects(i)
Chosen == at \in {"nm", "simulate"} => \A i \in core : machine \in Binaries(i)

(* What the next step is tells which files of the core were made.          *)
FreshSource(i) == at \notin {"dispatch", "prepare", "source"} => files[i]["source"] = "new"
FreshScript(i) ==
  at \notin {"dispatch", "prepare", "source", "strings", "script"} => files[i]["script"] = "new"
FreshPreprocessed(i) == at = "assemble" => files[i]["preprocessed"] = "new"
FreshObject(i) == at = "link" => files[i]["object"] = "new"
FreshElf(i) ==
  at \in {"disassemble", "isa", "find", "nm", "simulate", "read"} => files[i]["elf"] = "new"
FreshDump(i) ==
  at \in {"isa", "find", "nm", "simulate", "read"} => files[i]["dump"] = "new"
Fresh ==
  result = "running" =>
    \A i \in core : /\ FreshSource(i) /\ FreshScript(i) /\ FreshPreprocessed(i)
                    /\ FreshObject(i) /\ FreshElf(i) /\ FreshDump(i)

(* What the two properties say of what was run and read.                   *)
RanRight ==
  \A r \in ran : /\ r.elf = "new" /\ testcase.common \subseteq r.exts
                 /\ SameAs(r.core, r.machine) /\ InMode(r.core, r.machine)
ReadRight == \A i \in outputs : files[i]["dump"] = "new"
Refused == result = "unsupported" => ~(testcase.filtered /\ Supported)

IInv ==
  /\ TypeOK /\ Alone /\ Apart /\ Accepted /\ Chosen /\ Fresh
  /\ RanRight /\ ReadRight /\ Refused

-----------------------------------------------------------------------------
(* The initial states, and what every step keeps.                          *)

LEMMA InitInvariant == Init => IInv
<1> SUFFICES ASSUME Init PROVE IInv
  OBVIOUS
<1>1. /\ testcase \in Testcases /\ todo = testcase.cores /\ core = {} /\ at = "dispatch"
      /\ machine = NoSimulator /\ ran = {} /\ outputs = {} /\ result = "running"
  BY DEF Init
<1>2. PICK f \in {"none", "old"} : files = [i \in testcase.cores |-> [a \in Artifacts |-> f]]
  BY DEF Init
<1>3. TypeOK
  <2>1. files \in [testcase.cores -> [Artifacts -> {"none", "old", "new"}]]
    BY <1>2
  <2>2. machine \in Simulator
    BY <1>1 DEF NoSimulator, Simulator, Bases
  <2>3. Cardinality(core) <= 1
    BY <1>1, FS_EmptySet
  <2> QED BY <1>1, <2>1, <2>2, <2>3 DEF TypeOK, Steps
<1> QED BY <1>1, <1>3 DEF IInv, Alone, Apart, Accepted, Chosen, Fresh, RanRight, ReadRight, Refused

(* Nothing that is decided by the testcase changes with the other state.   *)
LEMMA SameTestcase ==
  ASSUME testcase' = testcase
  PROVE  /\ \A i : AllowUnaligned(i)' = AllowUnaligned(i)
         /\ \A i : Rejects(i)' = Rejects(i)
         /\ \A i : Binaries(i)' = Binaries(i)
         /\ \A i, m : SameAs(i, m)' = SameAs(i, m)
         /\ \A i, m : InMode(i, m)' = InMode(i, m)
         /\ Supported' = Supported
<1>1. \A i : AllowUnaligned(i)' = AllowUnaligned(i)
  BY DEF AllowUnaligned
<1>2. \A i : Exts(i)' = Exts(i)
  BY DEF Exts
<1>3. \A i, w : Named(i, w)' = Named(i, w)
  BY <1>1 DEF Named
<1>4. \A i : Binaries(i)' = Binaries(i)
  BY <1>2, <1>3 DEF Binaries, RocketBinaries, SpikeBinaries, BoomBinaries, XiangShanBinaries,
     Cva6Binaries, VexBinaries, IbexBinaries, KronosBinaries, PicoBinaries, Srv32Binaries
<1>5. \A i : Rejects(i)' = Rejects(i)
  BY <1>1 DEF Rejects
<1>6. \A i, m : SameAs(i, m)' = SameAs(i, m)
  BY DEF SameAs, SeenWidth
<1>7. \A i, m : InMode(i, m)' = InMode(i, m)
  BY DEF InMode
<1>8. Supported' = Supported
  BY DEF Supported
<1> QED BY <1>1, <1>4, <1>5, <1>6, <1>7, <1>8

FilesTyped == files \in [testcase.cores -> [Artifacts -> {"none", "old", "new"}]]

(* A step of core i changes no files but its own.                          *)
OthersKept(i) == \A j \in testcase.cores \ {i} : files'[j] = files[j]

LEMMA OneOf ==
  ASSUME NEW i, i \in core, Alone
  PROVE  core = {i}
BY DEF Alone

(* An error ends the execution: the files of the core are not relied on.   *)
LEMMA FailKeeps ==
  ASSUME IInv, NEW i \in core, NEW e \in Errors, Fail(e),
         FilesTyped', OthersKept(i),
         e = "unsupported" => ~(testcase.filtered /\ Supported)
  PROVE  IInv'
<1>1. /\ result' = e /\ testcase' = testcase /\ todo' = todo /\ core' = core /\ at' = at
      /\ machine' = machine /\ ran' = ran /\ outputs' = outputs
  BY DEF Fail
<1>2. TypeOK'
  BY <1>1 DEF IInv, TypeOK, FilesTyped, Exts
<1>3. Alone' /\ Apart' /\ Accepted' /\ Chosen'
  BY <1>1, SameTestcase DEF IInv, Alone, Apart, Accepted, Chosen
<1>4. Fresh'
  BY <1>1 DEF Fresh, Errors
<1>5. RanRight'
  BY <1>1, SameTestcase DEF IInv, RanRight
<1>6. ReadRight'
  BY <1>1 DEF IInv, ReadRight, Apart, OthersKept, TypeOK
<1>7. Refused'
  BY <1>1, SameTestcase DEF Refused
<1> QED BY <1>2, <1>3, <1>4, <1>5, <1>6, <1>7 DEF IInv

(* A step of the build, or one that looks for the simulator.               *)
LEMMA GoKeeps ==
  ASSUME IInv, NEW i \in core, result = "running", Keep, result' = result,
         NEW s \in Steps, Go(s), FilesTyped', OthersKept(i),
         machine' \in Simulator,
         s \in {"nm", "simulate"} => machine' \in Binaries(i),
         FreshSource(i)', FreshScript(i)', FreshPreprocessed(i)',
         FreshObject(i)', FreshElf(i)', FreshDump(i)'
  PROVE  IInv'
<1>1. /\ result' = "running" /\ testcase' = testcase /\ todo' = todo /\ core' = core
      /\ at' = s /\ ran' = ran /\ outputs' = outputs
  BY DEF Keep, Go
<1>2. core = {i}
  BY OneOf DEF IInv
<1>3. TypeOK'
  BY <1>1 DEF IInv, TypeOK, FilesTyped, Exts
<1>4. Alone' /\ Apart' /\ Accepted'
  BY <1>1, SameTestcase DEF IInv, Alone, Apart, Accepted
<1>5. Chosen'
  BY <1>1, <1>2, SameTestcase DEF Chosen
<1>6. Fresh'
  BY <1>1, <1>2 DEF Fresh
<1>7. RanRight'
  BY <1>1, SameTestcase DEF IInv, RanRight
<1>8. ReadRight'
  BY <1>1 DEF IInv, ReadRight, Apart, OthersKept, TypeOK
<1>9. Refused'
  BY <1>1 DEF Refused
<1> QED BY <1>3, <1>4, <1>5, <1>6, <1>7, <1>8, <1>9 DEF IInv

(* A file that was made is new; a tool that failed leaves what was there,  *)
(* or nothing.                                                             *)
LEMMA MadeFiles ==
  ASSUME TypeOK, NEW i \in testcase.cores, NEW a \in Artifacts, testcase' = testcase,
         NEW v \in {"none", "old", "new"}, files' = [files EXCEPT ![i][a] = v]
  PROVE  /\ FilesTyped' /\ OthersKept(i) /\ files'[i][a] = v
         /\ \A c \in Artifacts \ {a} : files'[i][c] = files[i][c]
BY DEF TypeOK, FilesTyped, OthersKept

LEMMA SpoiltFiles ==
  ASSUME TypeOK, NEW i \in testcase.cores, NEW a \in Artifacts, testcase' = testcase,
         Spoil(i, a)
  PROVE  FilesTyped' /\ OthersKept(i)
<1>1. CASE files' = files
  BY <1>1 DEF TypeOK, FilesTyped, OthersKept
<1>2. CASE files' = [files EXCEPT ![i][a] = "none"]
  BY <1>2, MadeFiles
<1> QED BY <1>1, <1>2 DEF Spoil

LEMMA KeptFiles ==
  ASSUME TypeOK, NEW i, testcase' = testcase, files' = files
  PROVE  FilesTyped' /\ OthersKept(i)
BY DEF TypeOK, FilesTyped, OthersKept

LEMMA FreshNow ==
  ASSUME IInv, NEW i \in core, result = "running"
  PROVE  /\ i \in testcase.cores /\ i \in Core /\ machine \in Simulator /\ TypeOK
         /\ FreshSource(i) /\ FreshScript(i) /\ FreshPreprocessed(i)
         /\ FreshObject(i) /\ FreshElf(i) /\ FreshDump(i)
<1>1. i \in testcase.cores /\ testcase \in Testcases
  BY DEF IInv, TypeOK
<1> QED BY <1>1, TestcaseTyped DEF IInv, TypeOK, Fresh

-----------------------------------------------------------------------------
(* The steps.                                                              *)

LEMMA DispatchKeeps ==
  ASSUME IInv, NEW i \in Core, Dispatch(i)
  PROVE  IInv'
<1>1. result = "running" /\ core = {} /\ i \in todo /\ files' = files
  BY DEF Dispatch
<1>2. i \in testcase.cores /\ testcase \in Testcases /\ TypeOK
  BY <1>1 DEF IInv, TypeOK
<1>3. CASE Rejects(i) /\ Fail("unsupported")
  <2>1. /\ result' = "unsupported" /\ testcase' = testcase /\ todo' = todo /\ core' = core
        /\ at' = at /\ machine' = machine /\ ran' = ran /\ outputs' = outputs
    BY <1>3 DEF Fail
  <2>2. TypeOK'
    BY <1>1, <1>2, <2>1 DEF TypeOK, Exts, Errors
  <2>3. Alone' /\ Apart' /\ Accepted' /\ Chosen' /\ RanRight' /\ ReadRight'
    BY <1>1, <2>1, SameTestcase
    DEF IInv, Alone, Apart, Accepted, Chosen, RanRight, ReadRight
  <2>4. Fresh'
    BY <2>1 DEF Fresh
  <2>5. ~(testcase.filtered /\ Supported)
    <3>1. SUFFICES ASSUME testcase.filtered, Supported PROVE FALSE
      OBVIOUS
    <3>2. testcase.base \in SupportedBases[i]
      BY <1>2, <3>1 DEF Supported
    <3>3. testcase.requirement \in {{}, {FALSE}, {TRUE}} /\ testcase.requirement \subseteq Modes[i]
      BY <1>2, <3>1, TestcaseTyped
    <3>4. AllowUnaligned(i) \in Modes[i]
      BY <3>3, ModeRight
    <3> QED BY <1>3, <3>2, <3>4 DEF Rejects
  <2>6. Refused'
    BY <2>1, <2>5, SameTestcase DEF Refused
  <2> QED BY <2>2, <2>3, <2>4, <2>6 DEF IInv
<1>4. CASE /\ ~Rejects(i) /\ core' = {i} /\ todo' = todo \ {i} /\ Go("prepare")
           /\ UNCHANGED <<testcase, files, machine, ran, outputs, result>>
  <2>1. /\ result' = "running" /\ testcase' = testcase /\ todo' = todo \ {i} /\ core' = {i}
        /\ at' = "prepare" /\ machine' = machine /\ ran' = ran /\ outputs' = outputs
    BY <1>1, <1>4 DEF Go
  <2>2. Cardinality({i}) <= 1
    <3>1. Cardinality({i}) = 1
      BY FS_Singleton, Zenon
    <3> QED BY <3>1
  <2>3. TypeOK'
    BY <1>1, <1>2, <2>1, <2>2 DEF TypeOK, Exts, Steps
  <2>4. Alone' /\ Apart'
    BY <1>1, <1>2, <2>1 DEF IInv, Alone, Apart
  <2>5. Accepted'
    BY <1>4, <2>1, SameTestcase DEF Accepted
  <2>6. Chosen'
    BY <2>1 DEF Chosen
  <2>7. Fresh'
    BY <2>1 DEF Fresh, FreshSource, FreshScript, FreshPreprocessed, FreshObject, FreshElf, FreshDump
  <2>8. RanRight' /\ ReadRight'
    BY <1>1, <2>1, SameTestcase DEF IInv, RanRight, ReadRight
  <2>9. Refused'
    BY <2>1 DEF Refused
  <2> QED BY <2>3, <2>4, <2>5, <2>6, <2>7, <2>8, <2>9 DEF IInv
<1> QED BY <1>1, <1>3, <1>4 DEF Dispatch

(* A step that makes or changes no file and finds no simulator.            *)
LEMMA PlainKeeps ==
  ASSUME IInv, NEW i \in core, NEW s \in Steps, On(i, at), Go(s), Keep,
         UNCHANGED <<machine, result, files>>,
         <<at, s>> \in {<<"prepare", "source">>, <<"strings", "script">>, <<"isa", "find">>,
                       <<"nm", "simulate">>}
  PROVE  IInv'
<1>1. result = "running" /\ testcase' = testcase /\ files' = files /\ machine' = machine
      /\ at' = s /\ result' = result
  BY DEF On, Keep, Go
<1>2. /\ i \in testcase.cores /\ machine \in Simulator /\ TypeOK
      /\ FreshSource(i) /\ FreshScript(i) /\ FreshPreprocessed(i)
      /\ FreshObject(i) /\ FreshElf(i) /\ FreshDump(i)
  BY <1>1, FreshNow
<1>3. FilesTyped' /\ OthersKept(i)
  BY <1>1, <1>2, KeptFiles
<1>4. FreshSource(i)' /\ FreshScript(i)' /\ FreshPreprocessed(i)'
  BY <1>1, <1>2 DEF FreshSource, FreshScript, FreshPreprocessed
<1>5. FreshObject(i)' /\ FreshElf(i)' /\ FreshDump(i)'
  BY <1>1, <1>2 DEF FreshObject, FreshElf, FreshDump
<1>6. s \in {"nm", "simulate"} => machine \in Binaries(i)
  BY DEF IInv, Chosen
<1> QED BY <1>1, <1>2, <1>3, <1>4, <1>5, <1>6, GoKeeps

LEMMA FailedKeeps ==
  ASSUME IInv, NEW i \in core, result = "running", NEW e \in Errors \ {"unsupported"}, Fail(e),
         \/ files' = files
         \/ \E a \in Artifacts : Spoil(i, a)
  PROVE  IInv'
<1>1. testcase' = testcase /\ i \in testcase.cores /\ TypeOK
  BY FreshNow DEF Fail
<1>2. FilesTyped' /\ OthersKept(i)
  BY <1>1, KeptFiles, SpoiltFiles
<1> QED BY <1>2, FailKeeps

LEMMA WritingKeeps ==
  ASSUME IInv, NEW i \in Core, WriteSource(i) \/ WriteScript(i)
  PROVE  IInv'
<1>1. /\ result = "running" /\ i \in core /\ at \in {"source", "script"}
  BY DEF WriteSource, WriteScript, On
<1>2. /\ i \in testcase.cores /\ machine \in Simulator /\ TypeOK
      /\ FreshSource(i)
  BY <1>1, FreshNow
<1>3. CASE /\ at = "source" /\ files' = [files EXCEPT ![i]["source"] = "new"]
           /\ Go("strings") /\ Keep /\ UNCHANGED <<machine, result>>
  <2>1. testcase' = testcase /\ at' = "strings" /\ machine' = machine /\ result' = result
    BY <1>3 DEF Keep, Go
  <2>2. FilesTyped' /\ OthersKept(i) /\ files'[i]["source"] = "new"
    BY <1>2, <1>3, <2>1, MadeFiles DEF Artifacts
  <2>3. /\ FreshSource(i)' /\ FreshScript(i)' /\ FreshPreprocessed(i)'
        /\ FreshObject(i)' /\ FreshElf(i)' /\ FreshDump(i)'
    BY <2>1, <2>2
    DEF FreshSource, FreshScript, FreshPreprocessed, FreshObject, FreshElf, FreshDump
  <2>4. "strings" \in Steps /\ "strings" \notin {"nm", "simulate"}
    BY DEF Steps
  <2> QED BY <1>1, <1>2, <1>3, <2>1, <2>2, <2>3, <2>4, GoKeeps
<1>4. CASE /\ at = "script" /\ files' = [files EXCEPT ![i]["script"] = "new"]
           /\ Go("preprocess") /\ Keep /\ UNCHANGED <<machine, result>>
  <2>1. testcase' = testcase /\ at' = "preprocess" /\ machine' = machine /\ result' = result
    BY <1>4 DEF Keep, Go
  <2>2. FilesTyped' /\ OthersKept(i) /\ files'[i]["script"] = "new"
        /\ files'[i]["source"] = files[i]["source"]
    <3>1. "script" \in Artifacts /\ "source" \in Artifacts \ {"script"}
      BY DEF Artifacts
    <3>2. "new" \in {"none", "old", "new"}
      OBVIOUS
    <3>3. files' = [files EXCEPT ![i]["script"] = "new"]
      BY <1>4
    <3>4. /\ FilesTyped' /\ OthersKept(i) /\ files'[i]["script"] = "new"
          /\ \A c \in Artifacts \ {"script"} : files'[i][c] = files[i][c]
      BY <1>2, <2>1, <3>1, <3>2, <3>3, MadeFiles
    <3> QED BY <3>1, <3>4
  <2>3. /\ FreshSource(i)' /\ FreshScript(i)' /\ FreshPreprocessed(i)'
        /\ FreshObject(i)' /\ FreshElf(i)' /\ FreshDump(i)'
    BY <1>2, <1>4, <2>1, <2>2
    DEF FreshSource, FreshScript, FreshPreprocessed, FreshObject, FreshElf, FreshDump
  <2>4. "preprocess" \in Steps /\ "preprocess" \notin {"nm", "simulate"}
    BY DEF Steps
  <2> QED BY <1>1, <1>2, <1>4, <2>1, <2>2, <2>3, <2>4, GoKeeps
<1>5. CASE Fail("failed") /\ (Spoil(i, "source") \/ Spoil(i, "script"))
  <2>1. "failed" \in Errors \ {"unsupported"} /\ {"source", "script"} \subseteq Artifacts
    BY DEF Errors, Artifacts
  <2> QED BY <1>1, <1>5, <2>1, FailedKeeps
<1> QED BY <1>3, <1>4, <1>5 DEF WriteSource, WriteScript, On

(* The tools: what one makes is new because what it was made from is.      *)
LEMMA ToolKeeps ==
  ASSUME IInv, NEW i \in Core,
         Preprocess(i) \/ Assemble(i) \/ Link(i) \/ Disassemble(i)
  PROVE  IInv'
<1>1. /\ result = "running" /\ i \in core
      /\ at \in {"preprocess", "assemble", "link", "disassemble"}
  BY DEF Preprocess, Assemble, Link, Disassemble, Tool, On
<1>2. /\ i \in testcase.cores /\ machine \in Simulator /\ TypeOK
      /\ FreshSource(i) /\ FreshScript(i) /\ FreshPreprocessed(i)
      /\ FreshObject(i) /\ FreshElf(i) /\ FreshDump(i)
  BY <1>1, FreshNow
<1>3. ASSUME NEW inputs, NEW a \in Artifacts, NEW s \in Steps,
             \A c \in inputs : files[i][c] = "new",
             files' = [files EXCEPT ![i][a] = Made(i, inputs)],
             Go(s), Keep, UNCHANGED <<machine, result>>,
             <<at, a, s>> \in {<<"preprocess", "preprocessed", "assemble">>,
                              <<"assemble", "object", "link">>,
                              <<"link", "elf", "disassemble">>,
                              <<"disassemble", "dump", "isa">>}
      PROVE  IInv'
  <2>1. testcase' = testcase /\ at' = s /\ machine' = machine /\ result' = result
    BY <1>3 DEF Keep, Go
  <2>2. Made(i, inputs) = "new"
    BY <1>3 DEF Made
  <2>3. /\ FilesTyped' /\ OthersKept(i) /\ files'[i][a] = "new"
        /\ \A c \in Artifacts \ {a} : files'[i][c] = files[i][c]
    BY <1>2, <1>3, <2>1, <2>2, MadeFiles
  <2>4. FreshSource(i)' /\ FreshScript(i)'
    BY <1>2, <1>3, <2>1, <2>3 DEF FreshSource, FreshScript, Artifacts
  <2>5. FreshPreprocessed(i)' /\ FreshObject(i)'
    BY <1>2, <1>3, <2>1, <2>3 DEF FreshPreprocessed, FreshObject, Artifacts
  <2>6. FreshElf(i)' /\ FreshDump(i)'
    BY <1>2, <1>3, <2>1, <2>3 DEF FreshElf, FreshDump, Artifacts
  <2>7. s \notin {"nm", "simulate"}
    BY <1>3
  <2> QED BY <1>1, <1>2, <1>3, <2>1, <2>3, <2>4, <2>5, <2>6, <2>7, GoKeeps
<1>4. ASSUME NEW a \in Artifacts, Fail("failed") /\ Spoil(i, a) PROVE IInv'
  BY <1>1, <1>4, FailedKeeps DEF Errors
<1>5. CASE Preprocess(i)
  <2>1. at = "preprocess" /\ files[i]["source"] = "new"
    BY <1>2, <1>5 DEF Preprocess, Tool, On, FreshSource
  <2> QED BY <1>3, <1>4, <1>5, <2>1 DEF Preprocess, Tool, Artifacts, Steps
<1>6. CASE Assemble(i)
  <2>1. at = "assemble" /\ files[i]["preprocessed"] = "new"
    BY <1>2, <1>6 DEF Assemble, Tool, On, FreshPreprocessed
  <2> QED BY <1>3, <1>4, <1>6, <2>1 DEF Assemble, Tool, Artifacts, Steps
<1>7. CASE Link(i)
  <2>1. at = "link" /\ files[i]["object"] = "new" /\ files[i]["script"] = "new"
    BY <1>2, <1>7 DEF Link, Tool, On, FreshObject, FreshScript
  <2> QED BY <1>3, <1>4, <1>7, <2>1 DEF Link, Tool, Artifacts, Steps
<1>8. CASE Disassemble(i)
  <2>1. at = "disassemble" /\ files[i]["elf"] = "new"
    BY <1>2, <1>8 DEF Disassemble, Tool, On, FreshElf
  <2> QED BY <1>3, <1>4, <1>8, <2>1 DEF Disassemble, Tool, Artifacts, Steps
<1> QED BY <1>5, <1>6, <1>7, <1>8

LEMMA FindKeeps ==
  ASSUME IInv, NEW i \in Core, FindBinary(i)
  PROVE  IInv'
<1>1. result = "running" /\ i \in core /\ at = "find" /\ files' = files
  BY DEF FindBinary, On
<1>2. /\ i \in testcase.cores /\ TypeOK
      /\ FreshSource(i) /\ FreshScript(i) /\ FreshElf(i) /\ FreshDump(i)
  BY <1>1, FreshNow
<1>3. CASE Fail("missing")
  BY <1>1, <1>3, FailedKeeps DEF Errors
<1>4. CASE /\ machine' \in Binaries(i)
           /\ Go(IF i = "CVA6" THEN "nm" ELSE "simulate") /\ Keep /\ UNCHANGED result
  <2>1. testcase' = testcase /\ result' = result
    BY <1>4 DEF Keep
  <2>2. FilesTyped' /\ OthersKept(i)
    BY <1>1, <1>2, <2>1, KeptFiles
  <2>3. machine' \in Simulator
    <3>1. ~Rejects(i)
      BY <1>1 DEF IInv, Accepted
    <3>2. testcase \in Testcases /\ testcase.base \in SupportedBases[i]
      BY <1>2, <3>1 DEF TypeOK, Rejects
    <3> QED BY <1>2, <1>4, <3>2, FoundRight
  <2>4. ASSUME NEW s \in {"nm", "simulate"}, Go(s) PROVE IInv'
    <3>1. at' = s /\ s \in Steps
      BY <2>4 DEF Go, Steps
    <3>2. FreshSource(i)' /\ FreshScript(i)' /\ FreshPreprocessed(i)'
      BY <1>1, <1>2, <2>4, <3>1 DEF FreshSource, FreshScript, FreshPreprocessed
    <3>3. FreshObject(i)' /\ FreshElf(i)' /\ FreshDump(i)'
      BY <1>1, <1>2, <2>4, <3>1 DEF FreshObject, FreshElf, FreshDump
    <3> QED BY <1>1, <1>4, <2>1, <2>2, <2>3, <2>4, <3>1, <3>2, <3>3, GoKeeps
  <2> QED BY <1>4, <2>4
<1> QED BY <1>3, <1>4 DEF FindBinary

LEMMA SimulateKeeps ==
  ASSUME IInv, NEW i \in Core, Simulate(i)
  PROVE  IInv'
<1>1. result = "running" /\ i \in core /\ at = "simulate" /\ files' = files
  BY DEF Simulate, On
<1>2. /\ i \in testcase.cores /\ machine \in Simulator /\ TypeOK
      /\ FreshSource(i) /\ FreshScript(i) /\ FreshElf(i) /\ FreshDump(i)
  BY <1>1, FreshNow
<1>3. CASE Fail("failed")
  BY <1>1, <1>3, FailedKeeps DEF Errors
<1>4. CASE /\ ran' = ran \cup {[core |-> i, machine |-> machine, elf |-> files[i]["elf"],
                               exts |-> March(testcase.base, Exts(i))]}
           /\ Go("read") /\ UNCHANGED <<testcase, todo, core, outputs, machine, result>>
  <2> DEFINE r == [core |-> i, machine |-> machine, elf |-> files[i]["elf"],
                   exts |-> March(testcase.base, Exts(i))]
  <2>1. /\ testcase' = testcase /\ todo' = todo /\ core' = core /\ outputs' = outputs
        /\ machine' = machine /\ result' = result /\ at' = "read"
    BY <1>4 DEF Go
  <2>2. files[i]["elf"] = "new"
    BY <1>1, <1>2 DEF FreshElf
  <2>3. TypeOK'
    BY <1>1, <1>2, <1>4, <2>1, <2>2 DEF TypeOK, Exts, Steps
  <2>4. Alone' /\ Apart' /\ Accepted' /\ ReadRight' /\ Refused'
    BY <1>1, <2>1, SameTestcase DEF IInv, Alone, Apart, Accepted, ReadRight, Refused
  <2>5. Chosen'
    BY <2>1 DEF Chosen
  <2>6. Fresh'
    <3>1. core = {i}
      BY <1>1, OneOf DEF IInv
    <3>2. FreshSource(i)' /\ FreshScript(i)' /\ FreshElf(i)' /\ FreshDump(i)'
      BY <1>1, <1>2, <2>1 DEF FreshSource, FreshScript, FreshElf, FreshDump
    <3>3. FreshPreprocessed(i)' /\ FreshObject(i)'
      BY <2>1 DEF FreshPreprocessed, FreshObject
    <3> QED BY <2>1, <3>1, <3>2, <3>3 DEF Fresh
  <2>7. r.elf = "new" /\ testcase.common \subseteq r.exts
        /\ SameAs(i, machine) /\ InMode(i, machine)
    <3>1. ~Rejects(i) /\ machine \in Binaries(i)
      BY <1>1 DEF IInv, Accepted, Chosen
    <3>2. /\ testcase \in Testcases /\ testcase.base \in SupportedBases[i]
          /\ AllowUnaligned(i) \in Modes[i]
      BY <1>2, <3>1 DEF TypeOK, Rejects
    <3>3. machine.unaligned = AllowUnaligned(i) /\ SameAs(i, machine)
      BY <1>2, <3>1, <3>2, FoundRight
    <3>4. /\ testcase.base \in Bases /\ testcase.requirement \in {{}, {FALSE}, {TRUE}}
          /\ testcase.common = Common(testcase.cores, testcase.base)
      BY <3>2, TestcaseTyped
    <3>5. InMode(i, machine)
      BY <3>2, <3>3, <3>4, ModeRight DEF InMode
    <3>6. testcase.common \subseteq Exts(i)
      BY <1>2, <3>4, BuiltWithCommon DEF Exts
    <3>7. Exts(i) \subseteq March(testcase.base, Exts(i))
      BY <3>4, MarchNames
    <3> QED BY <2>2, <3>3, <3>5, <3>6, <3>7
  <2>8. RanRight'
    <3>1. ASSUME NEW q \in ran'
          PROVE  /\ q.elf = "new" /\ testcase.common \subseteq q.exts
                 /\ SameAs(q.core, q.machine) /\ InMode(q.core, q.machine)
      <4>1. CASE q \in ran
        BY <4>1 DEF IInv, RanRight
      <4>2. CASE q = r
        <5>1. q.core = i /\ q.machine = machine
          BY <4>2
        <5> QED BY <4>2, <5>1, <2>7
      <4> QED BY <1>4, <3>1, <4>1, <4>2
    <3> QED BY <2>1, <3>1, SameTestcase DEF RanRight
  <2> QED BY <2>3, <2>4, <2>5, <2>6, <2>8 DEF IInv
<1> QED BY <1>3, <1>4 DEF Simulate

LEMMA ReadKeeps ==
  ASSUME IInv, NEW i \in Core, Read(i)
  PROVE  IInv'
<1>1. result = "running" /\ i \in core /\ at = "read" /\ files' = files
  BY DEF Read, On
<1>2. i \in testcase.cores /\ machine \in Simulator /\ TypeOK /\ FreshDump(i)
  BY <1>1, FreshNow
<1>3. CASE Fail("failed")
  BY <1>1, <1>3, FailedKeeps DEF Errors
<1>4. CASE /\ outputs' = outputs \cup {i} /\ core' = {} /\ Go("dispatch")
           /\ machine' = NoSimulator /\ UNCHANGED <<testcase, todo, ran, result>>
  <2>1. /\ testcase' = testcase /\ todo' = todo /\ ran' = ran /\ result' = result
        /\ at' = "dispatch"
    BY <1>4 DEF Go
  <2>2. TypeOK'
    <3>1. machine' \in Simulator
      BY <1>4 DEF NoSimulator, Simulator, Bases
    <3>2. Cardinality(core') <= 1
      BY <1>4, FS_EmptySet
    <3> QED BY <1>1, <1>2, <1>4, <2>1, <3>1, <3>2 DEF TypeOK, Exts, Steps
  <2>3. Alone' /\ Accepted' /\ Fresh' /\ Chosen'
    BY <1>4, <2>1 DEF Alone, Accepted, Fresh, Chosen
  <2>4. Apart'
    BY <1>1, <1>4, <2>1 DEF IInv, Apart
  <2>5. RanRight' /\ Refused'
    BY <2>1, SameTestcase DEF IInv, RanRight, Refused
  <2>6. ReadRight'
    BY <1>1, <1>2, <1>4 DEF IInv, ReadRight, FreshDump
  <2> QED BY <2>2, <2>3, <2>4, <2>5, <2>6 DEF IInv
<1> QED BY <1>3, <1>4 DEF Read

LEMMA RestKeeps ==
  ASSUME IInv, NEW i \in Core,
         Prepare(i) \/ BuildStrings(i) \/ BuildIsa(i) \/ LocateToHost(i)
  PROVE  IInv'
<1>1. result = "running" /\ i \in core /\ On(i, at) /\ files' = files
  BY DEF Prepare, BuildStrings, BuildIsa, LocateToHost, On
<1>2. ASSUME NEW e \in {"failed", "strings", "missing"}, Fail(e) PROVE IInv'
  BY <1>1, <1>2, FailedKeeps DEF Errors
<1>3. ASSUME NEW s \in Steps, Go(s), Keep, UNCHANGED <<machine, result>>,
             <<at, s>> \in {<<"prepare", "source">>, <<"strings", "script">>, <<"isa", "find">>,
                           <<"nm", "simulate">>}
      PROVE  IInv'
  BY <1>1, <1>3, PlainKeeps
<1>4. CASE Prepare(i)
  BY <1>2, <1>3, <1>4 DEF Prepare, On, Steps
<1>5. CASE BuildStrings(i)
  BY <1>2, <1>3, <1>5 DEF BuildStrings, On, Steps
<1>6. CASE BuildIsa(i)
  BY <1>2, <1>3, <1>6 DEF BuildIsa, On, Steps
<1>7. CASE LocateToHost(i)
  BY <1>2, <1>3, <1>7 DEF LocateToHost, On, Steps
<1> QED BY <1>4, <1>5, <1>6, <1>7

LEMMA ReturnKeeps ==
  ASSUME IInv, Return
  PROVE  IInv'
<1>1. /\ testcase' = testcase /\ todo' = todo /\ core' = core /\ at' = at /\ files' = files
      /\ machine' = machine /\ ran' = ran /\ outputs' = outputs /\ result' \in {"ok", "failed"}
  BY DEF Return
<1>2. TypeOK'
  BY <1>1 DEF IInv, TypeOK, Exts, Errors
<1>3. Alone' /\ Apart' /\ Accepted' /\ Chosen' /\ RanRight' /\ ReadRight'
  BY <1>1, SameTestcase
  DEF IInv, Alone, Apart, Accepted, Chosen, RanRight, ReadRight
<1>4. Fresh' /\ Refused'
  BY <1>1 DEF Fresh, Refused
<1> QED BY <1>2, <1>3, <1>4 DEF IInv

LEMMA StutterKeeps ==
  ASSUME IInv, UNCHANGED vars
  PROVE  IInv'
<1>1. /\ testcase' = testcase /\ todo' = todo /\ core' = core /\ at' = at /\ files' = files
      /\ machine' = machine /\ ran' = ran /\ outputs' = outputs /\ result' = result
  BY DEF vars
<1>2. TypeOK'
  BY <1>1 DEF IInv, TypeOK, Exts
<1>3. Alone' /\ Apart' /\ Accepted' /\ Chosen' /\ RanRight' /\ ReadRight' /\ Refused'
  BY <1>1, SameTestcase
  DEF IInv, Alone, Apart, Accepted, Chosen, RanRight, ReadRight, Refused
<1>4. Fresh'
  BY <1>1 DEF IInv, Fresh, FreshSource, FreshScript, FreshPreprocessed, FreshObject, FreshElf, FreshDump
<1> QED BY <1>2, <1>3, <1>4 DEF IInv

LEMMA Invariance == Spec => []IInv
<1>1. IInv /\ [Next]_vars => IInv'
  <2>1. SUFFICES ASSUME IInv, [Next]_vars PROVE IInv'
    OBVIOUS
  <2>2. CASE UNCHANGED vars
    BY <2>1, <2>2, StutterKeeps
  <2>3. CASE Return
    BY <2>1, <2>3, ReturnKeeps
  <2>4. ASSUME NEW i \in Core,
               \/ Dispatch(i) \/ Prepare(i) \/ WriteSource(i) \/ BuildStrings(i) \/ WriteScript(i)
               \/ Preprocess(i) \/ Assemble(i) \/ Link(i) \/ Disassemble(i) \/ BuildIsa(i)
               \/ FindBinary(i) \/ LocateToHost(i) \/ Simulate(i) \/ Read(i)
        PROVE  IInv'
    BY <2>1, <2>4, DispatchKeeps, WritingKeeps, ToolKeeps, RestKeeps, FindKeeps, SimulateKeeps,
       ReadKeeps, Zenon
  <2> QED BY <2>1, <2>2, <2>3, <2>4 DEF Next
<1> QED BY InitInvariant, <1>1, PTL DEF Spec

-----------------------------------------------------------------------------
(* The files, the simulators and the results of the cores are what they    *)
(* can be, and one core is executed at a time.                             *)
THEOREM TypeCorrect == Spec => []TypeOK
<1>1. IInv => TypeOK
  BY DEF IInv
<1> QED BY Invariance, <1>1, PTL

(* Whatever cores are asked for together: each runs the testcase on a      *)
(* machine of its base and register width, in the alignment mode that was  *)
(* required, and differential analysis asks no core that refuses.          *)
THEOREM RightMachineHolds == Spec => []RightMachine
<1>1. IInv => RightMachine
  <2>1. SUFFICES ASSUME IInv PROVE RightMachine
    OBVIOUS
  <2>2. ASSUME NEW r \in ran
        PROVE SameAs(r.core, r.machine) /\ InMode(r.core, r.machine)
    BY <2>1 DEF IInv, RanRight
  <2>3. ASSUME NEW r \in ran
        PROVE SeenWidth([core |-> r.core, machine |-> r.machine]) = SeenWidth(r)
    BY DEF SeenWidth
  <2>4. SameMachine
    BY <2>2, <2>3 DEF SameMachine, SameAs
  <2>5. RequiredMode
    BY <2>1, <2>2 DEF IInv, Refused, RequiredMode, InMode
  <2> QED BY <2>4, <2>5 DEF RightMachine
<1> QED BY Invariance, <1>1, PTL

(* Whatever an earlier execution left in the directory: what is simulated  *)
(* and what its trace is explained with was made from this testcase, with  *)
(* every extension it is made of.                                          *)
THEOREM OwnProgramHolds == Spec => []OwnProgram
<1>1. IInv => OwnProgram
  BY DEF IInv, RanRight, ReadRight, OwnProgram
<1> QED BY Invariance, <1>1, PTL

-----------------------------------------------------------------------------
(* The closure of the tables: the pass at which an extension can come in   *)
(* at the latest, counted from 1; 0 for one that nothing implies.          *)
Pass1 == {"ssaia", "ssstateen", "zaamo", "zalrsc", "zba", "zbb", "zbs", "zcb", "zcmp", "zcmt",
          "zfbfmin", "zhinxmin", "zimop", "zkn", "zkr", "zksed", "zksh", "zkt", "zmmul", "zvbc",
          "zve64d", "zvfbfmin", "zvkg", "zvkn", "zvks", "zvl32768b"}
Pass2 == {"d", "zbkb", "zbkc", "zbkx", "zfhmin", "zfinx", "zknd", "zkne", "zknh", "zve64f", "zvkb",
          "zvkned", "zvknhb", "zvksed", "zvksh", "zvkt", "zvl16384b"}
PassOf(x) ==
  IF x \in Pass1 THEN 1 ELSE
  IF x \in Pass2 THEN 2 ELSE
  IF x \in {"zcd", "zve32f", "zve64x", "zvl8192b"} THEN 3 ELSE
  IF x \in {"f", "zca", "zve32x", "zvl4096b"} THEN 4 ELSE
  IF x \in {"zcf", "zfa", "zicsr", "zvl2048b"} THEN 5 ELSE
  IF x = "zvl1024b" THEN 6 ELSE
  IF x = "zvl512b" THEN 7 ELSE
  IF x = "zvl256b" THEN 8 ELSE
  IF x = "zvl128b" THEN 9 ELSE
  IF x = "zvl64b" THEN 10 ELSE
  IF x = "zvl32b" THEN 11 ELSE 0

(* A row of a table names what comes in later, the two extensions that     *)
(* imply each other apart.                                                 *)
Later(table) ==
  \A x \in DOMAIN table : \A y \in table[x] :
    /\ PassOf(x) < PassOf(y) \/ (x = "zfa" /\ y = "f")
    /\ y = "zfa" => x = "f"

LEMMA LaterLetters == Later(ImpliedByLetters)
BY SMTT(60) DEF Later, PassOf, ImpliedByLetters, Pass1, Pass2
LEMMA LaterScalarCrypto == Later(ImpliedByScalarCrypto)
BY SMTT(60) DEF Later, PassOf, ImpliedByScalarCrypto, Pass1, Pass2
LEMMA LaterVectors == Later(ImpliedByVectors)
BY SMTT(60) DEF Later, PassOf, ImpliedByVectors, Pass1, Pass2
LEMMA LaterVectorCrypto == Later(ImpliedByVectorCrypto)
BY SMTT(60) DEF Later, PassOf, ImpliedByVectorCrypto, Pass1, Pass2
LEMMA LaterOthers == Later(ImpliedByOthers)
BY SMTT(60) DEF Later, PassOf, ImpliedByOthers, Pass1, Pass2

LEMMA RowsOf ==
  ASSUME NEW x \in DOMAIN Implied, NEW y \in Implied[x]
  PROVE  \E t \in Tables : x \in DOMAIN t /\ y \in t[x]
BY Zenon DEF Implied

LEMMA LaterImplied == Later(Implied)
<1>1. ASSUME NEW x \in DOMAIN Implied, NEW y \in Implied[x]
      PROVE  (PassOf(x) < PassOf(y) \/ (x = "zfa" /\ y = "f")) /\ (y = "zfa" => x = "f")
  <2>1. PICK t \in Tables : x \in DOMAIN t /\ y \in t[x]
    BY <1>1, RowsOf
  <2>2. Later(t)
    BY <2>1, LaterLetters, LaterScalarCrypto, LaterVectors, LaterVectorCrypto, LaterOthers, Zenon
       DEF Tables
  <2> QED BY <2>1, <2>2, Zenon DEF Later
<1> QED BY <1>1, Zenon DEF Later

LEMMA PassRange == ASSUME NEW x PROVE PassOf(x) \in 0..11
BY DEF PassOf

LEMMA PassFacts ==
  /\ PassOf("zcf") = 5 /\ PassOf("zcd") = 3 /\ PassOf("c") = 0 /\ PassOf("zce") = 0
  /\ PassOf("f") = 4 /\ PassOf("d") = 2
BY SMTT(60) DEF PassOf, Pass1, Pass2

(* A pass brings in nothing but rows of what the last pass brought in: if  *)
(* that was all of pass n or later, the new is of pass n + 1 or later.     *)
LEMMA NextPass ==
  ASSUME NEW b, NEW r, NEW n \in Nat,
         \A x \in Imply(b, r) \ r : PassOf(x) >= n,
         NEW y \in Imply(b, Imply(b, r)) \ Imply(b, r)
  PROVE  PassOf(y) >= n + 1
<1> DEFINE t == Imply(b, r)
<1>t. t = Imply(b, r)
  OBVIOUS
<1> HIDE DEF t
<1>1. \A x \in r \cap DOMAIN Implied : Implied[x] \subseteq t
  BY <1>t, Zenon DEF Imply
<1>2. ImpliedIf(b, r) \subseteq t
  BY <1>t, Zenon DEF Imply
<1>3. y \notin t /\ (y \in ImpliedIf(b, t) \/ \E x \in t \cap DOMAIN Implied : y \in Implied[x])
  BY <1>t, Zenon DEF Imply
<1>4. ASSUME NEW x \in t \cap DOMAIN Implied, y \in Implied[x] PROVE PassOf(y) >= n + 1
  <2>1. x \notin r
    BY <1>1, <1>3, <1>4
  <2>2. PassOf(x) >= n
    BY <2>1, <1>t
  <2>3. ~ (x = "zfa" /\ y = "f")
    <3> SUFFICES ASSUME x = "zfa", y = "f" PROVE FALSE
      OBVIOUS
    <3>1. "zfa" \notin ImpliedIf(b, r)
      BY DEF ImpliedIf
    <3>2. PICK u \in r \cap DOMAIN Implied : "zfa" \in Implied[u]
      BY <1>t, <2>1, <3>1, Zenon DEF Imply
    <3>3. u = "f"
      BY <3>2, LaterImplied, Zenon DEF Later
    <3>4. r \subseteq t
      BY <1>t, Zenon DEF Imply
    <3> QED BY <3>2, <3>3, <3>4, <1>3
  <2>4. PassOf(x) < PassOf(y)
    BY <1>4, <2>3, LaterImplied, Zenon DEF Later
  <2>5. PassOf(x) \in Nat /\ PassOf(y) \in Nat
    BY PassRange
  <2> QED BY <2>2, <2>4, <2>5
<1>5. ASSUME y \in ImpliedIf(b, t) PROVE PassOf(y) >= n + 1
  <2>1. y \notin ImpliedIf(b, r)
    BY <1>2, <1>3
  <2>2. y \in {"zcf", "zcd"}
    BY <1>5 DEF ImpliedIf
  <2>3. CASE y = "zcf"
    <3>1. b = 32 /\ "f" \in t /\ \E x \in {"c", "zce"} : x \in t
      BY <1>5, <2>3 DEF ImpliedIf
    <3>2. ~ (b = 32 /\ "f" \in r /\ \E x \in {"c", "zce"} : x \in r)
      BY <2>1, <2>3 DEF ImpliedIf
    <3>3. \E x \in {"c", "zce", "f"} : x \in t \ r
      BY <3>1, <3>2
    <3>4. n <= 4
      BY <3>3, <1>t, PassFacts
    <3> QED BY <3>4, <2>3, PassFacts
  <2>4. CASE y = "zcd"
    <3>1. "c" \in t /\ "d" \in t
      BY <1>5, <2>4 DEF ImpliedIf
    <3>2. ~ ("c" \in r /\ "d" \in r)
      BY <2>1, <2>4 DEF ImpliedIf
    <3>3. \E x \in {"c", "d"} : x \in t \ r
      BY <3>1, <3>2
    <3>4. n <= 2
      BY <3>3, <1>t, PassFacts
    <3> QED BY <3>4, <2>4, PassFacts
  <2> QED BY <2>2, <2>3, <2>4
<1> QED BY <1>3, <1>4, <1>5

(* So sixteen passes leave nothing out, and one more changes nothing.      *)
LEMMA NextPasses ==
  ASSUME NEW b, NEW r, NEW n \in Nat,
         \A x \in Imply(b, r) \ r : PassOf(x) >= n
  PROVE  \A x \in Imply(b, Imply4(b, r)) \ Imply4(b, r) : PassOf(x) >= n + 4
<1> DEFINE P(s, k) == \A x \in Imply(b, s) \ s : PassOf(x) >= k
<1>1. ASSUME NEW s, NEW k \in Nat, P(s, k) PROVE P(Imply(b, s), k + 1)
  BY <1>1, NextPass
<1>2. P(r, n)
  OBVIOUS
<1>3. n + 1 \in Nat /\ n + 2 \in Nat /\ n + 3 \in Nat /\ (n + 1) + 1 = n + 2 /\ (n + 2) + 1 = n + 3
      /\ (n + 3) + 1 = n + 4
  OBVIOUS
<1> HIDE DEF P
<1>4. P(Imply(b, r), n + 1)
  BY <1>1, <1>2
<1>5. P(Imply(b, Imply(b, r)), n + 2)
  BY <1>1, <1>4, <1>3
<1>6. P(Imply(b, Imply(b, Imply(b, r))), n + 3)
  BY <1>1, <1>5, <1>3
<1>7. P(Imply(b, Imply(b, Imply(b, Imply(b, r)))), n + 4)
  BY <1>1, <1>6, <1>3
<1> QED BY <1>7, Zenon DEF P, Imply4

LEMMA ImpliedClosed ==
  ASSUME NEW b, NEW s
  PROVE  Imply(b, ApplyImplied(b, s)) = ApplyImplied(b, s)
<1> DEFINE P(u, k) == \A x \in Imply(b, u) \ u : PassOf(x) >= k
           s1 == Imply4(b, s)
           s2 == Imply4(b, s1)
           s3 == Imply4(b, s2)
           s4 == Imply4(b, s3)
<1>1. ASSUME NEW u, NEW k \in Nat, P(u, k) PROVE P(Imply4(b, u), k + 4)
  BY <1>1, NextPasses
<1>2. P(s, 0)
  BY PassRange
<1>3. ApplyImplied(b, s) = s4
  BY Zenon DEF ApplyImplied
<1> HIDE DEF P, s1, s2, s3, s4
<1>4. P(s1, 4)
  BY <1>1, <1>2, 0 + 4 = 4 DEF s1
<1>5. P(s2, 8)
  BY <1>1, <1>4, 4 + 4 = 8 DEF s2
<1>6. P(s3, 12)
  BY <1>1, <1>5, 8 + 4 = 12 DEF s3
<1>7. P(s4, 16)
  BY <1>1, <1>6, 12 + 4 = 16 DEF s4
<1>8. \A x : PassOf(x) \in 0..11
  BY PassRange
<1>9. Imply(b, s4) \ s4 = {}
  BY <1>7, <1>8 DEF P
<1>10. s4 \subseteq Imply(b, s4)
  BY Zenon DEF Imply
<1> QED BY <1>3, <1>9, <1>10

(* What others make up stands for the same in both tables, ...             *)
MadeUp(table) == \A x \in DOMAIN table \cap DOMAIN Combined : table[x] \subseteq Combined[x]

LEMMA MadeUpInTables == \A t \in Tables : MadeUp(t)
<1>1. MadeUp(ImpliedByLetters)
  BY SMTT(60) DEF MadeUp, Combined, ImpliedByLetters
<1>2. MadeUp(ImpliedByScalarCrypto)
  BY SMTT(60) DEF MadeUp, Combined, ImpliedByScalarCrypto
<1>3. MadeUp(ImpliedByVectors)
  BY SMTT(60) DEF MadeUp, Combined, ImpliedByVectors
<1>4. MadeUp(ImpliedByVectorCrypto)
  BY SMTT(60) DEF MadeUp, Combined, ImpliedByVectorCrypto
<1>5. MadeUp(ImpliedByOthers)
  BY SMTT(60) DEF MadeUp, Combined, ImpliedByOthers
<1> QED BY <1>1, <1>2, <1>3, <1>4, <1>5, Zenon DEF Tables

(* ... of what is made up only three extensions make up others, nothing    *)
(* makes these up in two steps, and no condition asks for one.             *)
LEMMA MadeUpOnce ==
  /\ \A x \in DOMAIN Combined : \A y \in Combined[x] :
       y \in DOMAIN Combined => \A z \in Combined[y] : z \notin DOMAIN Combined
  /\ {"c", "zce", "f", "d"} \cap DOMAIN Combined = {}
<1>1. ASSUME NEW x \in DOMAIN Combined, NEW y \in Combined[x], y \in DOMAIN Combined
      PROVE  y \in {"zkn", "zvkn", "zvks"}
  BY <1>1, SMTT(60) DEF Combined
<1>2. \A y \in {"zkn", "zvkn", "zvks"} : \A z \in Combined[y] : z \notin DOMAIN Combined
  BY SMTT(60) DEF Combined
<1>3. {"c", "zce", "f", "d"} \cap DOMAIN Combined = {}
  BY SMTT(60) DEF Combined
<1> QED BY <1>1, <1>2, <1>3, Zenon

LEMMA CombinedTwice ==
  ASSUME NEW s
  PROVE  Combine(Combine2(s)) = Combine2(s)
<1> DEFINE s1 == Combine(s)
           s2 == Combine(s1)
<1>0. s2 = Combine2(s)
  BY Zenon DEF Combine2
<1>1. \A x : x \in s1 <=> x \in s \/ (x \in DOMAIN Combined /\ Combined[x] \subseteq s)
  BY Zenon DEF Combine
<1>2. \A x : x \in s2 <=> x \in s1 \/ (x \in DOMAIN Combined /\ Combined[x] \subseteq s1)
  BY Zenon DEF Combine
<1>3. \A x : x \in Combine(s2) <=> x \in s2 \/ (x \in DOMAIN Combined /\ Combined[x] \subseteq s2)
  BY Zenon DEF Combine
<1> HIDE DEF s1, s2
<1>4. ASSUME NEW x \in DOMAIN Combined, Combined[x] \subseteq s2
      PROVE  x \in s2
  <2>1. ASSUME NEW y \in Combined[x] PROVE y \in s1
    <3> SUFFICES ASSUME y \notin s1 PROVE FALSE
      OBVIOUS
    <3>1. y \in DOMAIN Combined /\ Combined[y] \subseteq s1
      BY <1>2, <1>4, <2>1
    <3>2. \A z \in Combined[y] : z \notin DOMAIN Combined
      BY <3>1, <2>1, MadeUpOnce
    <3>3. Combined[y] \subseteq s
      BY <3>1, <3>2, <1>1
    <3> QED BY <3>1, <3>3, <1>1
  <2> QED BY <2>1, <1>2
<1>5. Combine(s2) = s2
  BY <1>3, <1>4
<1> QED BY <1>0, <1>5

LEMMA CombinedKeeps ==
  ASSUME NEW b, NEW s, Imply(b, s) = s
  PROVE  Imply(b, Combine(s)) = Combine(s)
<1> DEFINE t == Combine(s)
<1>1. \A x : x \in t <=> x \in s \/ (x \in DOMAIN Combined /\ Combined[x] \subseteq s)
  BY Zenon DEF Combine
<1> HIDE DEF t
<1>2. \A x \in s \cap DOMAIN Implied : Implied[x] \subseteq s
  BY Zenon DEF Imply
<1>3. ImpliedIf(b, s) \subseteq s
  BY Zenon DEF Imply
<1>4. ASSUME NEW x \in t \cap DOMAIN Implied, NEW y \in Implied[x] PROVE y \in t
  <2>1. CASE x \in s
    BY <2>1, <1>1, <1>2, <1>4
  <2>2. CASE x \in DOMAIN Combined /\ Combined[x] \subseteq s
    <3>1. PICK u \in Tables : x \in DOMAIN u /\ y \in u[x]
      BY <1>4, RowsOf
    <3>2. y \in Combined[x]
      BY <3>1, <2>2, MadeUpInTables, Zenon DEF MadeUp
    <3> QED BY <3>2, <2>2, <1>1
  <2> QED BY <2>1, <2>2, <1>1
<1>5. \A x \in {"c", "zce", "f", "d"} : x \in t <=> x \in s
  BY <1>1, MadeUpOnce
<1>6. ImpliedIf(b, t) = ImpliedIf(b, s)
  BY <1>5 DEF ImpliedIf
<1>7. ImpliedIf(b, t) \subseteq t
  BY <1>6, <1>3, <1>1
<1>8. Imply(b, t) = t
  BY <1>4, <1>7, Zenon DEF Imply
<1> QED BY <1>8 DEF t

LEMMA MarchClosed ==
  ASSUME NEW b, NEW exts
  PROVE  /\ Imply(b, March(b, exts)) = March(b, exts)
         /\ Combine(March(b, exts)) = March(b, exts)
<1> DEFINE s == ApplyImplied(b, exts \cup {"zicsr"})
           t == Combine2(s)
<1>1. Imply(b, s) = s
  BY ImpliedClosed
<1>2. March(b, exts) = Combine2(t)
  BY Zenon DEF March, ApplyCombined
<1> HIDE DEF s
<1>3. Imply(b, t) = t
  BY <1>1, CombinedKeeps, Zenon DEF Combine2
<1>4. Combine(t) = t
  BY CombinedTwice
<1> HIDE DEF t
<1>5. Combine2(t) = t
  BY <1>4, Zenon DEF Combine2
<1> QED BY <1>2, <1>3, <1>4, <1>5

-----------------------------------------------------------------------------
(* What the strings of a testcase never name, and what they name together. *)

Absent == {"q", "zce", "zcmp", "zcmt", "zfinx", "zdinx", "zhinx", "zhinxmin",
           "xtheadvector", "zilsd"}
Needed == {<<"d", "f">>, <<"zcf", "f">>, <<"zfbfmin", "f">>, <<"zvfbfmin", "v">>,
           <<"zvfbfwma", "v">>, <<"zcd", "d">>, <<"zacas", "zaamo">>, <<"zabha", "zaamo">>,
           <<"zawrs", "zalrsc">>, <<"zvks", "zvbb">>}
Sound(b, s) ==
  /\ s \cap (Unsupported \cup Absent) = {}
  /\ b = 64 => "zcf" \notin s
  /\ \A p \in Needed : p[1] \in s => p[2] \in s

LEMMA CoreSound ==
  ASSUME NEW i \in Core, NEW b \in Bases
  PROVE  /\ Sound(b, Extensions(i, b))
         /\ b \in SupportedBases[i] => "i" \in Extensions(i, b)
<1> DEFINE Both(c, s) == Sound(c, s) /\ "i" \in s
<1>1. Both(32, SpikeBoth) /\ Both(64, SpikeBoth \cup {"zkn"})
  BY SMTT(60) DEF Sound, Absent, Needed, Unsupported, SpikeBoth
<1>2. Both(32, RocketBoth) /\ Both(64, RocketBoth)
  BY SMTT(60) DEF Sound, Absent, Needed, Unsupported, RocketBoth
<1>3. Both(32, BoomBoth \cup {"zfh"}) /\ Both(64, BoomBoth) /\ Both(64, XiangShanExtensions)
  BY SMTT(60) DEF Sound, Absent, Needed, Unsupported, BoomBoth, XiangShanExtensions, RocketBoth
<1>4. Both(32, Cva6Both \cup {"zcf"}) /\ Both(64, Cva6Both \cup {"d", "h", "zcd", "zfh", "zkn"})
  BY SMTT(60) DEF Sound, Absent, Needed, Unsupported, Cva6Both
<1>5. Both(32, PicoExtensions) /\ Both(32, IbexExtensions) /\ Both(32, KronosExtensions)
  BY SMTT(60) DEF Sound, Absent, Needed, Unsupported, PicoExtensions, IbexExtensions,
     KronosExtensions
<1>6. Both(32, VexExtensions) /\ Both(32, Srv32Extensions)
  BY SMTT(60) DEF Sound, Absent, Needed, Unsupported, VexExtensions, Srv32Extensions
<1>7. Sound(b, {})
  BY DEF Sound
<1> HIDE DEF Both
<1>8. CASE b = 32
  <2>1. CASE i = "XiangShan"
    BY <1>7, <1>8, <2>1 DEF Extensions, Extensions32, SupportedBases, Core
  <2>2. CASE i # "XiangShan"
    <3>1. Both(32, Extensions(i, 32))
      BY <1>1, <1>2, <1>3, <1>4, <1>5, <1>6, <2>2 DEF Extensions, Extensions32, Core
    <3> QED BY <1>8, <3>1 DEF Both
  <2> QED BY <2>1, <2>2
<1>9. CASE b = 64
  <2>1. CASE i \in {"PicoRV32", "Ibex", "Vex", "Kronos", "Srv32"}
    BY <1>7, <1>9, <2>1 DEF Extensions, Extensions64, SupportedBases, Core
  <2>2. CASE i \notin {"PicoRV32", "Ibex", "Vex", "Kronos", "Srv32"}
    <3>1. Both(64, Extensions(i, 64))
      BY <1>1, <1>2, <1>3, <1>4, <2>2 DEF Extensions, Extensions64, Core
    <3> QED BY <1>9, <3>1 DEF Both
  <2> QED BY <2>1, <2>2
<1> QED BY <1>8, <1>9 DEF Bases

(* What all of them have is sound if what each has is.                     *)
LEMMA BuiltSound ==
  ASSUME NEW G \in SUBSET Core, NEW b \in Bases, NEW k \in G
  PROVE  /\ Sound(b, Common(G, b)) /\ Sound(b, BuiltWith(k, b, Common(G, b)))
         /\ (\A i \in G : b \in SupportedBases[i]) => "i" \in BuiltWith(k, b, Common(G, b))
<1>1. \A i \in G : Sound(b, Extensions(i, b))
  BY CoreSound
<1>2. \A x : x \in Common(G, b) <=> \A i \in G : x \in Extensions(i, b)
  BY Zenon DEF Common
<1>3. Sound(b, Common(G, b))
  BY <1>1, <1>2 DEF Sound
<1>4. (\A i \in G : b \in SupportedBases[i]) =>
        "i" \in Common(G, b) /\ "i" \in Extensions(k, b)
  BY <1>2, CoreSound
<1> QED BY <1>1, <1>3, <1>4 DEF BuiltWith

-----------------------------------------------------------------------------
(* The -march string: nothing absent comes in.                             *)

Clean(b, s) == s \cap Absent = {} /\ (b = 64 => "zcf" \notin s)

AbsentStays(table) ==
  \A x \in DOMAIN table : \A y \in table[x] : (y \in Absent => x \in Absent) /\ y # "zcf"

LEMMA AbsentInTables == \A t \in Tables : AbsentStays(t)
<1>1. AbsentStays(ImpliedByLetters)
  BY SMTT(60) DEF AbsentStays, Absent, ImpliedByLetters
<1>2. AbsentStays(ImpliedByScalarCrypto)
  BY SMTT(60) DEF AbsentStays, Absent, ImpliedByScalarCrypto
<1>3. AbsentStays(ImpliedByVectors)
  BY SMTT(60) DEF AbsentStays, Absent, ImpliedByVectors
<1>4. AbsentStays(ImpliedByVectorCrypto)
  BY SMTT(60) DEF AbsentStays, Absent, ImpliedByVectorCrypto
<1>5. AbsentStays(ImpliedByOthers)
  BY SMTT(60) DEF AbsentStays, Absent, ImpliedByOthers
<1> QED BY <1>1, <1>2, <1>3, <1>4, <1>5, Zenon DEF Tables

LEMMA ImplyClean ==
  ASSUME NEW b \in Bases, NEW s, Clean(b, s)
  PROVE  Clean(b, Imply(b, s))
<1>1. ASSUME NEW y \in ImpliedIf(b, s) PROVE y \notin Absent /\ (b = 64 => y # "zcf")
  BY <1>1 DEF ImpliedIf, Absent
<1>2. ASSUME NEW x \in s \cap DOMAIN Implied, NEW y \in Implied[x]
      PROVE  y \notin Absent /\ y # "zcf"
  <2>1. PICK t \in Tables : x \in DOMAIN t /\ y \in t[x]
    BY RowsOf
  <2>2. x \notin Absent
    BY DEF Clean
  <2> QED BY <2>1, <2>2, AbsentInTables, Zenon DEF AbsentStays
<1>3. \A y : y \in Imply(b, s) <=>
        y \in s \/ y \in ImpliedIf(b, s) \/ \E x \in s \cap DOMAIN Implied : y \in Implied[x]
  BY Zenon DEF Imply
<1> QED BY <1>1, <1>2, <1>3 DEF Clean

LEMMA CombineClean ==
  ASSUME NEW b, NEW s, Clean(b, s)
  PROVE  Clean(b, Combine(s))
<1>1. \A x \in DOMAIN Combined : x \notin Absent /\ x # "zcf"
  BY SMTT(60) DEF Combined, Absent
<1>2. \A x : x \in Combine(s) => x \in s \/ x \in DOMAIN Combined
  BY Zenon DEF Combine
<1> QED BY <1>1, <1>2 DEF Clean

LEMMA MarchClean ==
  ASSUME NEW b \in Bases, NEW s, Clean(b, s)
  PROVE  Clean(b, March(b, s))
<1>1. Clean(b, s \cup {"zicsr"})
  BY DEF Clean, Absent
<1>2. \A t : Clean(b, t) => Clean(b, Imply(b, t))
  BY ImplyClean
<1>3. \A t : Clean(b, t) => Clean(b, Imply4(b, t))
  BY <1>2, Zenon DEF Imply4
<1>4. \A t : Clean(b, t) => Clean(b, ApplyImplied(b, t))
  BY <1>3, Zenon DEF ApplyImplied
<1>5. \A t : Clean(b, t) => Clean(b, Combine(t))
  BY CombineClean
<1>6. \A t : Clean(b, t) => Clean(b, ApplyCombined(t))
  BY <1>5, Zenon DEF ApplyCombined, Combine2
<1> QED BY <1>1, <1>4, <1>6, Zenon DEF March

LEMMA ImpliedRows ==
  /\ {"c", "f", "d", "zfh", "zfhmin", "b", "zks", "zkn", "zacas", "zabha", "zawrs", "zicfiss"}
       \subseteq DOMAIN Implied
  /\ "zca" \in Implied["c"] /\ "zfa" \in Implied["f"] /\ "f" \in Implied["d"]
  /\ "zfhmin" \in Implied["zfh"] /\ "f" \in Implied["zfhmin"]
  /\ {"zba", "zbb", "zbs"} \subseteq Implied["b"]
  /\ {"zbkb", "zbkx"} \subseteq Implied["zks"]
  /\ {"zbkb", "zbkx", "zknd", "zkne", "zknh"} \subseteq Implied["zkn"]
  /\ "zaamo" \in Implied["zacas"] /\ "zaamo" \in Implied["zabha"]
  /\ "zalrsc" \in Implied["zawrs"] /\ "zimop" \in Implied["zicfiss"]
<1>1. \A t \in Tables : \A x \in DOMAIN t : x \in DOMAIN Implied /\ t[x] \subseteq Implied[x]
  BY Zenon DEF Implied
<1>2. /\ ImpliedByLetters \in Tables /\ ImpliedByScalarCrypto \in Tables
      /\ ImpliedByOthers \in Tables
  BY Zenon DEF Tables
<1>3. \A x \in {"c", "f", "d", "b", "zacas", "zabha", "zawrs", "zicfiss"} :
        x \in DOMAIN ImpliedByLetters
  BY SMTT(60) DEF ImpliedByLetters
<1>4. \A x \in {"zks", "zkn"} : x \in DOMAIN ImpliedByScalarCrypto
  BY SMTT(60) DEF ImpliedByScalarCrypto
<1>5. \A x \in {"zfh", "zfhmin"} : x \in DOMAIN ImpliedByOthers
  BY SMTT(60) DEF ImpliedByOthers
<1>6. \A x \in {"c", "f", "d", "b", "zacas", "zabha", "zawrs", "zicfiss"} :
        x \in DOMAIN Implied /\ ImpliedByLetters[x] \subseteq Implied[x]
  BY <1>1, <1>2, <1>3
<1>7. \A x \in {"zks", "zkn"} : x \in DOMAIN Implied /\ ImpliedByScalarCrypto[x] \subseteq Implied[x]
  BY <1>1, <1>2, <1>4
<1>8. \A x \in {"zfh", "zfhmin"} : x \in DOMAIN Implied /\ ImpliedByOthers[x] \subseteq Implied[x]
  BY <1>1, <1>2, <1>5
<1>9. /\ "zca" \in ImpliedByLetters["c"] /\ "zfa" \in ImpliedByLetters["f"]
      /\ "f" \in ImpliedByLetters["d"] /\ {"zba", "zbb", "zbs"} \subseteq ImpliedByLetters["b"]
      /\ "zaamo" \in ImpliedByLetters["zacas"] /\ "zaamo" \in ImpliedByLetters["zabha"]
      /\ "zalrsc" \in ImpliedByLetters["zawrs"] /\ "zimop" \in ImpliedByLetters["zicfiss"]
  BY SMTT(60) DEF ImpliedByLetters
<1>10. /\ {"zbkb", "zbkx"} \subseteq ImpliedByScalarCrypto["zks"]
       /\ {"zbkb", "zbkx", "zknd", "zkne", "zknh"} \subseteq ImpliedByScalarCrypto["zkn"]
  BY SMTT(60) DEF ImpliedByScalarCrypto
<1>11. "zfhmin" \in ImpliedByOthers["zfh"] /\ "f" \in ImpliedByOthers["zfhmin"]
  BY SMTT(60) DEF ImpliedByOthers
<1> QED BY <1>6, <1>7, <1>8, <1>9, <1>10, <1>11

(* Nothing the builder of -march looks for is wrong with it.               *)
LEMMA MarchSucceeds ==
  ASSUME NEW b \in Bases, NEW s, Sound(b, s), "i" \in s
  PROVE  ~MarchFails(b, s) /\ ~MabiFails(s)
<1> DEFINE m == March(b, s)
<1>1. "i" \in s /\ s \cap Unsupported = {} /\ Clean(b, s)
  BY DEF Sound, Clean
<1>2. s \subseteq m
  BY MarchNames
<1>3. Clean(b, m)
  BY <1>1, MarchClean
<1>4. Imply(b, m) = m
  BY MarchClosed
<1> HIDE DEF m
<1>5. /\ \A x \in m \cap DOMAIN Implied : Implied[x] \subseteq m
      /\ ImpliedIf(b, m) \subseteq m
  BY <1>4, Zenon DEF Imply
<1>6. "c" \in m => "zca" \in m
  BY <1>5, ImpliedRows
<1>7. b = 32 /\ "c" \in m /\ "f" \in m => "zcf" \in m
  BY <1>5 DEF ImpliedIf
<1>8. "c" \in m /\ "d" \in m => "zcd" \in m
  BY <1>5 DEF ImpliedIf
<1>9. /\ "q" \notin m /\ {"zcmp", "zcmt"} \cap m = {} /\ "zfinx" \notin m
      /\ "xtheadvector" \notin m /\ (b = 64 => "zcf" \notin m)
  BY <1>3 DEF Clean, Absent
<1>10. ~Invalid(b, m)
  BY <1>1, <1>2, <1>6, <1>7, <1>8, <1>9 DEF Invalid
<1>11. ~MarchFails(b, s)
  BY <1>1, <1>10 DEF MarchFails, m
<1>12. "q" \notin s /\ ("d" \in s => "f" \in s)
  <2>1. "q" \in Absent /\ <<"d", "f">> \in Needed
    BY DEF Absent, Needed
  <2> QED BY <2>1 DEF Sound
<1> QED BY <1>1, <1>11, <1>12 DEF MabiFails

-----------------------------------------------------------------------------
(* Spike's string.                                                         *)

(* What its implications can bring in.                                     *)
Spiked == {"zba", "zbb", "zbs", "f", "zfa", "d", "zbkb", "zbkx", "zknd", "zkne", "zknh",
           "zvbb", "zaamo", "zalrsc", "zimop", "b", "zicsr", "zicntr"}

LEMMA SpikedRows ==
  /\ \A x \in DOMAIN SpikeImplied : SpikeImplied[x] \subseteq Spiked
  /\ Spiked \cap {"zcf", "zilsd", "zfbfmin", "zvfbfmin", "zvfbfwma", "zcd", "zcmp", "zacas",
                  "zabha", "zawrs", "zvks", "q"} = {}
<1>1. \A x \in DOMAIN SpikeImplied : SpikeImplied[x] \subseteq Spiked
  BY SMTT(60) DEF SpikeImplied, Spiked
<1>2. Spiked \cap {"zcf", "zilsd", "zfbfmin", "zvfbfmin", "zvfbfwma", "zcd", "zcmp", "zacas",
                   "zabha", "zawrs", "zvks", "q"} = {}
  BY SMTT(60) DEF Spiked
<1> QED BY <1>1, <1>2

(* Spike's string between what was asked for and what it stands for.       *)
Within(s, m, t) == t \subseteq m /\ t \subseteq s \cup Spiked /\ s \subseteq t

LEMMA SpikeStep ==
  ASSUME NEW b, NEW s, NEW m, NEW t, Within(s, m, t),
         Imply(b, m) = m, Combine(m) = m, "q" \notin s, "zvks" \in s => "zvbb" \in s
  PROVE  Within(s, m, SpikeImply(t))
<1>1. \A x \in m \cap DOMAIN Implied : Implied[x] \subseteq m
  BY Zenon DEF Imply
<1>2. \A x \in DOMAIN Combined : Combined[x] \subseteq m => x \in m
  BY Zenon DEF Combine
<1>3. "q" \notin t /\ ("zvks" \in t => "zvbb" \in m)
  BY SpikedRows DEF Within
<1>4. DOMAIN SpikeImplied = {"b", "d", "f", "q", "zfh", "zks", "zkn", "zvks", "zacas", "zabha",
                             "zawrs", "zicfiss"}
  BY DEF SpikeImplied
<1>5. /\ SpikeImplied["b"] = {"zba", "zbb", "zbs"} /\ SpikeImplied["d"] = {"f"}
      /\ SpikeImplied["f"] = {"zfa"} /\ SpikeImplied["zfh"] = {"f"}
      /\ SpikeImplied["zks"] = {"zbkb", "zbkx"}
      /\ SpikeImplied["zkn"] = {"zbkb", "zbkx", "zknd", "zkne", "zknh"}
      /\ SpikeImplied["zvks"] = {"zvbb"} /\ SpikeImplied["zacas"] = {"zaamo"}
      /\ SpikeImplied["zabha"] = {"zaamo"} /\ SpikeImplied["zawrs"] = {"zalrsc"}
      /\ SpikeImplied["zicfiss"] = {"zimop"}
  BY SMTT(60) DEF SpikeImplied
<1>6. ASSUME NEW x \in t \cap DOMAIN SpikeImplied PROVE SpikeImplied[x] \subseteq m
  <2>1. x \in m /\ x # "q"
    BY <1>3 DEF Within
  <2>2. CASE x = "zfh"
    BY <1>1, <1>5, <2>1, <2>2, ImpliedRows
  <2>3. CASE x = "zvks"
    BY <1>3, <1>5, <2>3
  <2>4. CASE x \notin {"zfh", "zvks"}
    BY <1>1, <1>4, <1>5, <2>1, <2>4, ImpliedRows
  <2> QED BY <2>2, <2>3, <2>4
<1>7. {"zba", "zbb", "zbs"} \subseteq t => "b" \in m
  <2>1. "b" \in DOMAIN Combined /\ Combined["b"] = {"zba", "zbb", "zbs"}
    BY SMTT(60) DEF Combined
  <2> QED BY <2>1, <1>2 DEF Within
<1>8. \A y : y \in SpikeImply(t) <=>
        \/ y \in t \/ \E x \in t \cap DOMAIN SpikeImplied : y \in SpikeImplied[x]
        \/ y = "b" /\ {"zba", "zbb", "zbs"} \subseteq t
  BY Zenon DEF SpikeImply
<1>9. "b" \in Spiked
  BY DEF Spiked
<1> QED BY <1>6, <1>7, <1>8, <1>9, SpikedRows DEF Within

LEMMA SpikeWithin ==
  ASSUME NEW b \in Bases, NEW s, Sound(b, s)
  PROVE  /\ SpikeIsa(s) \ {"zicntr"} \subseteq March(b, s)
         /\ SpikeIsa(s) \subseteq s \cup Spiked
         /\ s \subseteq SpikeIsa(s)
<1> DEFINE m == March(b, s)
           t == SpikeApplyImplications(s \cup {"zicsr"})
<1>1. /\ <<"zvks", "zvbb">> \in Needed /\ "q" \in Absent
      /\ "zicsr" \in Spiked /\ "zicntr" \in Spiked
  BY DEF Needed, Absent, Spiked
<1>2. "q" \notin s /\ ("zvks" \in s => "zvbb" \in s)
  BY <1>1 DEF Sound
<1>3. Imply(b, m) = m /\ Combine(m) = m
  BY MarchClosed
<1>4. s \cup {"zicsr"} \subseteq m
  <2>1. (s \cup {"zicsr"}) \cup {"zicsr"} = s \cup {"zicsr"}
    OBVIOUS
  <2>2. March(b, s) = March(b, s \cup {"zicsr"})
    BY <2>1, Zenon DEF March
  <2> QED BY <2>2, MarchNames
<1> HIDE DEF m
<1>5. Within(s, m, s \cup {"zicsr"})
  BY <1>1, <1>4 DEF Within
<1>6. \A u : Within(s, m, u) => Within(s, m, SpikeImply(u))
  BY <1>2, <1>3, SpikeStep
<1>7. Within(s, m, t)
  BY <1>5, <1>6, Zenon DEF SpikeApplyImplications, SpikeImply2
<1>8. SpikeIsa(s) = (IF "d" \notin s /\ {"q", "zve64d"} \cap t = {} THEN t \ {"d"} ELSE t)
                      \cup {"zicntr"}
  BY Zenon DEF SpikeIsa
<1> HIDE DEF t
<1>9. /\ SpikeIsa(s) \subseteq t \cup {"zicntr"}
      /\ s \subseteq SpikeIsa(s)
  BY <1>7, <1>8 DEF Within
<1> QED BY <1>1, <1>7, <1>9 DEF Within, m

LEMMA SpikeSucceeds ==
  ASSUME NEW b \in Bases, NEW s, Sound(b, s), "i" \in s
  PROVE  ~SpikeIsaFails(b, s)
<1> DEFINE t == SpikeIsa(s)
<1>1. t \subseteq s \cup Spiked /\ s \subseteq t
  BY SpikeWithin
<1> HIDE DEF t
<1>2. \A x \in {"zcf", "zilsd", "zfbfmin", "zvfbfmin", "zvfbfwma", "zcd", "zcmp", "zacas",
                "zabha", "zawrs"} : x \in t => x \in s
  BY <1>1, SpikedRows
<1>3. "i" \in s /\ "zilsd" \notin s /\ "zcmp" \notin s /\ (b = 64 => "zcf" \notin s)
  BY DEF Sound, Absent
<1>4. \A p \in Needed : p[1] \in s => p[2] \in t
  BY <1>1 DEF Sound
<1>5. /\ "zfbfmin" \in s \/ "zcf" \in s => "f" \in t
      /\ "zvfbfmin" \in s \/ "zvfbfwma" \in s => "v" \in t
      /\ "zcd" \in s => "d" \in t
      /\ "zacas" \in s \/ "zabha" \in s => "zaamo" \in t
      /\ "zawrs" \in s => "zalrsc" \in t
  BY <1>4 DEF Needed
<1>6. ~SpikeInvalid(b, t)
  BY <1>2, <1>3, <1>5 DEF SpikeInvalid
<1> QED BY <1>3, <1>6 DEF SpikeIsaFails, t

-----------------------------------------------------------------------------
(* Each core that ran was given the closure of what it is built with, and  *)
(* no builder failed for supported cores.                                  *)
Agreed ==
  /\ Supported => result # "strings"
  /\ \A r \in ran : /\ r.core \in testcase.cores
                    /\ r.exts = March(testcase.base, Exts(r.core))

LEMMA AgreedFrame ==
  ASSUME Agreed, testcase' = testcase, result' # "strings" \/ ~Supported,
         \A r \in ran' \ ran : /\ r.core \in testcase.cores
                               /\ r.exts = March(testcase.base, Exts(r.core))
  PROVE  Agreed'
<1>1. Supported' <=> Supported
  BY DEF Supported
<1>2. \A i : Exts(i)' = Exts(i)
  BY DEF Exts
<1> QED BY <1>1, <1>2 DEF Agreed

LEMMA AgreedSame ==
  ASSUME Agreed, testcase' = testcase, ran' = ran, result' = result \/ result' # "strings"
  PROVE  Agreed'
<1>1. result' # "strings" \/ ~Supported
  BY DEF Agreed
<1> QED BY <1>1, AgreedFrame

LEMMA NoneFail ==
  ASSUME testcase \in Testcases, NEW i \in testcase.cores, Supported
  PROVE  /\ ~StringsFail(i)
         /\ i = "Spike" => ~SpikeIsaFails(testcase.base, Exts(i))
<1>1. /\ testcase.cores \in SUBSET Core /\ testcase.base \in Bases
      /\ testcase.common = Common(testcase.cores, testcase.base)
  BY TestcaseTyped
<1>2. Sound(testcase.base, Exts(i)) /\ "i" \in Exts(i)
  BY <1>1, BuiltSound DEF Exts, Supported
<1> QED BY <1>1, <1>2, MarchSucceeds, SpikeSucceeds DEF StringsFail

LEMMA AgreedNext ==
  ASSUME IInv, Agreed, [Next]_vars
  PROVE  Agreed'
<1>1. testcase \in Testcases /\ core \subseteq testcase.cores
  BY DEF IInv, TypeOK
<1>2. Supported => result # "strings"
  BY DEF Agreed
<1>3. CASE UNCHANGED vars
  BY <1>3, AgreedSame DEF vars
<1>4. CASE Return
  BY <1>4, AgreedSame DEF Return
<1>5. ASSUME NEW i \in Core, Dispatch(i) \/ Prepare(i) \/ WriteSource(i) \/ WriteScript(i)
      PROVE  Agreed'
  <2>1. testcase' = testcase /\ ran' = ran /\ (result' = result \/ result' # "strings")
    BY <1>5 DEF Dispatch, Prepare, WriteSource, WriteScript, Fail, Keep
  <2> QED BY <2>1, AgreedSame
<1>6. ASSUME NEW i \in Core, BuildStrings(i) \/ BuildIsa(i)
      PROVE  Agreed'
  <2>1. i \in core
    BY <1>6 DEF BuildStrings, BuildIsa, On
  <2>2. Supported => ~StringsFail(i) /\ (i = "Spike" => ~SpikeIsaFails(testcase.base, Exts(i)))
    BY <1>1, <2>1, NoneFail
  <2>3. testcase' = testcase /\ ran' = ran /\ (Supported => result' = result)
    BY <1>6, <2>2 DEF BuildStrings, BuildIsa, Fail, Keep
  <2> QED BY <1>2, <2>3, AgreedFrame
<1>7. ASSUME NEW i \in Core, Preprocess(i) \/ Assemble(i) \/ Link(i) \/ Disassemble(i)
      PROVE  Agreed'
  <2>1. ASSUME NEW step, NEW inputs, NEW output, NEW next, Tool(i, step, inputs, output, next)
        PROVE  testcase' = testcase /\ ran' = ran /\ (result' = result \/ result' # "strings")
    BY <2>1 DEF Tool, Fail, Keep
  <2>2. testcase' = testcase /\ ran' = ran /\ (result' = result \/ result' # "strings")
    BY <1>7, <2>1, Zenon DEF Preprocess, Assemble, Link, Disassemble
  <2> QED BY <2>2, AgreedSame
<1>8. ASSUME NEW i \in Core, FindBinary(i) \/ LocateToHost(i) \/ Read(i)
      PROVE  Agreed'
  <2>1. testcase' = testcase /\ ran' = ran /\ (result' = result \/ result' # "strings")
    BY <1>8 DEF FindBinary, LocateToHost, Read, Fail, Keep
  <2> QED BY <2>1, AgreedSame
<1>9. ASSUME NEW i \in Core, Simulate(i) PROVE Agreed'
  <2>1. i \in testcase.cores
    BY <1>1, <1>9 DEF Simulate, On
  <2>2. testcase' = testcase /\ (result' = result \/ result' = "failed")
    BY <1>9 DEF Simulate, Fail
  <2>3. ASSUME NEW r \in ran', r \notin ran
        PROVE  r.core = i /\ r.exts = March(testcase.base, Exts(i))
    <3>1. r = [core |-> i, machine |-> machine, elf |-> files[i]["elf"],
               exts |-> March(testcase.base, Exts(i))]
      BY <1>9, <2>3 DEF Simulate, Fail
    <3> QED BY <3>1
  <2>4. \A r \in ran' \ ran : /\ r.core \in testcase.cores
                             /\ r.exts = March(testcase.base, Exts(r.core))
    BY <2>1, <2>3
  <2>5. result' # "strings" \/ ~Supported
    BY <1>2, <2>2
  <2> QED BY <2>2, <2>4, <2>5, AgreedFrame
<1> QED BY <1>3, <1>4, <1>5, <1>6, <1>7, <1>8, <1>9, Zenon DEF Next

(* Whatever supported cores are asked for together: neither builder finds  *)
(* the extensions they have in common inconsistent. And for whatever cores *)
(* run: their strings name all that they stand for, and Spike is told what *)
(* its program was built for.                                              *)
THEOREM StringsAgreeHolds == Spec => []StringsAgree
<1>1. Init => Agreed
  BY DEF Init, Agreed
<1>2. IInv /\ Agreed => StringsAgree
  <2>1. SUFFICES ASSUME IInv, Agreed PROVE StringsAgree
    OBVIOUS
  <2>2. /\ testcase.cores \in SUBSET Core /\ testcase.base \in Bases
        /\ testcase.common = Common(testcase.cores, testcase.base)
    BY <2>1, TestcaseTyped DEF IInv, TypeOK
  <2>3. ASSUME NEW r \in ran
        PROVE  /\ Imply(testcase.base, r.exts) = r.exts /\ Combine(r.exts) = r.exts
               /\ r.core = "Spike" => SpikeIsa(testcase.common) \ r.exts \subseteq {"zicntr"}
    <3>1. r.core \in testcase.cores /\ r.exts = March(testcase.base, Exts(r.core))
      BY <2>1 DEF Agreed
    <3>2. Imply(testcase.base, r.exts) = r.exts /\ Combine(r.exts) = r.exts
      BY <3>1, MarchClosed
    <3>3. ASSUME r.core = "Spike"
          PROVE  SpikeIsa(testcase.common) \ r.exts \subseteq {"zicntr"}
      <4>1. Exts(r.core) = testcase.common
        BY <3>3 DEF Exts, BuiltWith, TakesOverride
      <4>2. Sound(testcase.base, testcase.common)
        BY <2>2, <3>1, BuiltSound
      <4>3. SpikeIsa(testcase.common) \ {"zicntr"} \subseteq March(testcase.base, testcase.common)
        BY <2>2, <4>2, SpikeWithin
      <4> QED BY <3>1, <4>1, <4>3
    <3> QED BY <3>2, <3>3
  <2> QED BY <2>1, <2>3 DEF Agreed, StringsAgree
<1> QED BY Invariance, AgreedNext, <1>1, <1>2, PTL DEF Spec

-----------------------------------------------------------------------------
(* The loops of the code as closures: whatever extensions they are given.  *)

(* What a set closed under the tables holds, it holds all that comes of.   *)
LEMMA PassesWithin ==
  ASSUME NEW b, NEW t, Imply(b, t) = t, Combine(t) = t
  PROVE  \A s : s \subseteq t => ApplyImplied(b, s) \subseteq t /\ ApplyCombined(s) \subseteq t
<1>1. \A s : s \subseteq t => Imply(b, s) \subseteq t
  <2>1. ASSUME NEW s, s \subseteq t PROVE Imply(b, s) \subseteq t
    <3>1. \A y : y \in Imply(b, s) <=>
            y \in s \/ y \in ImpliedIf(b, s) \/ \E x \in s \cap DOMAIN Implied : y \in Implied[x]
      BY Zenon DEF Imply
    <3>2. \A y : y \in t <=>
            y \in t \/ y \in ImpliedIf(b, t) \/ \E x \in t \cap DOMAIN Implied : y \in Implied[x]
      BY Zenon DEF Imply
    <3>3. ImpliedIf(b, s) \subseteq ImpliedIf(b, t)
      BY <2>1 DEF ImpliedIf
    <3> QED BY <2>1, <3>1, <3>2, <3>3
  <2> QED BY <2>1
<1>2. \A s : s \subseteq t => Combine(s) \subseteq t
  <2>1. ASSUME NEW s, s \subseteq t PROVE Combine(s) \subseteq t
    <3>1. \A x : x \in Combine(s) <=> x \in s \/ (x \in DOMAIN Combined /\ Combined[x] \subseteq s)
      BY Zenon DEF Combine
    <3>2. \A x : x \in DOMAIN Combined /\ Combined[x] \subseteq t => x \in t
      BY Zenon DEF Combine
    <3> QED BY <2>1, <3>1, <3>2
  <2> QED BY <2>1
<1>3. \A s : s \subseteq t => Imply4(b, s) \subseteq t
  BY <1>1, Zenon DEF Imply4
<1>4. \A s : s \subseteq t => ApplyImplied(b, s) \subseteq t
  BY <1>3, Zenon DEF ApplyImplied
<1>5. \A s : s \subseteq t => ApplyCombined(s) \subseteq t
  BY <1>2, Zenon DEF ApplyCombined, Combine2
<1> QED BY <1>4, <1>5

(* build_march runs each of its two loops once, one after the other. That  *)
(* is enough: the -march string names the least set that holds what was    *)
(* asked for and zicsr and is closed under both tables, for any extensions *)
(* on either base.                                                         *)
THEOREM MarchIsClosure ==
  ASSUME NEW b \in Bases, NEW exts
  PROVE  /\ exts \cup {"zicsr"} \subseteq March(b, exts)
         /\ Imply(b, March(b, exts)) = March(b, exts)
         /\ Combine(March(b, exts)) = March(b, exts)
         /\ \A t : exts \cup {"zicsr"} \subseteq t /\ Imply(b, t) = t /\ Combine(t) = t
              => March(b, exts) \subseteq t
<1>1. exts \cup {"zicsr"} \subseteq March(b, exts)
  <2>1. (exts \cup {"zicsr"}) \cup {"zicsr"} = exts \cup {"zicsr"}
    OBVIOUS
  <2>2. March(b, exts) = March(b, exts \cup {"zicsr"})
    BY <2>1, Zenon DEF March
  <2> QED BY <2>2, MarchNames
<1>2. ASSUME NEW t, exts \cup {"zicsr"} \subseteq t, Imply(b, t) = t, Combine(t) = t
      PROVE  March(b, exts) \subseteq t
  BY <1>2, PassesWithin, Zenon DEF March
<1> QED BY <1>1, <1>2, MarchClosed

LEMMA SpikeRow ==
  ASSUME NEW x \in DOMAIN SpikeImplied, NEW y \in SpikeImplied[x]
  PROVE  /\ y \in DOMAIN SpikeImplied => y \in {"d", "f"}
         /\ y \in {"zba", "zbb", "zbs"} => x = "b"
         /\ x = "d" => y = "f"
         /\ x = "f" => y = "zfa"
         /\ y # "b"
BY SMTT(60) DEF SpikeImplied

LEMMA SpikeRows ==
  /\ "b" \in DOMAIN SpikeImplied /\ SpikeImplied["b"] = {"zba", "zbb", "zbs"}
  /\ "zfa" \notin DOMAIN SpikeImplied
BY SMTT(60) DEF SpikeImplied

LEMMA SpikePass ==
  ASSUME NEW s, NEW y
  PROVE  y \in SpikeImply(s) <=>
           \/ y \in s \/ \E x \in s \cap DOMAIN SpikeImplied : y \in SpikeImplied[x]
           \/ y = "b" /\ {"zba", "zbb", "zbs"} \subseteq s
BY Zenon DEF SpikeImply

(* A second pass brings in F and Zfa only, and each pass after it less.    *)
LEMMA SpikeNext ==
  ASSUME NEW r, NEW y \in SpikeImply(SpikeImply(r)) \ SpikeImply(r)
  PROVE  \E x \in SpikeImply(r) \ r : (x = "d" /\ y = "f") \/ (x = "f" /\ y = "zfa")
<1> DEFINE t == SpikeImply(r)
<1>1. \A z : z \in t <=> \/ z \in r \/ \E x \in r \cap DOMAIN SpikeImplied : z \in SpikeImplied[x]
                         \/ z = "b" /\ {"zba", "zbb", "zbs"} \subseteq r
  BY SpikePass
<1>2. \/ \E x \in t \cap DOMAIN SpikeImplied : y \in SpikeImplied[x]
      \/ y = "b" /\ {"zba", "zbb", "zbs"} \subseteq t
  BY SpikePass
<1>3. y \notin t
  OBVIOUS
<1> HIDE DEF t
<1>4. ASSUME NEW x \in t \cap DOMAIN SpikeImplied, y \in SpikeImplied[x]
      PROVE  x \in t \ r /\ ((x = "d" /\ y = "f") \/ (x = "f" /\ y = "zfa"))
  <2>1. x \notin r
    BY <1>1, <1>3, <1>4
  <2>2. x # "b"
    <3> SUFFICES ASSUME x = "b" PROVE FALSE
      OBVIOUS
    <3>1. {"zba", "zbb", "zbs"} \subseteq r
      BY <1>1, <2>1, SpikeRow
    <3>2. y \in {"zba", "zbb", "zbs"}
      BY <1>4, SpikeRows
    <3> QED BY <1>1, <1>3, <3>1, <3>2
  <2>3. PICK w \in r \cap DOMAIN SpikeImplied : x \in SpikeImplied[w]
    BY <1>1, <2>1, <2>2
  <2>4. x \in {"d", "f"}
    BY <2>3, SpikeRow
  <2> QED BY <1>4, <2>1, <2>4, SpikeRow
<1>5. ASSUME y = "b", {"zba", "zbb", "zbs"} \subseteq t PROVE FALSE
  <2>1. PICK z \in {"zba", "zbb", "zbs"} : z \notin r
    BY <1>1, <1>3, <1>5
  <2>2. PICK w \in r \cap DOMAIN SpikeImplied : z \in SpikeImplied[w]
    BY <1>1, <1>5, <2>1
  <2>3. w = "b"
    BY <2>1, <2>2, SpikeRow
  <2> QED BY <1>1, <1>3, <1>5, <2>2, <2>3
<1> QED BY <1>2, <1>4, <1>5 DEF t

(* The same of Spike's --isa: its loop ends with the least set that holds  *)
(* the extensions and is closed under its implications.                    *)
THEOREM SpikeIsClosure ==
  ASSUME NEW s
  PROVE  /\ s \subseteq SpikeApplyImplications(s)
         /\ SpikeImply(SpikeApplyImplications(s)) = SpikeApplyImplications(s)
         /\ \A t : s \subseteq t /\ SpikeImply(t) = t => SpikeApplyImplications(s) \subseteq t
<1> DEFINE s1 == SpikeImply(s)
           s2 == SpikeImply(s1)
           s3 == SpikeImply(s2)
           s4 == SpikeImply(s3)
<1>1. SpikeApplyImplications(s) = s4
  BY Zenon DEF SpikeApplyImplications, SpikeImply2
<1>2. s \subseteq s1 /\ s1 \subseteq s2 /\ s2 \subseteq s3 /\ s3 \subseteq s4
  BY SpikePass
<1>3. \A y \in s2 \ s1 : y \in {"f", "zfa"}
  BY SpikeNext
<1>4. \A y \in s3 \ s2 : \E x \in s2 \ s1 : (x = "d" /\ y = "f") \/ (x = "f" /\ y = "zfa")
  BY SpikeNext
<1>5. \A y \in s4 \ s3 : \E x \in s3 \ s2 : (x = "d" /\ y = "f") \/ (x = "f" /\ y = "zfa")
  BY SpikeNext
<1>6. ASSUME NEW t, s \subseteq t, SpikeImply(t) = t PROVE s4 \subseteq t
  <2>1. ASSUME NEW u, u \subseteq t PROVE SpikeImply(u) \subseteq t
    <3>1. \A y : y \in t <=>
            \/ y \in t \/ \E x \in t \cap DOMAIN SpikeImplied : y \in SpikeImplied[x]
            \/ y = "b" /\ {"zba", "zbb", "zbs"} \subseteq t
      BY <1>6, SpikePass
    <3> QED BY <2>1, <3>1, SpikePass
  <2> QED BY <1>6, <2>1
<1> HIDE DEF s1, s2, s3
<1>7. \A y \in s3 \ s2 : y = "zfa"
  BY <1>3, <1>4
<1>8. s4 = s3
  BY <1>2, <1>5, <1>7 DEF s4
<1>9. SpikeImply(s4) = s4
  BY <1>8 DEF s4
<1> QED BY <1>1, <1>2, <1>6, <1>9
=============================================================================

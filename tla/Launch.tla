------------------------------- MODULE Launch -------------------------------
(***************************************************************************)
(* Running one testcase on its cores: RiscVImplVec::execute calls          *)
(* execute_with_extension_override for one core after the other, in the    *)
(* order of a hash map; each writes the program, has the toolchain build   *)
(* it, finds a simulator, runs it and reads its trace. The first error     *)
(* ends it all.                                                            *)
(*                                                                         *)
(* A directory may hold the files of an earlier execution. A file is       *)
(* "new" when everything it was made from is of this execution. What a     *)
(* simulator does while it runs is ProcessRunner's, how its trace is read  *)
(* is Traces'; both are one step here that may fail.                       *)
(***************************************************************************)
EXTENDS IsaStrings, Cores

CONSTANT Requests  \* the sets of cores, bases and alignment requirements asked for

ASSUME RequestsAssumption ==
  \A r \in Requests : /\ r.cores \subseteq Core /\ r.base \in Bases
                      /\ r.requirement \in {{}, {FALSE}, {TRUE}}
                      /\ r.filtered \in BOOLEAN

VARIABLES
  testcase,  \* the request, with the extension map of the generated testcase
  todo,      \* cores that are not executed yet
  core,      \* the core being executed, as a set of at most one
  at,        \* its next step
  files,     \* per core and file: "none", "old" or "new"
  machine,   \* the simulator found for the core
  ran,       \* what was run: core, simulator, and the program it was given
  outputs,   \* cores whose trace was read
  result     \* "running", "ok" or the error returned

vars == <<testcase, todo, core, at, files, machine, ran, outputs, result>>

Artifacts == {"source", "script", "preprocessed", "object", "elf", "dump"}
Steps == {"dispatch", "prepare", "source", "strings", "script", "preprocess", "assemble",
          "link", "disassemble", "isa", "find", "nm", "simulate", "read"}
Errors == {"unsupported", "failed", "strings", "missing"}

\* A simulator: its base, the width of its floating point registers (0: none),
\* the alignment mode it runs in, and whether it was found under the name that
\* assumes RV64.
Simulator == [base : Bases, flen : {0, 32, 64}, unaligned : BOOLEAN, generic : BOOLEAN]
NoSimulator == [base |-> 32, flen |-> 0, unaligned |-> FALSE, generic |-> FALSE]

\* Differential analysis filters the cores by the requirement first.
Generate(r) ==
  LET cores == IF r.filtered THEN Filtered(r.cores, r.requirement) ELSE r.cores
  IN  [cores |-> cores, base |-> r.base, requirement |-> r.requirement,
       filtered |-> r.filtered, common |-> Common(cores, r.base)]
Testcases == { t \in { Generate(r) : r \in Requests } : t.cores # {} }

AllowUnaligned(i) ==
  IF testcase.requirement = {} THEN DefaultMode[i] ELSE TRUE \in testcase.requirement

Exts(i) == BuiltWith(i, testcase.base, testcase.common)

TypeOK ==
  /\ testcase \in Testcases
  /\ todo \subseteq testcase.cores
  /\ core \in SUBSET testcase.cores /\ Cardinality(core) <= 1
  /\ at \in Steps
  /\ files \in [testcase.cores -> [Artifacts -> {"none", "old", "new"}]]
  /\ machine \in Simulator
  /\ ran \subseteq [core : testcase.cores, machine : Simulator, elf : {"none", "old", "new"},
                    exts : { March(testcase.base, Exts(i)) : i \in testcase.cores }]
  /\ outputs \subseteq testcase.cores
  /\ result \in {"running", "ok"} \cup Errors

Init ==
  /\ testcase \in Testcases
  /\ todo = testcase.cores
  /\ core = {} /\ at = "dispatch" /\ machine = NoSimulator
  /\ \E f \in {"none", "old"} : files = [i \in testcase.cores |-> [a \in Artifacts |-> f]]
  /\ ran = {} /\ outputs = {} /\ result = "running"

-----------------------------------------------------------------------------
On(i, step) == result = "running" /\ i \in core /\ at = step

Go(step) == at' = step
Keep == UNCHANGED <<testcase, todo, core, ran, outputs>>

\* An error leaves execute at once; a tool that failed may have removed its output.
Fail(error) == result' = error /\ UNCHANGED <<testcase, todo, core, at, machine, ran, outputs>>
Spoil(i, a) == files' \in { files, [files EXCEPT ![i][a] = "none"] }

\* The checks of execute_with_extension_override and of the executors' new.
Rejects(i) ==
  \/ testcase.base \notin SupportedBases[i]
  \/ AllowUnaligned(i) \notin Modes[i]

(* Mutant: the cores are executed side by side.                            *)
DispatchAll(i) ==
  /\ result = "running" /\ i \in todo
  /\ core' = core \cup {i} /\ todo' = todo \ {i} /\ Go("prepare")
  /\ UNCHANGED <<testcase, files, machine, ran, outputs, result>>

Dispatch(i) ==
  /\ result = "running" /\ core = {} /\ i \in todo
  /\ IF Rejects(i)
     THEN Fail("unsupported") /\ UNCHANGED files
     ELSE /\ core' = {i} /\ todo' = todo \ {i} /\ Go("prepare")
          /\ UNCHANGED <<testcase, files, machine, ran, outputs, result>>

\* Creating the run directory; the program text.
Prepare(i) ==
  /\ On(i, "prepare")
  /\ \/ Go("source") /\ Keep /\ UNCHANGED <<machine, result>>
     \/ Fail("failed")
  /\ UNCHANGED files

WriteSource(i) ==
  /\ On(i, "source")
  /\ \/ /\ files' = [files EXCEPT ![i]["source"] = "new"]
        /\ Go("strings") /\ Keep /\ UNCHANGED <<machine, result>>
     \/ Fail("failed") /\ Spoil(i, "source")

\* build_march and build_mabi, before anything is built.
StringsFail(i) == MarchFails(testcase.base, Exts(i)) \/ MabiFails(Exts(i))

BuildStrings(i) ==
  /\ On(i, "strings")
  /\ IF StringsFail(i) THEN Fail("strings")
     ELSE Go("script") /\ Keep /\ UNCHANGED <<machine, result>>
  /\ UNCHANGED files

WriteScript(i) ==
  /\ On(i, "script")
  /\ \/ /\ files' = [files EXCEPT ![i]["script"] = "new"]
        /\ Go("preprocess") /\ Keep /\ UNCHANGED <<machine, result>>
     \/ Fail("failed") /\ Spoil(i, "script")

\* execute_command: a tool makes one file from others, or its failure is returned.
Made(i, inputs) == IF \A a \in inputs : files[i][a] = "new" THEN "new" ELSE "old"

(* Mutant: the status of the tool is not looked at.                        *)
ToolUnchecked(i, step, inputs, output, next) ==
  /\ On(i, step)
  /\ \/ files' = [files EXCEPT ![i][output] = Made(i, inputs)]
     \/ Spoil(i, output)
  /\ Go(next) /\ Keep /\ UNCHANGED <<machine, result>>

Tool(i, step, inputs, output, next) ==
  /\ On(i, step)
  /\ \/ /\ files' = [files EXCEPT ![i][output] = Made(i, inputs)]
        /\ Go(next) /\ Keep /\ UNCHANGED <<machine, result>>
     \/ Fail("failed") /\ Spoil(i, output)

Preprocess(i)  == Tool(i, "preprocess", {"source"}, "preprocessed", "assemble")
Assemble(i)    == Tool(i, "assemble", {"preprocessed"}, "object", "link")
Link(i)        == Tool(i, "link", {"object", "script"}, "elf", "disassemble")
Disassemble(i) == Tool(i, "disassemble", {"elf"}, "dump", "isa")

\* Only Spike is told the extensions.
BuildIsa(i) ==
  /\ On(i, "isa")
  /\ IF i = "Spike" /\ SpikeIsaFails(testcase.base, Exts(i)) THEN Fail("strings")
     ELSE Go("find") /\ Keep /\ UNCHANGED <<machine, result>>
  /\ UNCHANGED files

-----------------------------------------------------------------------------
Named(i, flen) ==
  [base |-> testcase.base, flen |-> flen, unaligned |-> AllowUnaligned(i), generic |-> FALSE]

(* Mutant: one binary for RV32.                                            *)
RocketWide == {Named("Rocket", 64)}

RocketBinaries ==
  {Named("Rocket", IF testcase.base = 32 /\ "d" \notin Exts("Rocket") THEN 32 ELSE 64)}

\* One Spike for everything; it is told what to be.
SpikeBinaries ==
  LET isa == SpikeIsa(Exts("Spike"))
  IN  {Named("Spike", IF "d" \in isa THEN 64 ELSE IF "f" \in isa THEN 32 ELSE 0)}

\* Each version has a name of its own.
BoomBinaries(i) == {Named(i, 64)}

\* Two emulators: allow_unaligned chooses.
XiangShanBinaries == {Named("XiangShan", 64)}

\* CVA6_BIN "assumes RV64" and is taken for RV32 too when CVA6_RV32_BIN is unset.
Cva6Binaries ==
  { Named("CVA6", IF testcase.base = 32 THEN 32 ELSE 64),
    [Named("CVA6", 64) EXCEPT !.base = 64, !.generic = TRUE] }

\* What is named for the extensions is looked for first; the binary for all of RV32
\* is "typically RV32D".
VexBinaries ==
  LET exts == Exts("Vex")
  IN  { Named("Vex", w) : w \in {64} \cup (IF {"d", "f"} \cap exts = {"f"} THEN {32} ELSE {}) }

IbexBinaries == {Named("Ibex", 0)}
KronosBinaries == {Named("Kronos", 0)}
PicoBinaries == {Named("PicoRV32", 0)}
Srv32Binaries == {Named("Srv32", 0)}

Binaries(i) ==
  CASE i = "Rocket"    -> RocketBinaries
    [] i = "Spike"     -> SpikeBinaries
    [] i \in {"BoomV3", "BoomV4"} -> BoomBinaries(i)
    [] i = "XiangShan" -> XiangShanBinaries
    [] i = "CVA6"      -> Cva6Binaries
    [] i = "Vex"       -> VexBinaries
    [] i = "Ibex"      -> IbexBinaries
    [] i = "Kronos"    -> KronosBinaries
    [] i = "PicoRV32"  -> PicoBinaries
    [] i = "Srv32"     -> Srv32Binaries

FindBinary(i) ==
  /\ On(i, "find")
  /\ \/ /\ machine' \in Binaries(i)
        /\ Go(IF i = "CVA6" THEN "nm" ELSE "simulate")
        /\ Keep /\ UNCHANGED result
     \/ Fail("missing")
  /\ UNCHANGED files

\* CVA6 asks nm for the address of tohost in the program.
LocateToHost(i) ==
  /\ On(i, "nm")
  /\ \/ Go("simulate") /\ Keep /\ UNCHANGED <<machine, result>>
     \/ Fail("missing")
  /\ UNCHANGED files

Simulate(i) ==
  /\ On(i, "simulate")
  /\ \/ /\ ran' = ran \cup {[core |-> i, machine |-> machine, elf |-> files[i]["elf"],
                             exts |-> March(testcase.base, Exts(i))]}
        /\ Go("read") /\ UNCHANGED <<testcase, todo, core, outputs, machine, result>>
     \/ Fail("failed")
  /\ UNCHANGED files

\* Trace, disassembly, map of the user instructions, normalization, contexts.
Read(i) ==
  /\ On(i, "read")
  /\ \/ /\ outputs' = outputs \cup {i}
        /\ core' = {} /\ Go("dispatch") /\ machine' = NoSimulator
        /\ UNCHANGED <<testcase, todo, ran, result>>
     \/ Fail("failed")
  /\ UNCHANGED files

\* The timing report is written only if something was executed.
Return ==
  /\ result = "running" /\ core = {} /\ todo = {}
  /\ \/ result' = "ok"
     \/ outputs # {} /\ result' = "failed"
  /\ UNCHANGED <<testcase, todo, core, at, files, machine, ran, outputs>>

Next ==
  \/ \E i \in Core :
       \/ Dispatch(i) \/ Prepare(i) \/ WriteSource(i) \/ BuildStrings(i) \/ WriteScript(i)
       \/ Preprocess(i) \/ Assemble(i) \/ Link(i) \/ Disassemble(i) \/ BuildIsa(i)
       \/ FindBinary(i) \/ LocateToHost(i) \/ Simulate(i) \/ Read(i)
  \/ Return

Spec == Init /\ [][Next]_vars

-----------------------------------------------------------------------------
Supported == \A i \in testcase.cores : testcase.base \in SupportedBases[i]

\* VexExecutor masks the upper halves of the registers if neither D nor Q is in its map.
SeenWidth(r) ==
  IF r.core = "Vex" /\ {"d", "q"} \cap testcase.common = {} THEN 32 ELSE r.machine.flen

(* All cores of a testcase run it on machines of the base it was made for, *)
(* and, if it uses floating point, show registers of the same width, which *)
(* is that of its extensions: four executors choose their binaries each by *)
(* its own rule. Only RV32 programs on the generic CVA6 binary differ.     *)
SameMachine ==
  \A r \in ran :
    \/ r.machine.generic /\ testcase.base = 32
    \/ /\ r.machine.base = testcase.base
       /\ "f" \in testcase.common => SeenWidth(r) = (IF "d" \in testcase.common THEN 64 ELSE 32)

(* What is simulated, and what the trace is explained with, was made in    *)
(* this execution from this testcase, whatever an earlier one left in the  *)
(* directory; and it was built for every extension the testcase is made of *)
(* and everything these stand for.                                         *)
OwnProgram ==
  /\ \A r \in ran : r.elf = "new" /\ testcase.common \subseteq r.exts
  /\ \A i \in outputs : files[i]["dump"] = "new"

(* Every core runs in the alignment mode that was required, and in one it  *)
(* has; the filter of differential analysis leaves no core that refuses.   *)
RequiredMode ==
  /\ \A r \in ran : /\ r.machine.unaligned \in Modes[r.core]
                    /\ testcase.requirement \subseteq {r.machine.unaligned}
  /\ testcase.filtered /\ Supported => result # "unsupported"

(* The machine is the same for all cores and the mode the required one.    *)
RightMachine == SameMachine /\ RequiredMode

(* The extensions that supported cores have in common can always be given  *)
(* to the toolchain and to Spike: neither builder finds them inconsistent, *)
(* and the strings are closed, nothing they stand for is left unnamed.     *)
StringsAgree ==
  /\ Supported => result # "strings"
  /\ \A r \in ran :
       /\ Imply(testcase.base, r.exts) = r.exts /\ Combine(r.exts) = r.exts
       /\ r.core = "Spike" => SpikeIsa(testcase.common) \ r.exts \subseteq {"zicntr"}
=============================================================================

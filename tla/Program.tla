------------------------------ MODULE Program ------------------------------
(***************************************************************************)
(* The program around a testcase: build_asm_content of impls/*/config.rs.  *)
(* It sets the machine up, runs the instructions of the testcase, skips    *)
(* those that trap, and reports to the simulator. Each core has its own    *)
(* program; a testcase is compared only where all of them run all of it.   *)
(*                                                                         *)
(* Addresses count halfwords from user_code. The processor is external: it *)
(* traps as the privileged specification says, and writes the instruction  *)
(* to mtval for an illegal one, or 0 where the handler allows for that.    *)
(* A testcase has no jumps, calls of the environment or returns: they are  *)
(* taken out after generation (remove_special_instructions); ecalls and    *)
(* the calls of switch_to_s_mode are for testcases written by hand.        *)
(***************************************************************************)
EXTENDS Integers, Sequences, Functions

CONSTANTS Testcases,     \* the cores and instructions considered, see Types
          MaxInterrupts  \* bound on the interrupts of one run

(* What each program does besides installing its handler and reporting:    *)
(* "floats" enables floating point; "switches" can enter supervisor mode   *)
(* and returns to machine mode on an ecall from there; "checks" whether    *)
(* mtval is 0; a fetch fault "skips 2" or "skips 4" without looking;       *)
(* "interrupts" are told from exceptions; the handler computes the address *)
(* to return to from the instruction that was executed "last".             *)
RocketProgram    == {"floats", "skips 2"}
SpikeProgram     == {"floats", "skips 4", "checks", "switches"}
BoomProgram      == {"floats", "skips 4", "checks", "switches"}
PicoProgram      == {"last"}
IbexProgram      == {"floats", "skips 2", "interrupts"}
XiangShanProgram == {"floats"}
Cva6Program      == {"floats", "skips 2"}
VexProgram       == {"floats", "skips 2"}
KronosProgram    == {"skips 2"}
Srv32Program     == {"skips 2", "checks"}

Programs ==
  [Rocket |-> RocketProgram, Spike |-> SpikeProgram, Boom |-> BoomProgram,
   PicoRV32 |-> PicoProgram, Ibex |-> IbexProgram, XiangShan |-> XiangShanProgram,
   CVA6 |-> Cva6Program, Vex |-> VexProgram, Kronos |-> KronosProgram, Srv32 |-> Srv32Program]

Cores       == DOMAIN Programs
Compressed  == Cores \ {"Kronos"}                       \* have instructions of 2 bytes
Supervised  == {"Rocket", "Spike", "Boom", "XiangShan", "CVA6"}  \* have interrupts 1 and 9

(* An instruction: its halfwords, what it does, and whether the lowest bits *)
(* of a second halfword are 11, as those of a first one. No ecall is       *)
(* compressed.                                                             *)
Kinds == {"runs", "floats", "illegal", "faults", "ecall", "enters", "reports"}
Instruction == {i \in [size : {1, 2}, does : Kinds, tail : BOOLEAN] : i.does = "ecall" => i.size = 2}
Types == [core : Cores, code : Seq(Instruction)]

ASSUME TestcasesAssumption == Testcases \subseteq Types
ASSUME InterruptsAssumption == MaxInterrupts \in Nat

VARIABLES
  core, code,
  state,   \* "boot", "user", "handler", "spin", "astray"
  at,      \* the program counter
  mode,    \* "M" or "S"
  enabled, \* floating point is
  csr,     \* mepc, mcause without its interrupt bit, the bit, mtval, MPP
  log,     \* the instructions that were executed or trapped
  taken    \* the interrupts taken: cause and the instruction about to be executed

vars == <<core, code, state, at, mode, enabled, csr, log, taken>>

Has(what) == what \in Programs[core]

(* The reporting code follows the testcase.                                *)
Report == [size |-> 2, does |-> "reports", tail |-> FALSE]
Whole  == Append(code, Report)

(* Where an instruction starts, and the lowest bits of a halfword.         *)
Start == LET start[i \in 1 .. Len(Whole)] == IF i = 1 THEN 0 ELSE start[i - 1] + Whole[i - 1].size
         IN start
Bits(a) ==
  IF \E i \in DOMAIN Whole :
       Whole[i].size = 2 /\ (a = Start[i] \/ (a = Start[i] + 1 /\ Whole[i].tail))
  THEN "11" ELSE "other"

Csr == [epc : Int, cause : Nat, interrupt : BOOLEAN, mtval : {"11", "other", "0"}, mpp : {"M", "S"}]
Clear == [epc |-> 0, cause |-> 0, interrupt |-> FALSE, mtval |-> "0", mpp |-> "M"]

Init ==
  /\ \E t \in Testcases : core = t.core /\ code = t.code
  /\ state = "boot" /\ at = 0 /\ mode = "M" /\ enabled = FALSE
  /\ csr = Clear /\ log = <<>> /\ taken = <<>>

(* _start up to user_code.                                                 *)
Boot ==
  /\ state = "boot" /\ state' = "user"
  /\ enabled' = Has("floats")
  /\ UNCHANGED <<core, code, at, mode, csr, log, taken>>

Current(i) == state = "user" /\ i \in DOMAIN Whole /\ at = Start[i]

(* Instructions that do not trap. switch_to_s_mode is called by "enters".  *)
Runs(i) ==
  \/ Whole[i].does \in {"runs", "reports"}
  \/ Whole[i].does = "enters" /\ Has("switches")
  \/ Whole[i].does = "floats" /\ enabled

Execute(i) ==
  /\ Current(i) /\ Runs(i)
  /\ log' = Append(log, i)
  /\ at' = at + Whole[i].size
  /\ mode' = IF Whole[i].does = "enters" THEN "S" ELSE mode
  /\ state' = IF Whole[i].does = "reports" THEN "spin" ELSE "user"
  /\ UNCHANGED <<core, code, enabled, csr, taken>>

(* The exception an instruction may raise: illegal instruction, breakpoint *)
(* or access fault, page fault in supervisor mode, environment call.       *)
Causes(i) ==
  CASE Whole[i].does \in {"illegal", "floats"} -> {2}
    [] Whole[i].does = "ecall"  -> {IF mode = "S" THEN 9 ELSE 11}
    [] Whole[i].does = "faults" -> {3, 5} \cup (IF mode = "S" THEN {13} ELSE {})
    [] OTHER -> {}

Trap(cause, interrupt, mtval) ==
  /\ csr' = [epc |-> at, cause |-> cause, interrupt |-> interrupt, mtval |-> mtval, mpp |-> mode]
  /\ mode' = "M" /\ state' = "handler"
  /\ UNCHANGED <<core, code, at, enabled>>

Raise(i) ==
  /\ Current(i) /\ ~Runs(i)
  /\ \E cause \in Causes(i), mtval \in {Bits(at), "0"} :
       /\ cause = 2 /\ ~Has("checks") => mtval = Bits(at)
       /\ cause # 2 => mtval = "0"
       /\ Trap(cause, FALSE, mtval)
  /\ log' = Append(log, i)
  /\ UNCHANGED taken

Interrupts == {7} \cup (IF core \in Supervised THEN {1, 9} ELSE {})

Interrupt(i) ==
  /\ Current(i) /\ Len(taken) < MaxInterrupts
  /\ \E cause \in Interrupts :
       /\ Trap(cause, TRUE, "0")
       /\ taken' = Append(taken, [cause |-> cause, before |-> i])
  /\ UNCHANGED log

-----------------------------------------------------------------------------
(* trap_handler.                                                           *)

Length(bits) == IF bits = "11" THEN 2 ELSE 1   \* decode_length

(* Mutant: the size of the instruction is taken from mtval for all causes. *)
SkippedByMtval == Length(csr.mtval)

(* Mutant: every instruction is taken for a compressed one.                *)
SkippedHalf == 1

Skipped ==
  CASE csr.cause = 9 /\ Has("switches") -> 2
    [] csr.cause \in {1, 12} /\ Has("skips 2") -> 1
    [] csr.cause \in {1, 12} /\ Has("skips 4") -> 2
    [] csr.cause = 2 /\ ~Has("last") /\ ~(Has("checks") /\ csr.mtval = "0") -> Length(csr.mtval)
    [] OTHER -> Length(Bits(csr.epc))

(* intr_path of Ibex: nothing is skipped but what looks like the second    *)
(* half of an instruction.                                                 *)
Stepped == IF Bits(csr.epc) # "11" /\ Bits(csr.epc - 1) = "11" THEN 1 ELSE 0

(* Mutant: the size is subtracted.                                         *)
ResumedBefore == csr.epc - Skipped

(* Where the handler returns to. The interrupt bit is stripped. PicoRV32   *)
(* goes back by the size of the last instruction and forward again.        *)
Resumed ==
  csr.epc + (IF csr.interrupt /\ Has("interrupts") THEN Stepped
             ELSE IF csr.interrupt /\ Has("last") THEN 0 ELSE Skipped)

(* Mutant: an ecall does not end supervisor mode.                          *)
ModeAlwaysRestored == csr.mpp

ModeAfter == IF csr.cause = 9 /\ Has("switches") THEN "M" ELSE csr.mpp

(* mret. What the bits in the middle of an instruction do is not known.    *)
Return ==
  /\ state = "handler"
  /\ at' = Resumed /\ mode' = ModeAfter
  /\ csr' = [csr EXCEPT !.epc = Resumed, !.cause = 0, !.interrupt = FALSE, !.mtval = "0"]
  /\ state' = IF \E i \in DOMAIN Whole : Start[i] = Resumed THEN "user"
              ELSE IF Resumed = Start[Len(Whole)] + Report.size THEN "spin" ELSE "astray"
  /\ UNCHANGED <<core, code, enabled, log, taken>>

Next ==
  \/ Boot \/ Return
  \/ \E i \in 1 .. Len(code) + 1 : Execute(i) \/ Raise(i) \/ Interrupt(i)

(* A processor goes on.  Interrupts need not come.                         *)
Spec     == Init /\ [][Next]_vars
FairSpec == Spec /\ WF_vars(Next)

-----------------------------------------------------------------------------
(* Properties.                                                             *)

(* The variables have their types.                                         *)
TypeOK ==
  /\ [core |-> core, code |-> code] \in Types
  /\ state \in {"boot", "user", "handler", "spin", "astray"}
  /\ at \in Nat /\ mode \in {"M", "S"} /\ enabled \in BOOLEAN /\ csr \in Csr
  /\ log \in Seq(1 .. Len(Whole))
  /\ taken \in Seq([cause : {1, 7, 9}, before : 1 .. Len(Whole)])

(* The interrupts whose causes the handlers take for exceptions that they  *)
(* treat in a way of their own.                                            *)
Mistaken(t) ==
  \/ t.cause = 9 /\ Has("switches")
  \/ t.cause = 1 /\ (Has("skips 2") \/ Has("skips 4"))

(* The instructions that are lost when an interrupt comes before them: all *)
(* but on PicoRV32, and on Ibex those of 2 bytes after bits 11.            *)
Loses(i) ==
  /\ ~Has("last")
  /\ Has("interrupts") => i > 1 /\ Whole[i].size = 1 /\ Whole[i - 1].size = 2 /\ Whole[i - 1].tail

(* The instructions that the program has passed.                           *)
Passed == {i \in DOMAIN Whole : Start[i] + Whole[i].size <= at}

(* Every program runs the testcase in order and once, whatever instruction *)
(* of whatever size traps on the way and however it is told: it neither    *)
(* repeats nor leaves out an instruction, nor goes on in the middle of     *)
(* one.  Only interrupts do that, and only in these cases.                 *)
Ordered ==
  /\ \A i, j \in DOMAIN log : i < j => log[i] < log[j]
  /\ (\A t \in Range(taken) : ~Mistaken(t)) =>
       /\ state # "astray"
       /\ state \in {"user", "spin"} =>
            \A i \in Passed : i \in Range(log)
                              \/ \E t \in Range(taken) : t.before = i /\ Loses(i)

(* An instruction is executed in the mode that the testcase has asked for  *)
(* by the calls before it, and so on all cores in the same: a trap does    *)
(* not change it, but the ecall that is meant to does.                     *)
Asked == LET last == {i \in DOMAIN code : i \in Range(log)
                                          /\ code[i].does \in {"enters", "ecall"}}
         IN \E i \in last : code[i].does = "enters" /\ \A j \in last : j <= i
RightMode ==
  state = "user" /\ (\A t \in Range(taken) : t.cause # 9) =>
     mode = IF Asked THEN "S" ELSE "M"

(* Every program comes to its report, unless an interrupt came before just *)
(* that, or was mistaken.                                                  *)
Reports ==
  <>(\/ Len(Whole) \in Range(log)
     \/ \E t \in Range(taken) : Mistaken(t) \/ t.before = Len(Whole))
=============================================================================

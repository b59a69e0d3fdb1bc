------------------------------- MODULE Replay -------------------------------
(***************************************************************************)
(* A testcase from its memory range to the replay of one of its            *)
(* instructions. Every core initializes registers and memory, runs the     *)
(* testcase, and from the normalized writes the context before each        *)
(* instruction is computed. The classification of a difference restores    *)
(* that context in a new testcase (build_replay_testcase), where the       *)
(* instruction must meet what it met in the original one.                  *)
(*                                                                         *)
(* An integer stands for a register's or a byte's value; Half stands for   *)
(* 2^32. There is one test register of a kind; vector registers, which     *)
(* the replay does not restore, are left out.                              *)
(***************************************************************************)
EXTENDS MemRange, Sequences, SequencesExt

CONSTANTS Ram,      \* core -> the addresses that it can store to
          MaxSteps  \* bound on the testcase's instructions

ASSUME MaxStepsAssumption == MaxSteps \in Nat
(* The user memory is part of the memory.                                  *)
ASSUME RamAssumption ==
  \A c \in Cores : /\ Ram[c] \subseteq Nat /\ IsFiniteSet(Ram[c])
                   /\ UserMem[c].start .. UserMem[c].end \subseteq Ram[c]

VARIABLES request,  \* the testcase's configuration
          phase, range,
          machine,  \* core -> its registers and memory and the writes seen
          steps,    \* the number of instructions of the testcase run
          blocks,   \* core -> the replay testcase
          again     \* core -> its state before the instruction replayed

vars == <<request, phase, range, machine, steps, blocks, again>>

Half == 1000
Box  == Half - 1    \* the upper half of a single in a double register

(* Temporary registers in their order, the others. *)
Temps     == <<"temp0", "temp1", "temp2">>
Registers == Range(Temps) \cup {"test", "float"}
Scratch(q) == IF q.overlap THEN {"temp0", "temp1"} ELSE {}  \* what a handler uses

Low(v) == v % Half

(* The bytes that a store of a value writes; one byte is its own value.    *)
Byte(v, width, i) == IF width = 1 THEN v ELSE 10 * v + i

Li(r, v)                 == [op |-> "li", reg |-> r, value |-> v]
Fmv(r, width)            == [op |-> "fmv", reg |-> r, width |-> width]
Store(r, width, base, i) == [op |-> "store", reg |-> r, width |-> width, base |-> base, imm |-> i]
Float(v)                 == [op |-> "float", value |-> v]

-----------------------------------------------------------------------------
(* An execution: what the processor does, and what is read from its trace. *)

Fresh(c) == [regs |-> [r \in Registers |-> 0], mem |-> [a \in Ram[c] |-> 0],
             registers |-> <<>>, memory |-> <<>>, outside |-> {}, trapped |-> FALSE]

(* Mutant: addresses below the range are moved as well.                    *)
NormalizeBelow(c, a) == IF a <= range[c].end THEN a - range[c].start ELSE a

(* normalize: addresses in the range become offsets, others stay.          *)
Normalize(c, a) == IF a \in range[c].start .. range[c].end THEN a - range[c].start ELSE a

(* ContextCalculator: registers and memory written so far.                 *)
WriteRegister(s, r, v) ==
  [s EXCEPT !.regs[r] = v,
            !.registers = [q \in DOMAIN @ \cup {r} |-> IF q = r THEN v ELSE @[q]]]

WriteMemory(c, s, a, bytes) ==
  LET to    == a .. a + Len(bytes) - 1
      keys  == {Normalize(c, b) : b \in to}
      at(k) == CHOOSE b \in to : Normalize(c, b) = k
  IN
  [s EXCEPT !.mem = [b \in Ram[c] |-> IF b \in to THEN bytes[b - a + 1] ELSE @[b]],
            !.memory = [k \in DOMAIN @ \cup keys |-> IF k \in keys THEN bytes[at(k) - a + 1] ELSE @[k]],
            !.outside = @ \cup {b \in to : b \notin range[c].start .. range[c].end}]

(* A store outside of the memory traps, see Program.                       *)
TrapHandled(s) ==
  [s EXCEPT !.trapped = TRUE,
            !.regs = [r \in Registers |-> IF r \in Scratch(request) THEN 1 ELSE @[r]]]

Execute(c, s, i) ==
  CASE i.op = "li"    -> WriteRegister(s, i.reg, i.value)
    [] i.op = "float" -> WriteRegister(s, "float", i.value)
    [] i.op = "fmv"   ->
         WriteRegister(s, "float", IF i.width = 4 THEN Box * Half + Low(s.regs[i.reg])
                                   ELSE s.regs[i.reg])
    [] i.op = "store" ->
         LET a == s.regs[i.base] + i.imm
             bytes == [k \in 1 .. i.width |-> Byte(s.regs[i.reg], i.width, k - 1)]
         IN IF a .. a + i.width - 1 \subseteq Ram[c] THEN WriteMemory(c, s, a, bytes)
            ELSE TrapHandled(s)

RunBlock(c, s, block) ==
  LET after[n \in 0 .. Len(block)] ==
        IF n = 0 THEN s ELSE Execute(c, after[n - 1], block[n])
  IN after[Len(block)]

-----------------------------------------------------------------------------
(* The blocks that are generated.                                          *)

(* generate_initialization_instructions_for_vec. All cores get the same    *)
(* values; the number of words is taken from any core's range.             *)
InitBlock(c) ==
  LET word  == WordSize(request)
      count == (range[c].end - range[c].start + 1) \div word
      words == [n \in 1 .. count |->
                  <<Li(Temps[3], 50 + n), Store(Temps[3], word, Temps[2], (n - 1) * word)>>]
  IN <<Li("test", 2), Li(Temps[1], IF word = 4 THEN 3 ELSE 3 * Half + 3), Fmv(Temps[1], word),
       Li(Temps[2], range[c].start)>>
     \o FlattenSeq(words) \o [n \in 1 .. 3 |-> Li(Temps[n], 0)]

Ascending(S) ==
  LET below[n \in 0 .. Max(S) + 1] == IF n = 0 THEN <<>>
                                      ELSE IF n - 1 \in S THEN Append(below[n - 1], n - 1)
                                      ELSE below[n - 1]
  IN below[Max(S) + 1]

(* Mutant: only what is in the range is restored.                          *)
MemoryRestoreInside(c, memory) ==
  LET keys == SelectSeq(Ascending(DOMAIN memory), LAMBDA k : k < request.size) IN
  FlattenSeq([n \in DOMAIN keys |->
    <<Li(Temps[1], range[c].start + keys[n]), Li(Temps[2], memory[keys[n]]),
      Store(Temps[2], 1, Temps[1], 0)>>])

(* generate_memory_context_restore_instructions.                           *)
MemoryRestore(c, memory) ==
  LET keys == Ascending(DOMAIN memory) IN
  FlattenSeq([n \in DOMAIN keys |->
    <<Li(Temps[1], range[c].start + keys[n]), Li(Temps[2], memory[keys[n]]),
      Store(Temps[2], 1, Temps[1], 0)>>])

(* generate_register_context_restore_instructions: f before x.             *)
FloatRestore(registers) ==
  LET word == WordSize(request) IN
  IF "float" \notin DOMAIN registers THEN <<>>
  ELSE <<Li(Temps[1], IF word = 4 THEN Low(registers["float"]) ELSE registers["float"]),
         Fmv(Temps[1], word)>>
IntegerRestore(registers, r) ==
  IF r \in DOMAIN registers THEN <<Li(r, registers[r])>> ELSE <<>>
RegisterRestore(registers) ==
  FloatRestore(registers)
    \o IntegerRestore(registers, Temps[1]) \o IntegerRestore(registers, Temps[2])
    \o IntegerRestore(registers, Temps[3]) \o IntegerRestore(registers, "test")

(* Mutant: registers are restored before memory.                           *)
RegistersFirst(c, s) == RegisterRestore(s.registers) \o MemoryRestore(c, s.memory)

(* build_replay_testcase without the instruction that is replayed.         *)
Restore(c, s) == MemoryRestore(c, s.memory) \o RegisterRestore(s.registers)

-----------------------------------------------------------------------------
Init ==
  /\ request \in Requests
  /\ phase = "requested" /\ steps = 0
  /\ range = <<>> /\ machine = <<>> /\ blocks = <<>> /\ again = <<>>

(* mem_range and the checks of generate_random_testcase.                   *)
Generate ==
  /\ phase = "requested"
  /\ phase' = IF RangeFits(request) /\ OffsetFits(request) THEN "generated" ELSE "rejected"
  /\ range' = IF RangeFits(request) THEN MemoryRange(request) ELSE <<>>
  /\ UNCHANGED <<request, machine, steps, blocks, again>>

Initialize ==
  /\ phase = "generated" /\ phase' = "running"
  /\ machine' = [c \in Cores |-> RunBlock(c, Fresh(c), InitBlock(c))]
  /\ UNCHANGED <<request, range, steps, blocks, again>>

(* An instruction of the testcase on all cores, but for one that may fail  *)
(* to execute it.                                                          *)
Step(instruction) ==
  /\ phase = "running" /\ steps < MaxSteps
  /\ \E failing \in {{}} \cup {{c} : c \in Cores} :
       machine' = [c \in Cores |-> IF c \in failing THEN machine[c]
                                   ELSE Execute(c, machine[c], instruction[c])]
  /\ steps' = steps + 1
  /\ UNCHANGED <<request, phase, range, blocks, again>>

(* The base register of a memory access, adjusted for each core. The       *)
(* analysis may remove it and leave the access.                            *)
LoadBase == \E b \in {RegisterMin(request), RegisterMax(request)} :
              Step([c \in Cores |-> Li(Temps[1], range[c].start + b)])
Access   == \E w \in Widths(request), i \in {request.least, request.most} :
              Step([c \in Cores |-> Store("test", w, Temps[1], i)])
Integer  == Step([c \in Cores |-> Li("test", 4 + steps)])
Floating == \E upper \in {Box} \cup (IF 8 \in Widths(request) THEN {5} ELSE {}) :
              Step([c \in Cores |-> Float(upper * Half + 5)])

Build ==
  /\ phase = "running"
  /\ blocks' = [c \in Cores |-> Restore(c, machine[c])]
  /\ phase' = IF \A c, d \in Cores : Len(blocks'[c]) = Len(blocks'[d]) THEN "built" ELSE "mismatch"
  /\ UNCHANGED <<request, range, machine, steps, again>>

Rerun ==
  /\ phase = "built" /\ phase' = "replayed"
  /\ again' = [c \in Cores |-> RunBlock(c, Fresh(c), InitBlock(c) \o blocks[c])]
  /\ UNCHANGED <<request, range, machine, steps, blocks>>

Next == \/ Generate \/ Initialize \/ LoadBase \/ Access \/ Integer \/ Floating
        \/ Build \/ Rerun

Spec == Init /\ [][Next]_vars
-----------------------------------------------------------------------------
(* Properties.                                                             *)

Instructions ==
  [op : {"li"}, reg : Registers, value : Int]
  \cup [op : {"fmv"}, reg : Registers, width : {4, 8}]
  \cup [op : {"store"}, reg : Registers, width : {1, 2, 4, 8}, base : Registers, imm : Int]

Machine(m) ==
  \A c \in Cores :
    /\ m[c].regs \in [Registers -> Int] /\ m[c].mem \in [Ram[c] -> Int]
    /\ DOMAIN m[c].registers \subseteq Registers
    /\ DOMAIN m[c].memory \subseteq Nat
    /\ m[c].outside \subseteq Ram[c] /\ m[c].trapped \in BOOLEAN

(* The variables have their types, in each phase those it has computed.    *)
TypeOK ==
  /\ request \in Requests /\ steps \in 0 .. MaxSteps
  /\ phase \in {"requested", "rejected", "generated", "running", "built", "mismatch", "replayed"}
  /\ range \in [Cores -> [start : Nat, end : Nat]] \/ (phase \in {"requested", "rejected"} /\ range = <<>>)
  /\ phase \in {"running", "built", "mismatch", "replayed"} => Machine(machine)
  /\ phase \in {"built", "mismatch", "replayed"} => blocks \in [Cores -> Seq(Instructions)]
  /\ phase = "replayed" => Machine(again)

(* An access of a width the code reckons with, by a register and an        *)
(* immediate that the testcase is generated with.                          *)
AccessInside(q, base, imm, width) ==
  0 <= base + imm /\ base + imm + width <= q.size

Generated == phase \notin {"requested", "rejected"}

(* riscv_impls_vec.rs:479, 628: all cores get memory of one size, at a     *)
(* word boundary, inside their own, and what the testcase loads into base  *)
(* registers keeps every access of a declared width in it, negative        *)
(* offsets only included where there are also others.                      *)
RangesUsable ==
  Generated =>
    /\ \A c \in Cores :
         /\ range[c].start % WordSize(request) = 0
         /\ UserMem[c].start <= range[c].start /\ range[c].end <= UserMem[c].end
         /\ range[c].end - range[c].start + 1 = request.size
    /\ request.most >= 0 =>
         \A base \in RegisterRange(request), imm \in Immediates(request), w \in Declared(request) :
            AccessInside(request, base, imm, w)

(* riscv_impls_vec.rs:486: "Ranges are large enough to run any             *)
(* instruction" and "MemConfig's register_ranges enforce this".            *)
AnyAccessInside ==
  Generated /\ request.most >= 0 =>
    \A base \in RegisterRange(request), imm \in Immediates(request), w \in Widths(request) :
       AccessInside(request, base, imm, w)

(* What the instruction meets in the replay is what it met in the original *)
(* testcase: every register and every byte of the memory range on every    *)
(* core, whatever has failed, trapped or been removed before. Except that  *)
(* on RV32 the upper half of a double is lost, a register that a trap      *)
(* handler used is not known, and an address outside of the range that is  *)
(* as small as an offset is taken for one.                                 *)
Same(c, r) ==
  IF r = "float" /\ request.isa = "Rv32"
  THEN Low(again[c].regs[r]) = Low(machine[c].regs[r])
  ELSE again[c].regs[r] = machine[c].regs[r]

Reproduced ==
  phase = "replayed" =>
    \A c \in Cores :
      /\ \A r \in Registers :
           Same(c, r) \/ (machine[c].trapped /\ r \in Scratch(request))
      /\ \A a \in range[c].start .. range[c].end :
           \/ again[c].mem[a] = machine[c].mem[a]
           \/ a - range[c].start \in machine[c].outside

(* The replay is built unless two cores have written different numbers of  *)
(* bytes outside of the range: not for anything inside it, nor for         *)
(* registers, on whatever core their writes are missing.                   *)
Strays(c) == Cardinality({a \in machine[c].outside : a >= request.size})
BuiltUnlessStray ==
  /\ phase = "mismatch" => \E c, d \in Cores : Strays(c) # Strays(d)
  /\ phase = "replayed" => \A c, d \in Cores : Strays(c) = Strays(d)
=============================================================================

# A TLA+ model of DRVFuzz

DRVFuzz is a differential fuzzer for RISC-V implementations. It generates
random programs ("testcases"), runs each of them on several simulators,
compares what every instruction writes and whether it traps, and trims the
testcase until it knows which instructions make the implementations disagree.
This directory holds TLA+ modules for the parts of it that decide something
over several steps, the TLC configurations that check them, and TLAPS proofs.

All paths below are relative to `src/DRVFuzz/src/` of the repository unless
they say otherwise.

## 1. Inventory

| Component | State it keeps | Operations | Where |
| --- | --- | --- | --- |
| Differential analysis | current testcase, outputs, iteration index and count, round counters, the run directory with its iteration directories and reports | execute, verify the initialization, detect exceptions and writes, remove, converge, finish | `diff_analysis/runner.rs`, `types.rs` |
| Detection, verification | none | compare outputs inside a group | `detection.rs`, `verification.rs`, `analysis_utils.rs` |
| Classification and history minimization | replay outcome, cache of candidates, bracket, best candidate, candidate directories | replay, evaluate, search, conclude, clean up | `runner.rs` |
| Replay construction | none | restore memory and registers, append the instruction | `runner.rs`, `instruction.rs` |
| Outputs and contexts | running register and memory image | normalize addresses, record contexts | `execution_output.rs` |
| Generation | random state | draw instructions, lay out memory ranges | `riscv_impls_vec.rs`, `instruction.rs` |
| Fuzzing campaign | `run_counter`, `running`, worker threads, first error | spawn, claim a run, analyse, fail, join | `main.rs` |
| Guidance | visited items, seed pool, next index (behind a `Mutex`) | select a seed, record an analysis, trim, splice | `transition_guidance.rs` |
| Launch | source, script, object, ELF and dump of each core in its directory; environment variables | name the extensions, build with four tools, choose a simulator binary, run, read | `riscv_impls_vec.rs`, `march.rs`, `mabi.rs`, `build_elf.rs`, `impls/*/execute.rs`, `impls/spike/march.rs` |
| Program around the testcase | machine state of the simulated core | boot, handle traps and interrupts, change modes, report | `impls/*/config.rs` |
| Simulator processes | child process, two pipes and reader threads, clock, the log files of the run directory | prepare, spawn, poll, time out, kill, reap, join, write the logs, check the status, read the trace | `impls/*/execute.rs` |
| Traces | pending memory writes (BOOM), pending exception registers, writes per PC | map addresses to instructions, parse, attribute, merge per instruction | `impls/*/execute.rs`, `tracer.rs`, `user_instruction.rs` |
| Data sensitivity | none | label states, inject operands | `sd_model.rs`, `data_sensitive.rs`, `sd_instruction_cluster.rs` |
| Reports | none | format | `diff_analysis/reporting.rs`, `write_tags.rs` |
| CLI modes | none | `exec`, `generate`, `diff`, `diff-testcase`, `diff-spike` | `main.rs` |
| Measurement programs | timings | run the analysis repeatedly | `bin/*.rs` |
| Instruction crates | none | generate instruction types from a table | `src/riscv-instruction-crates/` |

How they interact. The campaign's main thread starts workers that share a run
counter, a flag and the guidance state. A worker claims a run, may take a seed
from the guidance, generates a testcase (which lays out the memory that all
cores can give it), and calls the differential analysis. The analysis calls
`RiscVImplVec::execute`, which launches the cores one after the other: each
wraps the testcase in its own program, has the toolchain build it, runs its
simulator as a child process, parses the trace it left and attributes the
writes to the instructions of the testcase. The analysis then calls the
detection on the normalized outputs; for a write difference it calls the
classification, which executes programs of its own (a replay, then candidates
of a binary search) with only the implementations of the group that disagreed.
The result goes back to the worker, which feeds the guidance.

What is hard about it:

- simulators may crash, time out, or show something else when they run again,
  and every decision rests on one execution;
- removing instructions renumbers the rest, so an index means something only
  with the testcase and the outputs it was computed from;
- directories are deleted while later steps still refer to what they hold, and
  run directories are used again with the files of an earlier execution in them;
- the search bisects a predicate that nothing makes monotone;
- a simulator, two threads that read its pipes, the clock and the executor
  interleave, and ten executors differ in what they remove, truncate, read and
  check;
- lines of a trace are printed late, in another order, or by two instructions
  at once, and must still be attributed to the instruction that caused them;
- each core skips a trapped instruction with a handler of its own, which must
  find out how long the instruction was; one that is wrong makes two correct
  cores disagree for the rest of the testcase;
- tables of extensions, bases, modes and memories of eleven cores are kept by
  hand in several places and must fit each other for any set of cores;
- a replay restores registers with instructions that themselves use registers;
- workers race for runs, end at different times, and are joined in a fixed
  order; the pool of seeds changes between two turns of a wrapping index.

`PROJECT.json` lists these hazards at their lines with the properties that
cover them.

What makes each component correct:

- Analysis: every removed instruction is accounted for once, in a report whose
  data still exists; the limit is respected; a good end means agreement; it
  ends; it acts on the earliest difference.
- Classification: what is handed out as minimized reproducer was run, showed
  the difference and is still there; the search finds the last start if there
  is such a thing, in logarithmic time.
- Replay: the target instruction meets the registers and memory it met before.
- Generation: all accesses stay in memory that every core has.
- Launch: all cores run this testcase, built for what it uses, on a machine of
  its base, register width and alignment mode.
- Program: the instructions run once each, in order and in the mode asked for,
  whatever traps; the program comes to its report.
- Processes: a trace taken for an answer is whole and of this execution; what
  is killed was over its limit and is waited for; the executor comes back.
- Traces: what the outputs say an instruction wrote is what it wrote last.
- Campaign: runs are distinct and none is dropped; a clean end means that all
  are done; the first error is returned; a failed analysis stops nobody.
- Guidance: an item counts once; seeds are only given up for better ones; every
  seed gets its turn.

## 2. Modules

```
Detection --+-> DiffAnalysis --(implements)--> Trimming
            |      +-> MCDiffAnalysis, DiffAnalysisProofs
            +-> HistoryMin -> MCHistoryMin, HistoryMinProofs
Guidance ---+-> MCGuidance
            +-> WorkerPool -> MCWorkerPool, WorkerPoolProofs (of Guidance, too)
IsaStrings, Cores --> Launch -> MCLaunch, LaunchProofs
Program ------> MCProgram, ProgramProofs
ProcessRunner --(implements)--> Execution
            +-> MCProcessRunner, ProcessRunnerProofs
Tracer -------> Traces -> MCTraces, TracesProofs
MemRange -----> Replay -> MCReplay, ReplayProofs
```

A property with several parts is a conjunction of named definitions, one for
each; the runs name the conjunction.

**Detection** holds the comparisons as operators on a *row*: what each
implementation shows for one instruction, a set of exception causes and a
value that stands for its canonical register and memory writes.

**DiffAnalysis** is `run_diff_analysis_with_testcase`. A testcase is the set of
test instructions still in it (removals keep the order). `outputs` has a row
per instruction of the testcase that was executed last. The local variables of
the function keep their meaning (`iteration` is `iteration_index`, `executed`
is `iterations_executed`, `excRounds` and `wrRounds` the round counters), and
the file system is kept as far as the code creates and deletes it: removal
reports in order, iterations with a cause report, iterations whose
implementation directories exist, the final report, the run directory. The
program counter splits the function where something it does not control comes
in: `execute` (the simulators), `verify`, `detect`, `classify` (the result of
`classify_write_difference`), `finish`.
`Groups` is `build_alignment_groups`: implementations are compared only with
those that have the same unaligned access support.
Two kinds of processors are modelled. With `Deterministic = TRUE` a row
depends on the instructions of the trimmed program up to and including this
one (test instructions do not jump), for an arbitrary function given by
`cpu`. With `Deterministic = FALSE` each execution may show any row. The
initialization is a part of every testcase and of every execution: `inits` is
what the outputs last obtained hold of it, drawn anew each time. The code looks
at it once, after the first iteration, so `Converged` says nothing of the
initialization in the outputs of a later one.

**Trimming** is the abstract specification: instructions are only taken away,
each is reported once, one verdict is given, nothing changes after it.

**HistoryMin** is `classify_write_difference` with
`minimize_history_write_difference`. `DiffAnalysis` uses only its answer, and
takes either answer as possible; `HistoryMin` says how the answer is found.
The replay program is abstracted to one restoring instruction and the target;
`config.cpu` says whether the candidates run as a given processor does or in any
way. `StatusOf` is the judgement of `evaluate_history_candidate` in its order. A
window is the run of the instructions from a start to the target.

**Guidance** is `GuidanceState`; a method runs under the mutex, so it is one
step. A testcase is the set of items its analysis shows. `selected` records the
last return value of `select_seed`. The mutex cannot be poisoned: nothing
panics while it is held.

**WorkerPool** is `run_diff_analysis_with_impls` and `diff_worker_loop`,
composed with Guidance (it EXTENDS it and its `Select` and `Complete` contain
the guidance steps). `running` and `counter` are the shared atomics, with one
action per access. An analysis is one step of a worker: it shares nothing with
other workers but the guidance, which `Complete` updates.

**IsaStrings** is `march.rs`, `mabi.rs` and `impls/spike/march.rs` as functions
on sets of extensions: a string is the set of names in it. The loops of the code
that repeat a pass over a table until nothing changes are sixteen passes, which
`StringsAgree` checks to be enough and `ImpliedClosed` proves to be, for every set
of extensions. **Cores** holds the tables of the cores
(bases, alignment modes with the default, extensions) and what a set of cores
has in common.

**Launch** is `RiscVImplVec::execute`: one action per step of
`execute_with_extension_override` and the toolchain, from the creation of the
directory over four tools to the reading of the trace. A directory may hold the
files of an earlier execution; a file is `new` when everything it was made from
is of this execution. `Binaries` is the choice of a simulator by each of the ten
executors with the environment variables set or unset. `machine` is what is
found: a base, a register width, an alignment mode. What a simulator does is
`ProcessRunner`, how its trace is read is `Traces`; here both are one step that
may fail.

**Program** is the assembly of `build_asm_content`: boot, the trap handler as
each core has it, the changes of mode and the report. Addresses count halfwords,
an instruction is its size, what it does (runs, is illegal, faults, is an
environment call...) and the low bits of its last halfword. The processor is
external: it traps as the privileged specification says, with 0 in mtval for an
illegal instruction only on the cores whose handlers look for that; the others
are assumed to write the instruction, as their handlers do. Interrupts may come
before any instruction, `MaxInterrupts` of them.

**Tracer** is the reading of the disassembly that maps addresses to
instructions. **Traces** has a processor that executes a small program and
prints a log in the format of one simulator, and the executor that reads it
line by line. A written value is the number of the step that wrote it, so that a
value says where it comes from. For each simulator there is what it prints and
what its parser does with a line: BOOM's queue of memory writes that are printed
after the instruction, its and srv32's pairing of exception registers with the
trap, Vex's two log files, CVA6's and XiangShan's splitting of stores into
bytes. The testcase may read mepc and mcause itself, which BOOM's parser does not
tell from the reads of the trap handler. BOOM's accesses may wait for each
other's writes (`style = "overlap"`), and a store that was killed has a commit
line but never writes, so that its entry stays behind. `Configs` are the
executions considered; `Runnable` and `Listed` say what they are. A log of BOOM
does not always tell whose a memory write is: `Attributable` is a predicate of
one of its lines, true of every line that names its instruction, and of the
others if up to there every write was made by the access committed just before
(within two lines), or else by the oldest of its kind that is still awaited
(`Clear`, `Fresh`, `Alike`, `Awaited`). It is stated over the history of the log,
not over the queue of the parser. At the end the writes of the addresses of each
instruction are merged.
The layout of lines (regular expressions) is abstracted to the fields they hold.

**MemRange** is the layout of memory: `RiscVImplVec::mem_range`, the range of
base registers and of immediates. **Replay** takes a testcase from its memory
range through initialization, execution on several cores and the normalization
of its outputs to the context of an instruction, builds the replay testcase
(`build_replay_testcase`) and executes it: the machine before the target must be
the same. `Half` stands for
2^32, so that a value has a lower and an upper half. The registers are the three
temporary ones, of which handlers use two where the configuration lets them, one
other and one floating point register.

**ProcessRunner** is one execution of one simulator: the `run_*` function of
its `impls/*/execute.rs` and the lines of `execute` around it that decide which
trace is parsed. The ten functions are one control flow with differences, and
the differences are sets of simulators: who has reader threads (`Threaded`),
output redirected to a file (`Redirected`), a trace file of its own (`OwnLog`),
pipes that nobody reads and a timeout by default (`Deaf`), removes an earlier
trace (`Removing`), and treats the exit status and an empty trace in which way
(`StatusIgnored`, `Lenient`, `RejectEmpty`). Two simulators appear twice:
`cva6_00` is a CVA6 that writes the second of the file names looked for, which
is not the one removed before the run, and `srv32_cov` is the RTL simulator of
srv32, whose `trace.log` is renamed. `config` is one execution: the simulator,
its limit, what it is going to print on its two streams, whether it gets as far
as creating its trace, how it ends, and what the run directory holds. The
executor, the simulator, the two threads and the clock are processes of their
own. The stream `log` is the one that has the trace: PicoRV32's executor parses
what came on stderr when stdout held none (`parse_trace_with_fallback`), and
Ibex's trace has two possible names, both of which are removed before a run. `Fault` is any of the system calls that fail with a `?`. Abstractions:
trace contents are counted in chunks; `kill` takes effect at once; the fallback
from a rename to a copy is one step; a simulator has no children of its own
that keep its pipes open after its end.

**Execution** is what the analysis may expect of an execution: one verdict, and
with a good one the whole trace, in a run directory that can be trusted.

## 3. Runs

| Run | Instance | Shows |
| --- | --- | --- |
| `DiffAnalysis_flaky` | Spike, Rocket, XiangShan with their unaligned modes, required or not, 4 instructions, any rows, limits none and 0 to 2, cleanups on and off | `TypeOK`, `LimitRespected`, `Evidence`, `Converged`, implementation of `Trimming` |
| `DiffAnalysis_repeat` | 2 implementations, 3 instructions, all functions from executed prefixes to 4 rows | `NeverGoesBack`, `Terminates` |
| `HistoryMin` | targets up to 4 with any rows for candidates; target 9 on processors that show the difference from any set of starts | `TypeOK`, `MinimalReproducer`, `Bisects`, `Terminates` |
| `Guidance` | 4 items, pool of 2, index modulo 5 | `CountedOnce`, `KeepsInteresting`, `EverySeedUsed` |
| `WorkerPool` | up to 3 workers with limits 0 to 2, 1 without a limit, guided or not, 2 without a limit and unguided, run numbers modulo 3 | `TypeOK`, `RunsAccounted`, `DeathsTold`, `EndsOrGoesOn` |
| `ProcessRunner` | all ten simulators and two variants, new and used run directories, 0 or 2 chunks per stream, pipes of 1 chunk, limits none and 1 (default 2), time up to 3 | `TypeOK`, `WholeOwnAnswer`, `KilledAndReaped`, implementation of `Execution`, `Returns` |
| `Launch` | every core and every pair on both bases, Spike with every two cores of RV32, all cores of RV64; any alignment requirement, filtered or not; clean and used directories | `TypeOK`, `RightMachine`, `OwnProgram`, `StringsAgree` |
| `Program` | every core with all testcases of up to 3 instructions of every kind and length, up to one interrupt | `TypeOK`, `Ordered`, `RightMode`, `Reports` |
| `Traces` | every simulator with programs of 2 instructions at 3 addresses, in order, in loops, with traps, interrupts (Rocket and Spike on both bases), atomics and failing stores; XiangShan's stores on lines of their own; BOOM with one access at a time or several that overlap, killed stores, noise, up to 5 steps and a queue of 2, with interrupted stores and testcases that read mepc and mcause; repeated and unknown texts | `TypeOK`, `Shows`, `WritesAttributed`, `PairedRight`, `MappedRight` |
| `Traces_moves` | BOOM, programs with compressed moves and delayed stores | violation of `AttributedRight`, see findings |
| `Replay` | a core with RAM at 0 and one with RAM further up, memories of 6 to 24 bytes, offsets of both signs, 3 instructions | `TypeOK`, `RangesUsable`, `Reproduced`, `BuiltUnlessStray` |
| `Replay_width` | the same on RV32 with doubles | violation of `AnyAccessInside`, see findings |

The parts of the properties. `Evidence`: a report for each removal and one
removal per iteration, whose directories are still there. `MinimalReproducer`:
what is written was run, showed the difference, survived the cleanup, and one
instruction less loses it. `Bisects`: if the candidates behave like a
processor for which there is a last start, it is found, with logarithmically
many executions. `RunsAccounted`: the runs of two workers are distinct, a run
that comes to nothing took its worker with it, all are done at a good end.
`DeathsTold`: the first error is returned, and only a death stops a worker.
`WholeOwnAnswer`: the trace answered is complete and of this execution.
`KilledAndReaped`: only what is over its limit is killed, and nothing is left.
`RightMachine`: base and register width fit the testcase on every core, and so
does the alignment mode. `Shows`: the writes in the outputs are those of the
execution, for every address the last; what Rocket's executor shows of an
interrupt on RV32, where bit 63 of the cause is never set, is an exception
(`Excepts`), and memory is left out for a log of BOOM with a write that is not
attributable.
`WritesAttributed`: a memory write goes to the instruction that made it whenever
that can be told, and when all is read the parser only waits for killed stores.

Why the bounds are enough. Four instructions allow three removals of different
kinds with something left; three rounds with history removals in the middle
need three. Two implementations in a group are enough for every comparison,
which is pairwise; three are needed for a group of one beside a group of two.
Limits 0 and 1 are the two sides of the unchecked first execution. A search
over ten starts takes up to five candidates, so that both directions follow
each other in every order. An index width of 5 is not a multiple of the pool
size, so that the wrap changes the turn (the code's width, 2^64, is not one of
3, say). Three workers allow one that is joined, one before and one behind it.
Two chunks through a pipe of one are the least output that blocks a simulator
whose pipe is not read, and an output of none gives the empty and the missing
traces; the clock passes every limit by one, which is where `>` and `>=` of the
executors differ. The common extensions of a set of cores are an intersection,
so pairs show every way in which one core takes something from another, and
triples with Spike, which is told the extensions, every way they are taken from
its string. A handler knows only the trapped instruction and its
neighbours, so three instructions show each kind first, in the middle and last,
before and after each other kind. In a trace two instructions at three
addresses give a write before, between and behind the lines of another one, and
with a queue of two a third access that waits pushes out the oldest, whose write
then has no entry; five steps are enough for that to happen and for what is left
to be matched afterwards. The parser's error for a write before any instruction
(`MissingPcForMemoryTrace`) is in `BoomWrite`, but no log of the run has one: the
commit line of an access comes before its write. Memories of 8 and 16
bytes are one word or two, 6 is no number of words, and 24 is one more than the
code takes the memory of the cores for. What the proofs
cover holds without bounds.

Fairness. `DiffAnalysis` and `HistoryMin` are sequential functions; weak
fairness of `Progress` says that their thread runs and the simulators they wait
for return, which they do when they have a timeout or end by themselves;
failures are not fair, they need not happen. `WorkerPool` has weak fairness for
the main thread and for each worker, as the operating system schedules them,
under the same assumption on analyses. Joining a worker waits for it, so `Join`
is enabled only then. `ProcessRunner` has weak fairness of the executor, of
each reader thread, of the clock, and of a simulator that has something left to
do and is not blocked by a full pipe; one that hangs (`exit = "never"`) has
nothing left to do at some point, and a fault need not happen. `Program` has
weak fairness of its next-state relation: a simulated processor goes on; which
step it takes is not chosen, and interrupts need not come. `Guidance` alone has
weak fairness of `SelectSeed`: workers select for as long as the campaign runs.
The part of `EndsOrGoesOn` about unlimited campaigns has the absence of deaths
as a premise, since only that is promised.

`CHECK_DEADLOCK FALSE` is used only for programs that stop when they are done,
or, for `ProcessRunner`, may wait for ever for a simulator that hangs.

Each property of a passing run has a mutant in `PROJECT.json`: a definition
changed the way a bug would (the operators commented as mutants, next to what
they change), with which TLC finds the property violated.

## 4. Findings

Two statements of the repository that the code does not keep. Each has a run
that ends in a violation.

1. `impls/boom/execute.rs:1171` takes quadrant 2 with funct3 100 for `c.fswsp`.
   These are `c.mv`, `c.add`, `c.jr` and `c.jalr`, so every compressed move is
   put in the queue of instructions waiting for a memory write, and takes that
   of a store behind it, against the comment at `:1036` (`Traces_moves`).
2. `isa_base.rs:41` gives 4 as the widest access of RV32, although Rocket, BOOM
   and Spike list D for RV32 and `fsd` accesses 8 bytes. A base register and an
   offset that the generator allows then reach beyond the memory range, against
   `riscv_impls_vec.rs:486` and `:491` (`Replay_width`).

What else was noticed while modelling. The models do what the code does in each
of these cases, and the properties that hold name them as exceptions where they
concern them.

Analysis and campaign:
- `configs/rv64.toml:1` says that the implementation directories are cleaned
  when a run finds no differences. An iteration whose only differences are
  exception causes is cleaned all the same (`runner.rs:406`), so the outputs
  behind its report are gone.
- The test at `runner.rs:215` expects Spike to support unaligned accesses by
  default; `impls/spike/config.rs:8` lists `false` first, which is what the
  default takes. Without a requirement XiangShan is then compared with nobody
  in a group with Spike and Rocket.
- `main.rs:164` says that a campaign without `--max-runs` goes on until a
  worker fails. A failing worker behind the one being joined does not stop it.
- `readme.md:140` says that any worker failure leaves
  `diff_analysis_failure.md`. One outside the analysis leaves none.
- A test of splicing says that the seed replaces the generated prefix
  (`transition_guidance.rs`); the code keeps the generated prefix and drops its
  tail.

Processes:
- `main.rs:148` says that without a timeout a simulator runs to its natural
  end. Ibex, Vex, Kronos and srv32 are killed after ten seconds.
- The RTL simulator of srv32 "emits trace.log" (`impls/srv32/execute.rs:181`),
  which becomes `srv32.log` only if there is none (`:249`), and none is
  removed. A second execution in a run directory parses the first one's trace.
- A relative name of a Vex binary is looked for before the working directory is
  changed.

Traces:
- BOOM's parser takes any read of mepc and mcause for one of the trap handler
  (`impls/boom/execute.rs:639`). Of a testcase that has written these registers
  before it reads them (`configs/rv64.toml:19` lets machine CSRs be used), it
  reports an exception that was not taken.
- After an interrupt at a store, a testcase that reads mepc and mcause before the
  store's memory write is printed takes the waiting entry away
  (`impls/boom/execute.rs:652`), and the write goes to another address. The
  write's line is not `Clear` then.
- Of two back-to-back stores of one size, of which the first is printed within
  two lines of the commit of the second, BOOM's parser gives that write to the
  second (`impls/boom/execute.rs:496`), and the other one to the first. Its log
  does not tell this order from the other, so neither line is `Clear`.
- Rocket's and BOOM's executors tell interrupts by bit 63 of the cause
  (`impls/rocket/execute.rs:876`). On RV32 it is bit 31, so that Rocket shows an
  interrupt as an exception of the instruction, which Spike, where it has a name,
  leaves out. The property counts it as Rocket does.

Programs:
- Ibex's handler moves the return address after an interrupt past an
  instruction of two bytes if the halfword before it has low bits 11. Those of
  the other cores strip the interrupt bit and skip the interrupted instruction;
  a supervisor software interrupt (cause 1) is taken for a fetch fault. CVA6
  clears `mip` in its handler.
- `configs/rv64_rocket_boom.toml:17` and `configs/rv64_spike_boom.toml:20` give
  x6 to x12 as temporary registers, of which handlers clobber x6 and x7;
  PicoRV32's clobbers t2.

Replay:
- An absolute address outside of the range is restored with the start of memory
  added once more (`instruction.rs:466`), and a small one collides with an
  offset on cores with RAM at 0. Vector registers are not restored, and on RV32
  doubles lose their upper half.

Launch:
- `CVA6_BIN`, which "assumes RV64", is taken for RV32 when `CVA6_RV32_BIN` is
  unset (`impls/cva6/execute.rs`).
- D of Vex, Zcmp of CVA6 and Zicond of BOOM on RV32 are commented out, and
  BoomV4 lists Zba, Zbb and Zbs twice.
- Kronos is started with `--tohost 0x100`, the start of its user memory.

## 5. Proofs

All proofs are checked by tlapm to the last leaf. Their only assumptions are the
named ones on the constants, which TLC evaluates in the runs: an analysis
compares a finite set of implementations, `N` is a natural number, rows and
processors are typed, every mode is Boolean, the options of a campaign are
natural numbers of which at most one is a limit, candidates run as at most one
processor says, user memories start at a double
word inside a core's memory, which is a finite set of addresses, testcases are
programs of the known instructions, a launch asks for known cores, one of the two
bases and at most one alignment mode, and logs are of the executions described
below. Everything holds for any number of implementations,
instructions, workers, runs, items and seeds, interrupts, and any set of cores.

Recursion. Several properties are about what a recursive function or a fold
computes: the sum of the counts of a pool, the start of the i-th instruction, a
power of two, the machine after a block of instructions. The theorems of the
library for this take an operator as a parameter, which the provers cannot
instantiate. The proofs go back to the definition instead: `f[n \in Nat] == e`
stands for `CHOOSE f : f = [n \in Nat |-> e]`, so that a proof that such a
function exists gives its equation. That is proved once for each function
(`StartExists`, `TotalExists`, `PowerExists`, `RunExists`) from approximations
on initial segments, with induction in a form that needs no operator: a set of
numbers that holds 0 and is closed under successor is `Nat` (`Induction`, from
the least element of a set, `LeastNumber`).

**`DiffAnalysisProofs`.** The inductive invariant is built in layers, each proved
from those before it:
- `TInv` adds to the types that the outputs being compared are those of the
  current testcase, so an instruction that is classified is still in it.
  Without it removal could be of something that is gone.
- `BelowLimit` adds to `LimitRespected` that the limit is not yet reached when
  an execution starts: the check is made there and the count raised later.
- `Kept` adds to `EvidenceKept` that the number of removal reports is the sum of
  the round counters, that the directories of the current iteration exist and
  that the run directory does until the end. The other two parts of `Evidence`
  are proved on the same step lemmas; `EvidenceAlways` joins them.
- `Verified` and `Clean` say what each stage has established about the outputs
  it hands on, the first of them only those of the first iteration (`Checked`);
  `Converged` is their conclusion at the return.
- `ForwardInv`, for processors that repeat: `Repeated` (the outputs are what the
  processors show for the current testcase, and the difference being classified
  is the first) and `Settled` (up to the target of any write removal nothing
  differs any more). `NeverGoesBackHolds` needs `Settled` because later removals
  must not bring back a difference before an earlier target: they are all behind
  it, or take everything before them away, so the instructions before it keep
  their prefixes.
- `Refinement`: every step is a removal or the conclusion of `Trimming`, or
  changes nothing there. An execution, a verification and a classification
  stutter.

**`HistoryMinProofs`.** `IInv` joins the types, `Fresh` (the candidate being
evaluated has not been before), `Evaluated` and `Conclusive` (what is known
about a candidate is what its run showed), `Bracket` and the two parts of
`MinimalReproducer`. `BestImproves` follows from the bracket: the middle lies
above the best start. `LastStartFound`, the first part of `Bisects`, adds `Truthful`: what
is in the cache is what the processor shows. A search on such processors is
never cut short, so what `MinimalReproducer` says of the cache holds of the
processor. `BisectsHolds` adds the second part, the number of executions, with
the invariant `Halving`: while the search goes on, the bracket times the power of
two of the candidates tried fits in the testcase (`Halves`: either side of the
middle is at most half of the bracket, whatever the candidate shows).

**`WorkerPoolProofs`**, first part: `Guidance`. The pool's limit needs that one removal makes up for one
addition, and `KeepsInteresting` that the seed dropped is a least one: the
first follows from what `RemoveAt` returns, the second from the least element
of a non-empty set of numbers (well-founded `<`). No strengthening is needed.
`CountedOnceHolds` does need one: that the counts of the pool add up to no more
than the visited items is not inductive by itself. `Attributed` says why they
do: the visited items are the union of shares, one for each seed and pairwise
disjoint, each as large as the seed's count (some items belong to seeds that are
gone). `SharesAddUp` is the lemma from shares to the fold, `SharesAppend` and
`SharesRemove` are recording and trimming.

The campaign: `IInv` has four parts beside the types. `Stages`: nobody
is born before the main thread spawns, everybody is when it joins, and the
workers below `handle` have ended. `Errors`: the error kept is of the dead
worker with the least number; this is inductive because those joined before it
all exited and an ended worker never moves. `Stopping`: a lowered flag means a
kept error or the limit reached, and a worker that exited saw it lowered.
`Claims`, for limited campaigns: the claimed runs are those below the counter,
and the counter stays within the limit, which is why it cannot wrap. Two lemmas
(`WorkerStep`, `RunStep`) summarise the eight actions of a worker, so that the
preservation proof has four cases instead of eight. An unlimited campaign makes
no such claims: its counter, of 64 bits in the code, does wrap in the model.
The theorems are `RunsAlwaysAccounted` and `DeathsAlwaysTold`.

**`ProcessRunnerProofs`.** For every simulator, output, pipe size and limit.
`IInv` has four parts beside the types and `NothingLeft`. `Stages`: what the
executor knows of the simulator where it stands (after `reap` it is gone, a
killed one means that the deadline has passed). `Flow`: what the simulator wrote
to a stream that is read is in the pipe or in the thread's buffer, and a thread
ends only after the simulator; without it a joined thread could have missed
something. `Files`: as long as the simulator has not created its trace, the
directory holds earlier ones or none, after that its own. `Answered`: what the
returned trace is, which cannot be read off the directory later since a
simulator may be left running when a system call has failed. The theorems are
`TypeCorrect`, `AnswerHolds`, `KillingHolds` and `ExecutionImplemented`.

**`LaunchProofs`.** For every set of requests. The lemmas about the tables come
first: what the cores have in common each of them has (`CommonOfEach`), the
strings name at least what they are built from (`MarchNames`), a core of RV64
with singles has doubles (`DoublesOf64`), Spike has doubles if and only if they
were asked for, since nothing it lists implies them (`SpikeFloats`). From them
`FoundRight`: whatever binary a core finds is of the testcase's base and width.
`IInv` adds to the types that at most one core is executed and is neither waiting
nor read (`Alone`, `Apart`), that it was not rejected (`Accepted`), that the
simulator was found for it (`Chosen`), and which of its files the next step finds
made (`Fresh`); without `Fresh`, which steps before it must establish one by one,
nothing could be said of the program a simulator is given. A tool that fails may
leave what it likes: nothing is read any more after an error.

`StringsAgreeHolds` is about the fixpoints of the two tables. `PassOf` gives each
extension the pass in which it can come in at the latest; a row only names later
ones (`Later`, proved table by table), but for F and Zfa, which imply each other.
So what a pass brings in is of a later pass than all that the one before brought
in (`NextPass`; the pair F, Zfa adds nothing new, and the two rows with a condition
are cases of their own), and after eleven nothing is left: `ImpliedClosed`, for
any set of extensions whatever and both bases. The combinations need two
passes (`CombinedTwice`, since only three extensions that are made up make up
others) and do not open the first closure again (`CombinedKeeps`), hence
`MarchClosed`. That no builder fails is a fact about the cores: `Sound` lists what
the code's checks ask of a set of extensions, in the form that one extension is
there if another is, or is not there at all. Each core's list has it
(`CoreSound`), the intersection of any number of lists keeps it (`BuiltSound`),
and the closure brings in nothing that is excluded (`MarchClean`, `SpikeWithin`). `Agreed` is the
inductive invariant: what was run has the closure of what it was built with.

`MarchIsClosure` and `SpikeIsClosure` are about the loops alone, for any set of
extensions: each comes to the least set that is closed. For `-march` that takes
both tables, although the code never returns to the first loop after the second.

**`ProgramProofs`.** For every core, testcases of any length and any number of
interrupts. `LayoutHolds`: instructions lie one behind the other, so two of them
at the same or at overlapping places are the same (`Apart`); this is where
`Start` is unfolded. The inductive invariant says where the processor is
(`InPlace`: at the first halfword of an instruction), what the handler is going
to do (`ExceptionHandled`: what it will skip is exactly the size of the
instruction that trapped, whichever way the core finds it), and relates log and
place (`Ascending`, `NothingLost`: of what is behind, every instruction was
executed, has trapped, or was before an interrupt in one of the listed cases).
`Reached` counts an instruction whose handler is still running as passed; without
it the invariant would not hold inside handlers. `ModeKept` is `RightMode` with
the handler's saved mode. `TailBefore` is the case of Ibex, whose handler looks
at the halfword before the return address: it can only be that of the previous
instruction. The proof asks that no `ecall` has two bytes, which is so on every
core and is part of the type of instructions.

**`ReplayProofs`.** `RangesHold`: rounding down to words keeps the range inside
every core's memory, and the bounds on base registers leave room for every
offset and declared width. The other theorems are about blocks of instructions
of any length:
- `RunBlock` is a recursive function; `RunConcat` and `RunFlatten` split a block
  into its parts, `RunPreserves` carries an invariant of instructions through.
- `Tracked` are the states in which the context that the analysis keeps agrees
  with the processor, except where a trap handler or a stray write says
  otherwise. `Executed` shows that every instruction keeps a core in it. `Covered`
  are those whose context knows every register and every byte of the range;
  `InitCovers` shows that the initialization reaches it, whatever the memory
  holds, and `ExecutedCovered` that it is never left.
- `MemoryRun`: restoring the bytes in ascending order leaves each address with
  the byte of the context, unless a stray one is taken for it. `RegisterRun`:
  restoring the floating point register first and the temporary ones after it
  brings back all of them. `RestoreRun` puts the two in order.
- `Ascending`, the order in which the code visits a map, is proved to list each
  address once (`AscendingProperties`); it gives the length of the restore code,
  three instructions for each byte and six for the registers, which is why only
  stray addresses can make it differ between cores.
- `Inv` joins these: ranges are those that were allotted, running cores are
  covered, the blocks restore what the cores have, lengths are equal unless there
  is a mismatch, and the replayed cores are like the original ones (`Pairs`).

**`TracesProofs`.** For every simulator, program, listing and length of an
execution, from two assumptions: `ConfigsAssumption`, that the executions are
`Runnable` (aligned accesses, a path through the program) and the listing is what
objdump makes of the program (each instruction's source line once, in order, with
its addresses behind it, none of them the trap handler's, which is a part of the
program of its own) or lacks an instruction; and `NoneAssumption`, that no
value is taken for none. Five invariants:
- `Mapping` for `MappedRightHolds`: the lines read so far are a prefix of the
  listing, the instructions found are those whose source line lies in it, the
  active one is the last of them, and the addresses given are those that follow
  in the prefix. It is stated with the position of each source line, so that
  repeated texts make no difference.
- `PairedInv` for `PairedRightHolds`. `Told` says of a line which step it
  shows (kind, address, values), `Paired` that a read of mcause that follows one of mepc, with no other between them, shows
  the same trap; both are kept by everything a processor prints, since a step
  only adds lines of its own (`ExecutePrints`). Of the parser only the noted mepc
  is to be known: it is the value of the last of these reads (`Noted`). Without
  `Paired` over the whole log nothing could be said of a pair whose lines are read
  in different steps.
- `WriteInv` for `WritesAttributedHolds`, for every execution. `DueInv` is about
  the log alone: commits are in the order of the steps, and each one is settled,
  by its write or by the lines of its trap, or still has a write to be printed, or
  was killed. `QueueRight` is about the parser: as long as every line was clear,
  its queue holds the entries of the steps awaited, in their order (`Lists`), and
  nothing else. A commit adds the last of them and makes the first one
  unawaited when the queue is full (`Awaited` counts how many came after it); a trap
  takes out those at its address, which is a recursive function, unfolded over
  the list; a write takes out its own. That the entry found first, or found again
  within two lines, is the writer's, is `WaitingIs`: it needs the order, since the
  queue knows kinds and addresses but not steps, and several steps may have the same.
  `MemsRight` adds that the memory writes kept so far are where they were made, if
  attributable. At the end `DueInv` leaves only killed stores in `QueueRight`.
- `ShowInv` and `DoneInv` for `ShowsHolds`. There is a numbering `S` of the lines
  of the log by steps (`NumberedBy`) under which each line tells of its step and
  every effect of a finished step has a line, or is a write that BOOM has still to
  print; it is in the order of the steps, but for BOOM, whose writes are late. The
  numbering is not state of the simulator: each step adds lines and extends it.
  Against it, `ReadRight` says that what the parser holds is what the lines read
  so far show, with their places as times: every entry comes from a line, and
  every line has an entry at least as late. For memory these are two parts: every
  entry comes from a line (`MemsFrom`), and each line has its entry at the address
  of its step if all writes so far were attributable (`MemsNamed`, `AllNamed`). It
  needs the noted mepc (`EpcNoted`) for the two simulators whose exceptions are
  pairs of lines, and `WriteInv` for BOOM. Of each of the ten merges it is then
  proved that it takes the entry of the highest step among the addresses of an
  instruction: by cycle, by place in the log, or by the highest address, which is
  the last step if the execution goes upwards. This is where `Ascending` is used,
  and where the address of the trap handler must not be one of the instruction's.
  `Built` says that the output is what the merge made of that.
- `QueueInv` for `TypeCorrect`: the limit of BOOM's queue, whose entries are
  appended and dropped in the middle. The other types follow from `ShowInv`: an
  entry is that of a line, whose register or bytes are those of an operation.

What stays with TLC:
- Liveness (`Terminates`, `EndsOrGoesOn`, `EverySeedUsed`, `Returns`,
  `Reports`), which TLAPS does not prove under fairness.
- The two disagreements with the documentation (`violation` runs), which are
  refuted by their counterexamples.

Every invariant and every action property of the passing runs is proved, for
every behaviour of its module.

## 6. Not modelled

- Reports (`reporting.rs`, `write_tags.rs`): layout of text. When a report is
  written, and where, is in `DiffAnalysis` and `HistoryMin`.
- The instruction crates: code generation and tables; the ranges of the
  immediates they draw are in `MemRange`.
- The data-sensitivity model: tables and text matching; `Guidance` takes any set
  of labels.
- The other command line modes and the measurement programs: sequential glue
  around modelled parts.
- Parts of modelled components: which instructions are drawn at random, the
  splice of a seed, the text matching that finds an instruction's context, the
  regular expressions of logs, vector registers, the bits of BOOM's instruction
  decoder beyond the class of an instruction, the external toolchain.
- That the guidance's methods exclude each other: they hold a mutex, and each is
  one step of `Guidance`. The model shows what any order of them does, and could
  not show a lock that is missing.
- The order among the differences of several groups (`runner.rs:182`): the run of
  `NeverGoesBack` has one group of two. `NeverGoesBackHolds` has any number.
- An analysis that never returns (a simulator without a timeout that hangs, see
  `ProcessRunner`) is excluded by the fairness assumption of the other modules.
- The localization probe is one global per process: what it measures when
  several workers classify is documented nowhere, so there is no property to
  state.

## 7. Plan

The order was: the analysis and its parts, the campaign, the processes, then
the way from a testcase to its outputs (launch, program, traces), then memory
and replay. All of these are modelled and checked; what is left:

1. An abstract specification of the campaign (a bag of runs) that `WorkerPool`
   implements, and of a launch (one verdict per core) that `Launch` implements.
2. The splice of a seed, and vector registers in the replay.
3. `diff-spike` as a sequence of campaigns (a pair counts as executed before it is
   known to run, `main.rs:957`); the localization probe.

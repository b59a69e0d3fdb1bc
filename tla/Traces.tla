------------------------------- MODULE Traces -------------------------------
(***************************************************************************)
(* From the log of a simulator to what each instruction of a testcase      *)
(* wrote (impls/*/execute.rs).  A processor executes a program of a few    *)
(* instructions and prints a log in the format of its simulator; the       *)
(* executor maps addresses to instructions (Tracer), reads the log line    *)
(* by line and merges the writes of the addresses of each instruction.     *)
(*                                                                         *)
(* The value an instruction writes is the number of the execution step, so *)
(* that a value says where it comes from, except that mepc and mcause read *)
(* as the address and the step of the last trap; byte i of a stored value  *)
(* v is <<v, i>>.                                                          *)
(***************************************************************************)
EXTENDS Tracer, FiniteSetsExt

CONSTANTS None,       \* no register, address, command or value
          Lanes,      \* bytes of a memory block (8 in the code)
          MaxPending, \* pending memory writes kept (4096 in the code)
          Configs     \* executions: simulator, program, order, disassembly

VARIABLES config,   \* one of Configs
          history,  \* executed steps: address and operation
          store,    \* BOOM: memory writes committed and not printed yet
          log,      \* lines printed
          pos,      \* lines read
          regs, mems, excs,  \* the trace: writes and exceptions with their address
          boom,     \* BOOM: pending writes and their context
          trap,     \* CSR values seen in a trap handler
          pc,       \* stage of the executor
          output    \* per instruction, what may come out of the merge

vars == <<tvars, config, history, store, log, pos, regs, mems, excs, boom,
          trap, pc, output>>
trace == <<regs, mems, excs>>

HandlerPc == 0

(***************************************************************************)
(* What simulators print (external, from the regular expressions of the    *)
(* parsers and their tests).                                               *)
(***************************************************************************)
NoLine == [k |-> "noise", pc |-> HandlerPc, reg |-> None, val |-> 0,
           addr |-> None, size |-> 0, mask |-> {}, data |-> <<>>,
           segments |-> {}, cause |-> 0, irq |-> FALSE, insn |-> None,
           csr |-> None, file |-> None]

RegLine(p, r, v) == [NoLine EXCEPT !.k = IF r = "f1" THEN "freg" ELSE "reg",
                                   !.pc = p, !.reg = r, !.val = v]
ExcLine(p, c, i) == [NoLine EXCEPT !.k = "exc", !.pc = p, !.cause = c, !.irq = i]

Aligned(a) == a - (a % Lanes)
Covered(op) == op.addr .. op.addr + 2^op.size - 1
\* bytes of value v from the lowest lane, and moved to the lane of an address
Low(v) == [i \in 0..Lanes - 1 |-> <<v, i>>]
Moved(v, a) == [i \in 0..Lanes - 1 |-> IF i < (a % Lanes) THEN <<v, Lanes>>
                                       ELSE <<v, i - (a % Lanes)>>]
LaneMask(op) == {(a % Lanes) : a \in Covered(op)}

\* The part of a line that shows a store, by simulator
StoreLine(l, op, v) ==
  CASE config.sim \in {"rocket", "boom", "srv32"} ->
         [l EXCEPT !.addr = op.addr, !.size = op.size, !.data = Low(v)]
    [] config.sim \in {"spike", "picorv32", "vex", "ibex"} ->
         [l EXCEPT !.addr = op.addr, !.size = 2^op.size, !.data = Low(v)]
    [] config.sim \in {"kronos", "xiangshan"} ->
         [l EXCEPT !.addr = Aligned(op.addr), !.mask = LaneMask(op),
                   !.data = Moved(v, op.addr)]
    [] config.sim = "cva6" ->
         [l EXCEPT !.addr = op.addr, !.mask = LaneMask(op),
                   !.data = Moved(v, op.addr),
                   !.segments = IF config.segments
                                THEN {<<a, <<v, a - op.addr>> >> : a \in Covered(op)}
                                ELSE {}]

\* One line for a whole instruction, or one for each effect
OneLine == {"spike", "cva6", "xiangshan", "ibex", "srv32"}

EffectLines(p, op, v) ==
  LET reg == IF op.reg = None THEN NoLine ELSE RegLine(p, op.reg, v)
      mem == [NoLine EXCEPT !.k = "store", !.pc = p]
  IN IF op.addr = None THEN IF op.reg = None THEN <<[NoLine EXCEPT !.pc = p]>> ELSE <<reg>>
     ELSE IF op.reg = None THEN <<StoreLine(mem, op, v)>>
     ELSE IF config.sim \in OneLine THEN <<StoreLine(reg, op, v)>>
     ELSE <<reg, StoreLine(mem, op, v)>>

\* Older logs of XiangShan also have a line of its own for a store
OwnLine(p) == [NoLine EXCEPT !.k = "store", !.pc = p, !.file = "mem"]
CommitLines(p, op, v) ==
  (IF config.style = "apart" /\ op.addr # None THEN <<StoreLine(OwnLine(p), op, v)>> ELSE <<>>)
  \o EffectLines(p, op, v)

\* The handler of every program begins with the two reads (impls/*/config.rs)
HandlerLines(p, c, i) ==
  << [RegLine(HandlerPc, "x5", p) EXCEPT !.csr = "mepc"],
     [RegLine(HandlerPc, "x6", c) EXCEPT !.csr = "mcause", !.irq = i] >>

TrapLines(p, op, v) ==
  (CASE config.sim = "srv32" \/ (config.sim = "boom" /\ ~config.explicit) -> << >>
     [] config.sim = "vex" -> <<[ExcLine(p, v, op.irq) EXCEPT !.file = config.file]>>
     [] OTHER -> <<ExcLine(p, v, op.irq)>>)
  \o HandlerLines(p, v, op.irq)

\* BOOM: the commit line has no store; the LSU prints it later.  The parser does not
\* read the value in a line that shows no register.
BoomLine(p, op, v, i) ==
  [(IF op.reg = None THEN NoLine ELSE RegLine(p, op.reg, v))
     EXCEPT !.k = IF op.reg = None THEN "insn" ELSE @, !.pc = p, !.val = v,
            !.irq = i, !.insn = op, !.csr = op.csr]

(***************************************************************************)
(* The processor.                                                          *)
(***************************************************************************)
Executed == Len(history)
Overlaps == config.style = "overlap" \/ store = <<>>
\* a store that was killed has a commit line, but makes no write and takes no trap
Writes(op) == op.addr # None /\ ~op.traps /\ ~op.killed
Printed == config.style = "printed"  \* BOOM shows stores as Rocket does

\* The value that step k of a history h writes to its register
Taken(h, k) == {j \in 1..k : h[j].op.traps \/ h[j].op.irq}
Value(h, k) ==
  IF h[k].op.csr = None THEN k
  ELSE IF Taken(h, k) = {} THEN 0
  ELSE IF h[k].op.csr = "mepc" THEN h[Max(Taken(h, k))].pc ELSE Max(Taken(h, k))
\* mcause has a bit that tells interrupts from exceptions
ReadsInterrupt(h, k) ==
  h[k].op.csr # None /\ Taken(h, k) # {} /\ h[Max(Taken(h, k))].op.irq

Execute ==
  /\ pc = "run" /\ Executed < Len(config.path)
  /\ LET p == config.path[Executed + 1]
         op == config.program[p]
         h == Append(history, [pc |-> p, op |-> op])
         k == Executed + 1
     IN /\ Overlaps \/ op.addr = None
        /\ history' = h
        /\ log' = log \o
             (IF op.irq THEN TrapLines(p, op, k) ELSE <<>>)
             \o (CASE config.sim = "boom" /\ Printed /\ Writes(op) ->
                          <<StoreLine([NoLine EXCEPT !.k = "store", !.pc = p], op, k)>>
                   [] config.sim = "boom" /\ ~(Printed /\ Writes(op)) ->
                          <<BoomLine(p, op, Value(h, k), ReadsInterrupt(h, k))>>
                   [] config.sim # "boom" /\ ~op.traps -> CommitLines(p, op, Value(h, k))
                   [] OTHER -> <<>>)
             \o (IF op.traps THEN TrapLines(p, op, k) ELSE <<>>)
        /\ store' = IF config.sim = "boom" /\ Writes(op) /\ ~Printed
                    THEN Append(store, [pc |-> p, op |-> op, val |-> k])
                    ELSE store
  /\ UNCHANGED <<tvars, config, pos, trace, boom, trap, pc, output>>

\* The LSU prints the oldest write, with its address in the patched simulator
PrintWrite ==
  /\ pc = "run" /\ store # <<>>
  /\ LET w == Head(store) IN
     log' = Append(log, [StoreLine([NoLine EXCEPT !.k = "mt"], w.op, w.val)
                           EXCEPT !.pc = IF config.patched THEN w.pc ELSE HandlerPc,
                                  !.insn = w.op])
  /\ store' = Tail(store)
  /\ UNCHANGED <<tvars, config, history, pos, trace, boom, trap, pc, output>>

\* Another module prints between the two lines of a memory write
PrintNoise ==
  /\ pc = "run" /\ store # <<>> /\ config.noise
  /\ log' = Append(log, NoLine)
  /\ Cardinality({i \in DOMAIN log : log[i].k = "noise"}) < 2
  /\ UNCHANGED <<tvars, config, history, store, pos, trace, boom, trap, pc, output>>

Exit ==
  /\ pc = "run" /\ Executed = Len(config.path) /\ store = <<>>
  /\ pc' = "read"
  /\ UNCHANGED <<tvars, config, history, store, log, pos, trace, boom, trap, output>>

(***************************************************************************)
(* The parsers.  Put is an insertion into a map with a key per address,    *)
(* Push appends to the list of an address; at is the line, or the cycle    *)
(* the line carries.                                                       *)
(***************************************************************************)
Line == log[pos + 1]
Write(key, data) == [pc |-> Line.pc, key |-> key, data |-> data, at |-> pos + 1]
Put(ws, w) == {o \in ws : <<o.pc, o.key>> # <<w.pc, w.key>>} \cup {w}
Push(ws, w) == ws \cup {w}
Raised(p, c, i) == [pc |-> p, key |-> None, data |-> <<c, i>>, at |-> pos + 1]

Reg == Line.reg # None
Mem == Line.addr # None
Sized(n) == [a \in Line.addr .. Line.addr + n - 1 |-> Line.data[a - Line.addr]]
Masked(base) == [a \in {base + i : i \in Line.mask} |-> Line.data[a - base]]

Reads(sim) == pc = "read" /\ pos < Len(log) /\ config.sim = sim
Others == UNCHANGED <<tvars, config, history, store, log, pc, output>>
Consumed == pos' = pos + 1 /\ Others
Plain == Consumed /\ UNCHANGED <<boom, trap>>

RocketRegister ==
  /\ Reads("rocket") /\ Line.k = "reg"
  /\ regs' = Put(regs, Write(Line.reg, Line.val))
  /\ UNCHANGED <<mems, excs>> /\ Plain

RocketFloat ==
  /\ Reads("rocket") /\ Line.k = "freg"
  /\ regs' = Put(regs, Write(Line.reg, Line.val))
  /\ UNCHANGED <<mems, excs>> /\ Plain

\* size is the logarithm of the width
RocketStore ==
  /\ Reads("rocket") /\ Line.k = "store"
  /\ mems' = Put(mems, Write(Line.addr, Sized(2^Line.size)))
  /\ UNCHANGED <<regs, excs>> /\ Plain

RocketException ==
  /\ Reads("rocket") /\ Line.k = "exc"
  /\ excs' = Put(excs, Raised(Line.pc, Line.cause, Line.irq))
  /\ UNCHANGED <<regs, mems>> /\ Plain

\* One line has all registers and stores of an instruction
SpikeCommit ==
  /\ Reads("spike") /\ Line.k \in {"reg", "freg", "store"}
  /\ regs' = IF Reg THEN Put(regs, Write(Line.reg, Line.val)) ELSE regs
  /\ mems' = IF Mem THEN Put(mems, Write(Line.addr, Sized(Line.size))) ELSE mems
  /\ UNCHANGED excs /\ Plain

SpikeException ==
  /\ Reads("spike") /\ Line.k = "exc"
  /\ excs' = Put(excs, Raised(Line.pc, Line.cause, Line.irq))
  /\ UNCHANGED <<regs, mems>> /\ Plain

\* Bytes with their addresses if the line lists them, else from the mask,
\* whose lowest bit stands for the address printed
Segments == [a \in {s[1] : s \in Line.segments} |->
               (CHOOSE s \in Line.segments : s[1] = a)[2]]
Cva6Bytes ==
  IF Line.segments # {} THEN Segments
  ELSE IF Line.mask = {} THEN << >> ELSE Masked(Line.addr - Min(Line.mask))

Cva6Register ==
  /\ Reads("cva6") /\ Reg /\ ~Mem
  /\ regs' = Put(regs, Write(Line.reg, Line.val))
  /\ UNCHANGED <<mems, excs>> /\ Plain

\* a line with both is one of an atomic instruction
Cva6Atomic ==
  /\ Reads("cva6") /\ Reg /\ Mem
  /\ regs' = Put(regs, Write(Line.reg, Line.val))
  /\ mems' = Put(mems, Write(Line.addr, Cva6Bytes))
  /\ UNCHANGED excs /\ Plain

Cva6Store ==
  /\ Reads("cva6") /\ Line.k = "store"
  /\ mems' = Put(mems, Write(Line.addr, Cva6Bytes))
  /\ UNCHANGED <<regs, excs>> /\ Plain

Cva6Exception ==
  /\ Reads("cva6") /\ Line.k = "exc"
  /\ excs' = Put(excs, Raised(Line.pc, Line.cause, FALSE))
  /\ UNCHANGED <<regs, mems>> /\ Plain

PicoLine ==
  /\ Reads("picorv32") /\ Line.k \in {"reg", "store", "exc"}
  /\ regs' = IF Reg THEN Put(regs, Write(Line.reg, Line.val)) ELSE regs
  /\ mems' = IF Mem THEN Put(mems, Write(Line.addr, Sized(Line.size))) ELSE mems
  /\ excs' = IF Line.k = "exc" THEN Put(excs, Raised(Line.pc, Line.cause, FALSE)) ELSE excs
  /\ Plain

\* The same write shown twice at an address is kept once
XsCommit ==
  /\ Reads("xiangshan") /\ Line.k \in {"reg", "freg", "store"} /\ Line.file # "mem"
  /\ regs' = IF Reg THEN Push(regs, Write(Line.reg, Line.val)) ELSE regs
  /\ LET bytes == Masked(Line.addr)
         known == \E w \in mems : w.pc = Line.pc /\ w.key = Line.addr /\ w.data = bytes
     IN mems' = IF Mem /\ ~known THEN Push(mems, Write(Line.addr, bytes)) ELSE mems
  /\ UNCHANGED excs /\ Plain

\* A line of its own for a store, whatever is known
XsMemory ==
  /\ Reads("xiangshan") /\ Line.k = "store" /\ Line.file = "mem"
  /\ mems' = Push(mems, Write(Line.addr, Masked(Line.addr)))
  /\ UNCHANGED <<regs, excs>> /\ Plain

XsException ==
  /\ Reads("xiangshan") /\ Line.k = "exc"
  /\ excs' = Put(excs, Raised(Line.pc, Line.cause, FALSE))
  /\ UNCHANGED <<regs, mems>> /\ Plain

\* The first of the three files that shows an exception is believed
VexFiles == <<"exc", "log", "dbg">>
Shown(f) == \E i \in DOMAIN log : log[i].k = "exc" /\ log[i].file = f
Believed(f) == \A i \in 1..3 : (\E j \in i+1..3 : VexFiles[j] = f) => ~Shown(VexFiles[i])

VexWrite ==
  /\ Reads("vex") /\ Line.k \in {"reg", "freg", "store"}
  /\ regs' = IF Reg THEN Push(regs, Write(Line.reg, Line.val)) ELSE regs
  /\ mems' = IF Mem THEN Push(mems, Write(Line.addr, Sized(Line.size))) ELSE mems
  /\ UNCHANGED excs /\ Plain

VexException ==
  /\ Reads("vex") /\ Line.k = "exc"
  /\ excs' = IF Believed(Line.file)
             THEN Put(excs, Raised(Line.pc, Line.cause, Line.irq /\ Line.file = "exc"))
             ELSE excs
  /\ UNCHANGED <<regs, mems>> /\ Plain

IbexLine ==
  /\ Reads("ibex") /\ Line.k \in {"reg", "store", "exc"}
  /\ regs' = IF Reg /\ Line.reg # "x0" THEN Push(regs, Write(Line.reg, Line.val)) ELSE regs
  /\ mems' = IF Mem THEN Push(mems, Write(Line.addr, Sized(Line.size))) ELSE mems
  /\ excs' = IF Line.k = "exc" THEN Put(excs, Raised(Line.pc, Line.cause, FALSE)) ELSE excs
  /\ Plain

KronosLine ==
  /\ Reads("kronos") /\ Line.k \in {"reg", "store", "exc"}
  /\ regs' = IF Line.k = "reg" THEN Push(regs, Write(Line.reg, Line.val)) ELSE regs
  /\ mems' = IF Line.k = "store" THEN Push(mems, Write(Line.addr, Masked(Line.addr))) ELSE mems
  /\ excs' = IF Line.k = "exc" THEN Put(excs, Raised(Line.pc, Line.cause, FALSE)) ELSE excs
  /\ Plain

(***************************************************************************)
(* Exceptions put together from reads of mepc and mcause.  srv32 prints no *)
(* others, and takes those of the trap handler, known by its addresses.    *)
(***************************************************************************)
NoTrap == [mepc |-> None, mcause |-> None]

KeepsCause(csr) ==  \* mutant: a cause read earlier stays when a new trap begins
  CASE csr = "mepc" -> [trap EXCEPT !.mepc = Line.val]
    [] csr = "mcause" -> [trap EXCEPT !.mcause = Line.val]
    [] OTHER -> trap
Noticed(csr) ==
  CASE csr = "mepc" -> [mepc |-> Line.val, mcause |-> None]
    [] csr = "mcause" -> [trap EXCEPT !.mcause = Line.val]
    [] OTHER -> trap

HandlerReads ==
  CASE Line.pc = HandlerPc /\ Line.reg = "x5" -> "mepc"
    [] Line.pc = HandlerPc /\ Line.reg = "x6" -> "mcause"
    [] OTHER -> None

Srv32Line ==
  /\ Reads("srv32") /\ Line.k \in {"reg", "freg", "store"}
  /\ mems' = IF Mem THEN Push(mems, Write(Line.addr, Sized(2^Line.size))) ELSE mems
  /\ regs' = IF Reg THEN Push(regs, Write(Line.reg, Line.val)) ELSE regs
  /\ LET seen == Noticed(HandlerReads)
         known == seen.mepc # None /\ seen.mcause # None /\ Reg /\ Line.pc = HandlerPc
     IN /\ excs' = IF known THEN Put(excs, Raised(seen.mepc, seen.mcause, Line.irq)) ELSE excs
        /\ trap' = IF known THEN NoTrap ELSE seen
  /\ UNCHANGED boom /\ Consumed

(***************************************************************************)
(* BOOM.  A memory write is printed apart from its instruction, which is   *)
(* found through the instructions waiting for a write.  An entry is the    *)
(* address, command and size of one.                                       *)
(***************************************************************************)
NoBoom == [pending |-> <<>>, last |-> None, lastAt |-> 0, current |-> None]

\* decode_pending_mem_write: the command and size an encoding waits for.  The
\* compressed encodings are told apart by quadrant and funct3 only.
Decoded(op) ==
  CASE op.insn \in {"sb", "sh", "sw"} -> <<"write", op.size>>
    [] op.insn = "c.sw" -> <<"write", op.size>>
    [] op.insn = "c.mv" -> <<"write", 2>>
    [] op.insn = "sc.w" -> <<"sc", op.size>>
    [] op.insn = "amoadd.w" -> <<"add", op.size>>
    [] OTHER -> None
Entry(p, op) == [pc |-> p, cmd |-> Decoded(op)[1], size |-> Decoded(op)[2]]
Matching(q, op) == {i \in DOMAIN q : q[i].cmd = op.cmd /\ q[i].size = op.size}
Without(q, i) == SubSeq(q, 1, i - 1) \o SubSeq(q, i + 1, Len(q))

Unbounded(b, p, op) ==  \* mutant: the queue grows without limit
  IF Decoded(op) = None THEN [b EXCEPT !.current = p]
  ELSE [pending |-> Append(b.pending, Entry(p, op)), last |-> Entry(p, op),
        lastAt |-> pos + 1, current |-> p]
\* enqueue_pending_mem_write_from_instr and the two notes beside it
Committed(b, p, op) ==
  LET q == Append(b.pending, Entry(p, op)) IN
  IF Decoded(op) = None THEN [b EXCEPT !.current = p]
  ELSE [pending |-> IF Len(q) > MaxPending THEN Tail(q) ELSE q,
        last |-> Entry(p, op), lastAt |-> pos + 1, current |-> p]

NoDropAt(q, p) == q  \* mutant: a trapped store keeps waiting
DropAt(q, p) ==
  LET kept[i \in 0..Len(q)] ==
        IF i = 0 THEN <<>> ELSE IF q[i].pc = p THEN kept[i - 1] ELSE Append(kept[i - 1], q[i])
  IN kept[Len(q)]

BoomInstruction ==
  /\ Reads("boom") /\ Line.k = "insn"
  /\ boom' = Committed(boom, Line.pc, Line.insn)
  /\ UNCHANGED <<trace, trap>> /\ Consumed

\* Reads of mepc and mcause, by whatever instruction, make an exception
BoomRegister ==
  /\ Reads("boom") /\ Line.k = "reg"
  /\ LET seen == Noticed(Line.csr)
         known == Line.csr # None /\ seen.mepc # None /\ seen.mcause # None
         b == IF known THEN [boom EXCEPT !.pending = DropAt(@, seen.mepc)] ELSE boom
     IN /\ excs' = IF known THEN Put(excs, Raised(seen.mepc, seen.mcause, Line.irq)) ELSE excs
        /\ trap' = IF known THEN NoTrap ELSE seen
        /\ boom' = IF Line.insn = None THEN [b EXCEPT !.current = Line.pc]
                   ELSE Committed(b, Line.pc, Line.insn)
  /\ regs' = Put(regs, Write(Line.reg, Line.val))
  /\ UNCHANGED mems /\ Consumed

BoomFloat ==
  /\ Reads("boom") /\ Line.k = "freg"
  /\ boom' = Committed(boom, Line.pc, Line.insn)
  /\ regs' = Put(regs, Write(Line.reg, Line.val))
  /\ UNCHANGED <<mems, excs, trap>> /\ Consumed

BoomStore ==
  /\ Reads("boom") /\ Line.k = "store"
  /\ mems' = Put(mems, Write(Line.addr, Sized(2^Line.size)))
  /\ boom' = [boom EXCEPT !.current = Line.pc]
  /\ UNCHANGED <<regs, excs, trap>> /\ Consumed

BoomException ==
  /\ Reads("boom") /\ Line.k = "exc"
  /\ excs' = Put(excs, Raised(Line.pc, Line.cause, Line.irq))
  /\ boom' = [boom EXCEPT !.pending = DropAt(@, Line.pc), !.current = Line.pc]
  /\ UNCHANGED <<regs, mems, trap>> /\ Consumed

\* A matching entry made within the last two lines and still waiting
Recent(op) ==
  IF boom.last = None \/ pos + 1 - boom.lastAt > 2 THEN {}
  ELSE {i \in Matching(boom.pending, op) : boom.pending[i] = boom.last}

\* Where a write without an address goes, and the entry it uses up (or 0)
Waiting(op) ==
  IF Recent(op) # {} THEN Min(Recent(op))
  ELSE IF Matching(boom.pending, op) # {} THEN Min(Matching(boom.pending, op))
  ELSE 0

\* With no address at all the parser gives up (MissingPcForMemoryTrace)
BoomWrite ==
  /\ Reads("boom") /\ Line.k = "mt"
  /\ LET named == Line.pc # HandlerPc
         i == IF named THEN 0 ELSE Waiting(Line.insn)
         p == IF named THEN Line.pc
              ELSE IF i # 0 THEN boom.pending[i].pc ELSE boom.current
     IN /\ boom' = IF i = 0 THEN boom ELSE [boom EXCEPT !.pending = Without(@, i)]
        /\ mems' = IF p = None \/ Line.insn.fails THEN mems
                   ELSE Put(mems, [Write(Line.addr, Sized(2^Line.size)) EXCEPT !.pc = p])
        /\ pc' = IF p = None THEN "failed" ELSE pc
  /\ pos' = pos + 1
  /\ UNCHANGED <<tvars, config, history, store, log, regs, excs, trap, output>>

Ignore ==
  /\ pc = "read" /\ pos < Len(log) /\ Line.k = "noise"
  /\ UNCHANGED trace /\ Plain

ReadLine ==
  \/ RocketRegister \/ RocketFloat \/ RocketStore \/ RocketException
  \/ SpikeCommit \/ SpikeException
  \/ Cva6Register \/ Cva6Atomic \/ Cva6Store \/ Cva6Exception
  \/ PicoLine \/ XsCommit \/ XsMemory \/ XsException \/ VexWrite \/ VexException
  \/ IbexLine \/ KronosLine \/ Srv32Line
  \/ BoomInstruction \/ BoomRegister \/ BoomFloat \/ BoomStore \/ BoomException \/ BoomWrite
  \/ Ignore

(***************************************************************************)
(* The merge of the addresses of an instruction.  Six executors prefer the *)
(* highest address, four the latest cycle.  What comes out of an unordered *)
(* map is the set of all that may.                                         *)
(***************************************************************************)
Highest(ws) == {w \in ws : \A o \in ws : o.pc <= w.pc}
First(ws) == {w \in ws : \A o \in ws : w.at <= o.at}
Latest(ws) == {w \in ws : \A o \in ws : o.at <= w.at}

LowestMerge(ws) ==  \* mutant: the comparison of addresses reversed
  {w \in ws : \A o \in ws : w.pc <= o.pc}
RocketMerge(ws) == Highest(ws)
BoomMerge(ws) == Highest(ws)
SpikeMerge(ws) == Highest(ws)
Cva6Merge(ws) == Highest(ws)
PicoMerge(ws) == Highest(ws)
\* a list, of which an equal address does not replace the first
XsMerge(ws) == First(Highest(ws))
VexMerge(ws) == Latest(ws)
IbexMerge(ws) == Latest(ws)
KronosMerge(ws) == Latest(ws)
Srv32Merge(ws) == Latest(ws)

Merge(ws) ==
  CASE config.sim = "rocket" -> RocketMerge(ws) [] config.sim = "boom" -> BoomMerge(ws)
    [] config.sim = "spike" -> SpikeMerge(ws)   [] config.sim = "cva6" -> Cva6Merge(ws)
    [] config.sim = "picorv32" -> PicoMerge(ws) [] config.sim = "xiangshan" -> XsMerge(ws)
    [] config.sim = "vex" -> VexMerge(ws)       [] config.sim = "ibex" -> IbexMerge(ws)
    [] config.sim = "kronos" -> KronosMerge(ws) [] config.sim = "srv32" -> Srv32Merge(ws)

\* Interrupts are no exceptions of the instruction they arrive at.  Spike shows them by
\* name; in the causes of Rocket and BOOM only bit 63 is looked at, which RV32 has not.
Synchronous ==
  IF config.sim = "spike" \/ config.base = 64 THEN {x \in excs : ~x.data[2]} ELSE excs

Registers == {"x1", "f1"}
Memory == 0..2 * Lanes - 1
At(ws, i) == {w \in ws : w.pc \in PcsOf(i)}

OutputOf(i) ==
  [regs |-> [r \in Registers |->
      {w.data : w \in Merge({o \in At(regs, i) : o.key = r})}],
   mem |-> [a \in Memory |->
      {w.data[a] : w \in Merge({o \in At(mems, i) : a \in DOMAIN o.data})}],
   exc |-> {w.data[1] : w \in Merge(At(IF config.sim \in {"rocket", "boom", "spike"}
                                       THEN Synchronous ELSE excs, i))}]

\* Executors that take an empty trace for a failure
RejectsEmpty == {"rocket", "boom", "picorv32", "xiangshan"}

EndOfLog ==
  /\ pc = "read" /\ pos = Len(log)
  /\ pc' = IF regs = {} /\ mems = {} /\ excs = {} /\ config.sim \in RejectsEmpty
           THEN "failed" ELSE "map"
  /\ UNCHANGED <<tvars, config, history, store, log, pos, trace, boom, trap, output>>

MapLine ==
  /\ pc = "map" /\ TraceDump
  /\ UNCHANGED <<config, history, store, log, pos, trace, boom, trap, pc, output>>

MapFails ==
  /\ pc = "map" /\ dump = <<>> /\ (MissingSource \/ Unmapped)
  /\ pc' = "failed"
  /\ UNCHANGED <<tvars, config, history, store, log, pos, trace, boom, trap, output>>

Build ==
  /\ pc = "map" /\ dump = <<>> /\ ~MissingSource /\ ~Unmapped
  /\ output' = [i \in DOMAIN texts |-> OutputOf(i)]
  /\ pc' = "done"
  /\ UNCHANGED <<tvars, config, history, store, log, pos, trace, boom, trap>>

(***************************************************************************)
(* The executions considered.                                              *)
(***************************************************************************)
Simulators == {"boom", "rocket", "spike", "cva6", "picorv32", "xiangshan", "vex",
                         "ibex", "kronos", "srv32"}
TellsInterrupts == {"rocket", "spike", "boom"}  \* from exceptions

Operations ==
  [insn : STRING, reg : Registers \cup {None}, addr : Memory \cup {None}, size : 0..3,
   cmd : {"write", "sc", "add", None}, traps : BOOLEAN, irq : BOOLEAN, fails : BOOLEAN,
   killed : BOOLEAN, csr : {"mepc", "mcause", None}]

\* Accesses have a command and are aligned, a CSR is read into an integer register, and
\* an instruction that traps writes no register and is not interrupted before
Proper(op) ==
  /\ op.addr # None => op.cmd # None
  /\ op.addr # None => \A a \in Covered(op) : a \in Memory /\ Aligned(a) = Aligned(op.addr)
  /\ op.csr # None => op.reg = "x1" /\ op.addr = None
  /\ op.traps => op.reg = None /\ ~op.irq
  /\ op.killed => op.addr # None /\ op.reg = None /\ ~op.traps

Runnable(c) ==
  /\ c.sim \in Simulators /\ c.base \in {32, 64} /\ (c.sim = "boom" => c.base = 64)
  /\ c.style = "apart" => c.sim = "xiangshan"
  /\ c.path \in Seq(DOMAIN c.program) /\ DOMAIN c.program \subseteq Nat \ {HandlerPc}
  /\ \A p \in DOMAIN c.program : LET op == c.program[p] IN
       /\ op \in Operations /\ Proper(op)
       /\ op.irq => c.sim \in TellsInterrupts
       /\ op.fails => c.sim = "boom" /\ op.addr # None
       /\ op.killed => c.sim = "boom"
       /\ c.sim = "boom" /\ c.style = "printed" /\ op.addr # None => op.reg = None /\ ~op.fails

\* The source line of instruction i is line at[i] of the disassembly, and its
\* addresses, not those of the handler, follow up to the next label or instruction
Follows(c, at, j, i) ==
  at[i] < j /\ \A m \in at[i] + 1 .. j - 1 :
                 c.dump[m].k # "label" /\ \A o \in DOMAIN at : at[o] # m
Disassembled(c, at) ==
  /\ \A i \in DOMAIN at : c.dump[at[i]] = Source(c.texts[i]) /\ \A o \in DOMAIN at : i < o => at[i] < at[o]
  /\ \A j \in DOMAIN c.dump, i \in DOMAIN at : c.dump[j] = Source(c.texts[i]) => \E o \in DOMAIN at : at[o] = j
  /\ \A j, m \in DOMAIN c.dump :
       c.dump[j].k = "pc" /\ c.dump[m].k = "pc" /\ c.dump[j].pc = c.dump[m].pc => j = m
  /\ c.expansion = [i \in DOMAIN at |->
                     {c.dump[j].pc : j \in {m \in DOMAIN c.dump : c.dump[m].k = "pc" /\ Follows(c, at, m, i)}}]
  /\ \A i \in DOMAIN at : HandlerPc \notin c.expansion[i]
Incomplete(c) == \E i \in DOMAIN c.texts : \A j \in DOMAIN c.dump : c.dump[j] # Source(c.texts[i])

DumpLines == [k : {"src"}, text : STRING] \cup [k : {"pc"}, pc : Nat] \cup [k : {"label", "blank"}]
Listed(c) ==
  /\ c.dump \in Seq(DumpLines) /\ c.texts \in Seq(STRING)
  /\ \/ \E at \in [DOMAIN c.texts -> DOMAIN c.dump] : Disassembled(c, at)
     \/ Incomplete(c)

ASSUME LanesAssumption == Lanes \in Nat \ {0} /\ MaxPending \in Nat \ {0}
ASSUME NoneAssumption ==
  None \notin Nat \cup {"x0", "x1", "f1", "x5", "x6", "mepc", "mcause"} \cup Operations
                \cup ({"write", "sc", "add"} \X (0..3))
                \cup [pc : Nat, cmd : {"write", "sc", "add"}, size : 0..3]
ASSUME ConfigsAssumption == \A c \in Configs : Runnable(c) /\ Listed(c)

Init ==
  /\ config \in Configs
  /\ dump = config.dump /\ texts = config.texts
  /\ active = NoInst /\ found = {} /\ pcOf = {}
  /\ history = <<>> /\ store = <<>> /\ log = <<>> /\ pos = 0
  /\ regs = {} /\ mems = {} /\ excs = {}
  /\ boom = NoBoom /\ trap = NoTrap
  /\ pc = "run" /\ output = <<>>

Next ==
  \/ Execute \/ PrintWrite \/ PrintNoise \/ Exit
  \/ ReadLine \/ EndOfLog
  \/ MapLine \/ MapFails \/ Build

Spec == Init /\ [][Next]_vars

-----------------------------------------------------------------------------
(***************************************************************************)
(* Properties.                                                             *)
(***************************************************************************)
\* Types: queues within their limits, written addresses and known stages.
TypeOK ==
  /\ pc \in {"run", "read", "map", "done", "failed"}
  /\ pos \in 0..Len(log) /\ Executed <= Len(config.path)
  /\ \A w \in regs : w.key \in Registers \cup {"x5", "x6"} /\ w.at <= pos
  /\ \A w \in mems : DOMAIN w.data \subseteq Memory
  /\ Len(boom.pending) <= MaxPending
  /\ found \subseteq DOMAIN texts

\* What really happened to an instruction: the last effect of each kind in the
\* order of execution, by the addresses the program gives it.
Steps(i) == {k \in 1..Executed : history[k].pc \in config.expansion[i]}
LastOf(S) == IF S = {} THEN {} ELSE {Max(S)}
TrueReg(i, r) ==
  {Value(history, k) :
     k \in LastOf({j \in Steps(i) : history[j].op.reg = r /\ ~history[j].op.traps})}
Stores(i, a) == {k \in Steps(i) : /\ Writes(history[k].op) /\ ~history[k].op.fails
                                  /\ a \in Covered(history[k].op)}
TrueMem(i, a) == {<<k, a - history[k].op.addr>> : k \in LastOf(Stores(i, a))}
\* what Rocket's executor takes for an exception of the instruction on RV32
Excepts(op) == op.traps \/ (op.irq /\ config.sim = "rocket" /\ config.base = 32)
TrueExc(i) == LastOf({k \in Steps(i) : Excepts(history[k].op)})

(***************************************************************************)
(* What a log of BOOM leaves to be found out about a memory write that is  *)
(* printed without an address.                                             *)
(***************************************************************************)
\* Line n commits an access to memory, of the step in val
Commits(n) == log[n].k # "mt" /\ log[n].insn # None /\ log[n].insn.addr # None
\* The step whose write line n shows
Writer(n) == log[n].data[0][1]
\* Addresses that line n reports a trap of: an exception, or mcause read after mepc
Reported(n) ==
  IF log[n].k = "exc" THEN {log[n].pc}
  ELSE IF log[n].csr # "mcause" THEN {}
  ELSE {log[m].val : m \in {o \in 1..n - 1 : /\ log[o].csr = "mepc"
                                             /\ \A j \in o + 1..n - 1 : log[j].csr = None}}
\* Line n settles the access of a step: its write, or a trap at its address
Settles(n, k) ==
  \/ log[n].k = "mt" /\ Writer(n) = k
  \/ history[k].pc \in Reported(n)
\* Steps that committed an access before line n which nothing has settled, and those of
\* them that were never pushed out by as many later ones as the queue has room for
Unsettled(n) ==
  {log[m].val : m \in {o \in 1..n - 1 : /\ Commits(o)
                                        /\ \A j \in o + 1..n - 1 : ~Settles(j, log[o].val)}}
Awaited(n) ==
  {k \in Unsettled(n) : \A m \in 1..n : Cardinality({j \in Unsettled(m) : j > k}) < MaxPending}
Alike(n) ==
  {k \in Awaited(n) : history[k].op.cmd = log[n].insn.cmd /\ history[k].op.size = log[n].insn.size}
\* of the instruction that committed an access last, at most two lines before
Fresh(n) ==
  {k \in Alike(n) : \E m \in 1..n - 1 : /\ n - m <= 2 /\ Commits(m) /\ log[m].pc = history[k].pc
                                        /\ \A o \in m + 1..n - 1 : ~Commits(o)}

\* Line n is one that the parser's rules are made for: an access that is decoded as what
\* it is; no access decoded as one; a write that was made by the access committed just
\* before, or else by the oldest of its kind that is awaited.
Clear(n) ==
  IF log[n].k = "mt"
  THEN /\ Writer(n) \in Alike(n)
       /\ IF Fresh(n) # {} THEN Fresh(n) = {Writer(n)} ELSE \A k \in Alike(n) : Writer(n) <= k
  ELSE IF Commits(n)
  THEN Decoded(log[n].insn) = <<log[n].insn.cmd, log[n].insn.size>>
  ELSE log[n].insn # None => Decoded(log[n].insn) = None

\* The writer of line n can be told: it is named, or all was clear so far
Attributable(n) == log[n].pc # HandlerPc \/ \A m \in 1..n : Clear(m)

Agrees(i) == /\ \A r \in Registers : output[i].regs[r] = TrueReg(i, r)
             /\ \/ \A a \in Memory : output[i].mem[a] = TrueMem(i, a)
                \/ \E n \in DOMAIN log : log[n].k = "mt" /\ ~Attributable(n)
             /\ output[i].exc = TrueExc(i)

Ascending == \A k \in 1..Executed - 1 : history[k].pc < history[k + 1].pc

\* The formats, parsers and merges of the ten simulators come to the same
\* answer, and it is what the instruction did: of the writes of its addresses the
\* last, every byte of a store at its place, and its own exception.  Otherwise a
\* difference between simulators would only be one between their parsers
\* (parse_* and build_execution_output of impls/*/execute.rs).  Executions go
\* upwards, as those of testcases without jumps do; for the memory, BOOM's writes are
\* such that their writers can be told.
ShowsExecution == pc = "done" /\ Ascending => \A i \in DOMAIN texts : Agrees(i)

ByCycle == {"vex", "ibex", "kronos", "srv32"}

\* The executors that merge by cycle do not need that order: an instruction
\* executed again shows its last execution (ibex/execute.rs:315 and its likes).
LatestExecution ==
  pc = "done" /\ config.sim \in ByCycle => \A i \in DOMAIN texts : Agrees(i)

\* Both, for the executions they are about.
Shows == ShowsExecution /\ LatestExecution

\* w was made by the instruction whose address it has
MadeThere(w) ==
  /\ \A a \in DOMAIN w.data : history[w.data[a][1]].pc = w.pc
  /\ \E k \in DOMAIN history : history[k].pc = w.pc /\ Writes(history[k].op)

\* BOOM: a memory write is put to the address of the instruction that made it, past
\* lines of other modules, as the parser means to (boom/execute.rs:433 and the tests
\* at :1023 and :1042).
AttributedRight == config.sim = "boom" => \A w \in mems : MadeThere(w)

\* BOOM: it is put there whenever the writer can be told, whatever number of accesses
\* wait, stale entries of stores that were killed among them, also after the queue was
\* full and forgot the oldest (boom/execute.rs:454, 496, 1150).
ToldRight == config.sim = "boom" => \A w \in mems : MadeThere(w) \/ ~Attributable(w.at)

\* BOOM: when all is read and was clear, only stores that were killed are still waited
\* for: the entries of writes that came and of stores that trapped are gone, and take no
\* later write (drop_pending_mem_writes_at_pc).
NothingWaits ==
  config.sim = "boom" /\ ~config.patched /\ pc \in {"map", "done"} =>
    \/ \A i \in DOMAIN boom.pending :
         \E k \in DOMAIN history : history[k].op.killed /\ history[k].pc = boom.pending[i].pc
    \/ \E n \in DOMAIN log : ~Clear(n)

\* Both: the queue is kept in step with the log.
WritesAttributed == ToldRight /\ NothingWaits

\* No exception is made up from CSR values that belong to different traps: each
\* exception read off is one that was taken, with its own cause, at the address
\* where it was taken (boom/execute.rs:445, srv32/execute.rs:549), also when the
\* testcase reads these CSRs itself. Before the first trap they read as 0, which is
\* the address of no instruction.
PairedRight ==
  \A x \in excs : x.pc # HandlerPc => \E k \in DOMAIN history :
     /\ history[k].op.traps \/ history[k].op.irq
     /\ history[k].pc = x.pc /\ x.data = <<k, history[k].op.irq>>

\* The reading of the disassembly gives each instruction exactly the addresses it
\* was expanded to, also when texts repeat (tracer.rs:42).
MappedRight == pc = "done" => \A i \in DOMAIN texts : PcsOf(i) = config.expansion[i]
=============================================================================

------------------------------ MODULE MCTraces ------------------------------
(* Programs of two instructions; the first is expanded to two addresses. *)
EXTENDS Traces

Op(insn, reg, addr, size) ==
  [insn |-> insn, reg |-> reg, addr |-> addr, size |-> size, cmd |-> None,
   traps |-> FALSE, irq |-> FALSE, fails |-> FALSE,
   killed |-> FALSE, csr |-> None]
Nop == Op("nop", None, None, 0)
X == Op("add", "x1", None, 0)
F == Op("fadd", "f1", None, 0)
Byte == [Op("sb", None, 1, 0) EXCEPT !.cmd = "write"]
Half == [Op("sh", None, 0, 1) EXCEPT !.cmd = "write"]
HighByte == [Op("sb", None, 5, 0) EXCEPT !.cmd = "write"]
Amo == [Op("amoadd.w", "x1", 2, 1) EXCEPT !.cmd = "add"]
Trap == [Nop EXCEPT !.traps = TRUE]
Irq == [X EXCEPT !.irq = TRUE]
BadStore == [Half EXCEPT !.traps = TRUE]
IrqStore == [Half EXCEPT !.irq = TRUE]
Killed == [Half EXCEPT !.killed = TRUE]
FailedSc == [Op("sc.w", "x1", 0, 1) EXCEPT !.cmd = "sc", !.fails = TRUE]
Move == Op("c.mv", "x1", None, 2)
Word == [Op("sw", None, 0, 2) EXCEPT !.cmd = "write"]
Read(c) == [X EXCEPT !.csr = c]

Disassembly(a, b) ==
  << Label, Source("la t0"), Address(8), Label, Source(a), Address(1), Address(2),
     Blank, Source(b), Address(3), Label, Source("li t0"), Address(9) >>
OneTwo == <<{1, 2}, {3}>>

Config(s, p, w) ==
  [sim |-> s, program |-> p, path |-> w, texts |-> <<"a", "b">>,
   dump |-> Disassembly("a", "b"), expansion |-> OneTwo,
   segments |-> FALSE, file |-> "exc", explicit |-> TRUE, patched |-> FALSE,
   style |-> "alone", noise |-> FALSE, base |-> 64]

Programs(ops) == [1..3 -> ops]
Straight == <<1, 2, 3>>
Simple == {"rocket", "spike", "cva6", "picorv32", "xiangshan", "vex", "ibex",
           "kronos", "srv32"}
Small == {X, Half, Trap}

Floats == {"rocket", "spike", "cva6", "xiangshan", "vex"}
StraightConfigs ==
  {Config(s, p, Straight) : s \in Floats,
                            p \in Programs({X, F, Byte, Half, Amo, Trap})}
  \cup {Config(s, p, Straight) : s \in Simple \ Floats,
                                 p \in Programs({X, Byte, Half, Amo, Trap})}
LoopConfigs ==
  {Config(s, p, w) : s \in Simple, p \in Programs({X, Half, Byte, Trap}),
                     w \in {<<1, 2, 1, 3>>, <<2, 1, 3, 3>>}}
VariantConfigs ==
  {[Config("cva6", p, Straight) EXCEPT !.segments = TRUE] :
     p \in Programs({X, Byte, HighByte, Amo, Nop})}
  \cup {[Config("vex", p, Straight) EXCEPT !.file = f] :
     p \in Programs(Small), f \in {"log", "dbg"}}
  \cup {Config(s, p, Straight) : s \in {"rocket", "spike"},
                                 p \in Programs({Irq, Trap, HighByte})}
  \cup {Config(s, p, Straight) : s \in {"xiangshan", "kronos", "cva6"},
                                 p \in Programs({X, HighByte})}
  \cup {[Config(s, p, Straight) EXCEPT !.texts = <<"a", "a">>,
                                       !.dump = Disassembly("a", "a")] :
     s \in {"rocket", "ibex"}, p \in Programs(Small)}
  \cup {[Config(s, p, Straight) EXCEPT !.dump = Disassembly("a", "other")] :
     s \in {"rocket", "ibex"}, p \in Programs({X})}
  \cup {[Config("xiangshan", p, <<1, 2, 1, 3>>) EXCEPT !.style = "apart"] :
     p \in Programs({X, Byte, Half, Amo})}
  \cup {[Config(s, p, Straight) EXCEPT !.base = 32] :
     s \in {"rocket", "spike"}, p \in Programs({Irq, IrqStore, Trap, F})}

BoomConfigs ==
  {[Config("boom", p, Straight) EXCEPT !.explicit = e, !.noise = n] :
     p \in Programs({X, Half, Byte, Amo, BadStore, FailedSc, Irq}),
     e \in BOOLEAN, n \in BOOLEAN}
  \cup {[Config("boom", p, w) EXCEPT !.patched = TRUE, !.style = "overlap"] :
     p \in Programs({X, Half, Byte, Amo, BadStore, FailedSc, Move}),
     w \in {Straight, <<1, 2, 1, 3>>}}
  \cup {[Config("boom", p, Straight) EXCEPT !.style = "printed"] :
     p \in Programs({X, F, Half, Byte, BadStore})}
  \cup {[Config("boom", p, w) EXCEPT !.explicit = e] :
     p \in Programs({Irq, Trap, BadStore, Read("mepc"), Read("mcause")}), e \in BOOLEAN,
     w \in {Straight, <<1, 2, 1, 3>>}}
  \cup {[Config("boom", p, w) EXCEPT !.explicit = e] :
     p \in Programs({IrqStore, Byte, Irq}), e \in BOOLEAN, w \in {Straight, <<1, 2, 1, 3>>}}

\* several accesses wait, some of them for a write that never comes
OverlapConfigs ==
  {[Config("boom", p, w) EXCEPT !.style = "overlap", !.noise = n, !.explicit = e] :
     p \in Programs({X, Half, Byte, BadStore, Killed}), w \in {Straight, <<1, 2, 1, 3>>},
     n \in BOOLEAN, e \in BOOLEAN}
  \cup {[Config("boom", p, <<1, 2, 1, 2, 3>>) EXCEPT !.style = "overlap"] :
     p \in Programs({Half, Byte, Amo, FailedSc, Killed})}

AllConfigs ==
  StraightConfigs \cup LoopConfigs \cup VariantConfigs \cup BoomConfigs \cup OverlapConfigs

\* compressed moves among the instructions
MoveConfigs ==
  {[Config("boom", p, Straight) EXCEPT !.noise = TRUE] : p \in Programs({X, Word, Move})}
=============================================================================

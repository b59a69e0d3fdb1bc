----------------------------- MODULE MCProgram -----------------------------
(* Testcases of up to three instructions of all kinds, on all cores.       *)
EXTENDS Program
CONSTANT MaxLength

Of(does, size, tail) == [does |-> does, size |-> size, tail |-> tail]
Shapes(c) == {<<2, FALSE>>, <<2, TRUE>>} \cup (IF c \in Compressed THEN {<<1, FALSE>>} ELSE {})

(* Only programs that can enter supervisor mode are asked to.              *)
Choices(c) ==
  {Of(k, s[1], s[2]) : k \in {"runs", "illegal", "faults"}, s \in Shapes(c)}
    \cup {Of("ecall", 2, FALSE)}
    \cup (IF "floats" \in Programs[c] THEN {Of("floats", 2, FALSE)} ELSE {})
    \cup (IF "switches" \in Programs[c] THEN {Of("enters", 2, FALSE)} ELSE {})

MCTestcases ==
  UNION { [core : {c}, code : UNION {[1 .. n -> Choices(c)] : n \in 0 .. MaxLength}] : c \in Cores }
=============================================================================

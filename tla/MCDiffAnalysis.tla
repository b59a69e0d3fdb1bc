--------------------------- MODULE MCDiffAnalysis ---------------------------
(* Instances of DiffAnalysis for TLC. *)
EXTENDS DiffAnalysis

CONSTANTS c1, c2, w0, w1

MCCauses == {c1, c2}
MCWrites == {w0, w1}

ok(w)  == [causes |-> {}, writes |-> w]
exc(c) == [causes |-> {c}, writes |-> w0]

AllModes  == [i \in Impls |-> BOOLEAN]
AllFalse  == [i \in Impls |-> FALSE]

(* Two compared implementations: agreement, differing writes, an exception *)
(* on one of them only, and differing causes.                              *)
PairRows == { <<ok(w0), ok(w0)>>, <<ok(w0), ok(w1)>>, <<ok(w0), exc(c1)>>,
              <<exc(c1), exc(c2)>> }

NonEmpty == SUBSET Insts \ {{}}

(* Every behaviour that depends on the preceding instructions.             *)
PairCpus ==
  { [init |-> <<w0, w0>>,
     test |-> [s \in SUBSET Insts |-> IF s = {} THEN <<ok(w0), ok(w0)>> ELSE t[s]]]
    : t \in [NonEmpty -> PairRows] }

Options(requirements, limits, cleans) ==
  [requirement : requirements, limit : limits, cleanIter : cleans, cleanRun : cleans]

RepeatConfigs == Options({{FALSE}}, {{}}, {TRUE})

(* Spike, Rocket and XiangShan (1, 2, 3), as their config.rs files say:    *)
(* all may run with unaligned accesses off, XiangShan has them on by       *)
(* default and is then compared with nobody.                               *)
CoreModes    == <<{FALSE, TRUE}, {FALSE}, {TRUE, FALSE}>>
CoreDefaults == <<FALSE, FALSE, TRUE>>
CoreRows == { <<ok(w0), ok(w0), ok(w0)>>, <<ok(w0), ok(w1), ok(w0)>>,
              <<ok(w0), ok(w0), ok(w1)>>, <<ok(w0), exc(c1), ok(w0)>>,
              <<exc(c1), exc(c1), exc(c2)>>, <<exc(c1), exc(c1), ok(w1)>> }
CoreInits == {<<w0, w0, w0>>, <<w0, w0, w1>>}
CoreCpus  == { [init |-> <<w0, w0, w0>>, test |-> [s \in SUBSET Insts |-> <<ok(w0), ok(w0), ok(w0)>>]] }
FlakyConfigs == Options({{}, {FALSE}}, {{}}, {TRUE})
                  \cup Options({{FALSE}}, {{}, {0}, {1}, {2}}, BOOLEAN)
=============================================================================

------------------------------- MODULE Tracer -------------------------------
(***************************************************************************)
(* Which program counters belong to which instruction of a testcase        *)
(* (tracer.rs): the disassembly intermixed with source lines is read line  *)
(* by line.  A line is a record: a source line with its text, an address,  *)
(* a label or directive, or one without content.                           *)
(***************************************************************************)
EXTENDS Naturals, Sequences, FiniteSets

VARIABLES dump,     \* lines of the disassembly not read yet
          texts,    \* texts of the user instructions, in order
          active,   \* instruction the next addresses belong to, or NoInst
          found,    \* instructions whose source line was seen
          pcOf      \* pairs <<address, instruction>>

tvars == <<dump, texts, active, found, pcOf>>

NoInst == 0

Source(t) == [k |-> "src", text |-> t]
Address(p) == [k |-> "pc", pc |-> p]
Label == [k |-> "label"]
Blank == [k |-> "blank"]

\* parse_pc_line: an address goes to the active instruction, if there is one
TraceAddress ==
  /\ dump # <<>> /\ Head(dump).k = "pc"
  /\ LET p == Head(dump).pc IN
     pcOf' = IF active = NoInst THEN pcOf
             ELSE {m \in pcOf : m[1] # p} \cup {<<p, active>>}
  /\ dump' = Tail(dump)
  /\ UNCHANGED <<texts, active, found>>

\* Mutant: an instruction goes on past a label
TraceOn ==
  /\ dump # <<>> /\ Head(dump).k = "label"
  /\ dump' = Tail(dump)
  /\ UNCHANGED <<texts, active, found, pcOf>>

TraceReset ==
  /\ dump # <<>> /\ Head(dump).k = "label"
  /\ active' = NoInst
  /\ dump' = Tail(dump)
  /\ UNCHANGED <<texts, found, pcOf>>

TraceBlank ==
  /\ dump # <<>> /\ Head(dump).k = "blank"
  /\ dump' = Tail(dump)
  /\ UNCHANGED <<texts, active, found, pcOf>>

\* Instructions with the text of a source line that were not found yet
Unfound(t) == {i \in DOMAIN texts : texts[i] = t /\ i \notin found}

TraceSource ==
  /\ dump # <<>> /\ Head(dump).k = "src"
  /\ LET same == Unfound(Head(dump).text) IN
     IF same = {} THEN UNCHANGED <<active, found>>
     ELSE /\ active' = CHOOSE i \in same : \A j \in same : i <= j
          /\ found' = found \cup {active'}
  /\ dump' = Tail(dump)
  /\ UNCHANGED <<texts, pcOf>>

TraceDump == TraceAddress \/ TraceReset \/ TraceBlank \/ TraceSource

\* An instruction without a source line or without an address is an error
MissingSource == found # DOMAIN texts
PcsOf(i) == {m[1] : m \in {n \in pcOf : n[2] = i}}
Unmapped == \E i \in DOMAIN texts : PcsOf(i) = {}
=============================================================================

------------------------------ MODULE Detection ------------------------------
(***************************************************************************)
(* How two executions of an instruction are told apart: detection.rs and   *)
(* the comparison of verification.rs.  A row gives, per implementation,    *)
(* what it shows for one instruction: the (sorted, distinct) causes of the *)
(* exceptions it raises and its canonical register and memory writes.  g   *)
(* is a set of implementations that are compared with each other.          *)
(***************************************************************************)

CONSTANTS Causes, Writes

Outcome == [causes : SUBSET Causes, writes : Writes]

(* Some raise an exception and some do not.                                *)
TriggerMismatch(g, row) == /\ \E i \in g : row[i].causes = {}
                           /\ \E i \in g : row[i].causes # {}

(* All raise one, for different causes.                                    *)
CauseMismatch(g, row)   == /\ \A i \in g : row[i].causes # {}
                           /\ \E i, j \in g : row[i].causes # row[j].causes

WriteMismatch(g, row)   == \E i, j \in g : row[i].writes # row[j].writes

(* The writes of the initialization block, the block taken as one.         *)
SameInit(g, init)       == \A i, j \in g : init[i] = init[j]
=============================================================================

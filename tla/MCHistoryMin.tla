---------------------------- MODULE MCHistoryMin ----------------------------
(* Instances of HistoryMin for TLC: two implementations. *)
EXTENDS HistoryMin

CONSTANTS c1, c2, w0, w1,
          MaxFlaky

MCCauses == {c1, c2}
MCWrites == {w0, w1}
ok(w)     == [causes |-> {}, writes |-> w]
exc(c, w) == [causes |-> {c}, writes |-> w]

Same   == <<ok(w0), ok(w0)>>
Differ == <<ok(w0), ok(w1)>>
(* Agreement, a write difference, exceptions on one side, with and without *)
(* a write difference, and on both sides, for one or two causes.           *)
AllRows == { Same, Differ, <<ok(w0), exc(c1, w0)>>, <<ok(w1), exc(c1, w0)>>,
             <<exc(c1, w0), exc(c1, w1)>>, <<exc(c1, w0), exc(c2, w1)>> }
SomeRows == {Same, Differ}

(* Processors on which only the last instruction ever differs, from any    *)
(* set of starts.                                                          *)
LastCpus == { [s \in Indices |-> [k \in Indices |->
                 IF k = MaxTarget /\ s \in starts THEN Differ ELSE Same]]
              : starts \in SUBSET Indices }

(* Candidates that run in any way, for differences at up to MaxFlaky, and  *)
(* ones that run as a processor says, for a difference at MaxTarget.       *)
FlakyConfigs == [target : 0..MaxFlaky, len : {MaxFlaky + 1}, cleanup : BOOLEAN,
                 threshold : {{}, {MaxFlaky}, {MaxFlaky + 1}}, cpu : {{}}]
LastConfigs  == [target : {MaxTarget}, len : {MaxTarget + 2}, cleanup : {TRUE},
                 threshold : {{}}, cpu : {{c} : c \in LastCpus}]
MCConfigs    == FlakyConfigs \cup LastConfigs
=============================================================================

------------------------------ MODULE MemRange ------------------------------
(***************************************************************************)
(* The memory a testcase may use: RiscVImplVec::mem_range allocates it on  *)
(* every core, generate_random_testcase bounds the base registers and the  *)
(* immediates of the instructions that access it.                          *)
(***************************************************************************)
EXTENDS Integers

CONSTANTS Cores,    \* the implementations compared
          UserMem,  \* core -> start, end: its user memory
          Requests  \* testcase configurations: isa base, mem_size, the least
                    \* and most of mem_access_offset, and whether the
                    \* processors also access double words on RV32 ("wide"),
                    \* and whether handlers use temporary registers ("overlap")

Bases == {"Rv32", "Rv64"}

Request == [isa : Bases, size : Nat, least : Int, most : Int, wide : BOOLEAN, overlap : BOOLEAN]

ASSUME CoresAssumption    == Cores # {}
ASSUME RequestsAssumption == Requests \subseteq Request
(* Every core's user memory starts at a double word.                       *)
ASSUME UserMemAssumption ==
  /\ UserMem \in [Cores -> [start : Nat, end : Nat]]
  /\ \A c \in Cores : UserMem[c].start % 8 = 0 /\ UserMem[c].start < UserMem[c].end

WordSize(q)       == IF q.isa = "Rv32" THEN 4 ELSE 8
MaxAccessWidth(q) == IF q.isa = "Rv32" THEN 4 ELSE 8

(* The widths that the processors access, and those declared.              *)
Widths(q)   == {1, 2, 4} \cup (IF q.isa = "Rv64" \/ q.wide THEN {8} ELSE {})
Declared(q) == {w \in Widths(q) : w <= MaxAccessWidth(q)}

(* min_user_mem_size takes the ends of the user memory as exclusive; both   *)
(* ends of an allocated range are in it.                                   *)
MinUserMemSize(size) == \A c \in Cores : size <= UserMem[c].end - UserMem[c].start

RangeFits(q) ==
  /\ MinUserMemSize(q.size)
  /\ q.size % WordSize(q) = 0
  /\ q.size >= MaxAccessWidth(q)

RangeStart(q, c) == LET unaligned == UserMem[c].end - q.size
                    IN (unaligned \div WordSize(q)) * WordSize(q)

MemoryRange(q) ==
  [c \in Cores |-> [start |-> RangeStart(q, c), end |-> RangeStart(q, c) + q.size - 1]]

(* The offsets that base registers are loaded with, and the immediates.    *)
RegisterMin(q) == IF q.least < 0 THEN -q.least ELSE 0

(* Mutant: the width of the access is forgotten.                           *)
LimitWithoutWidth(q) == q.size - q.most

AccessLimit(q) == q.size - MaxAccessWidth(q) - q.most
RegisterMax(q) == IF AccessLimit(q) <= q.size - 1 THEN AccessLimit(q) ELSE q.size - 1

OffsetFits(q) ==
  /\ q.least <= q.most
  /\ AccessLimit(q) >= 0
  /\ RegisterMax(q) >= RegisterMin(q)

RegisterRange(q) == RegisterMin(q) .. RegisterMax(q)

(* Some instructions have no immediate.                                    *)
Immediates(q) == (q.least .. q.most) \cup {0}
=============================================================================

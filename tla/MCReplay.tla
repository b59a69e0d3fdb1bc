------------------------------ MODULE MCReplay ------------------------------
(* A core with its memory from 0, as PicoRV32, Kronos and srv32 have it,   *)
(* and one with its memory further up, as the others do; both ends are as  *)
(* uneven as those of the code.                                            *)
EXTENDS Replay

MCUserMem == [low |-> [start |-> 8, end |-> 31], high |-> [start |-> 64, end |-> 87]]
MCRam     == [low |-> 0 .. 31, high |-> 56 .. 87]
MCCores   == DOMAIN MCUserMem

Offsets == {<<0, 4>>, <<-2, -1>>, <<2, 1>>}
MCRequests ==
  {[isa |-> isa, size |-> size, least |-> o[1], most |-> o[2], wide |-> wide, overlap |-> overlap] :
     isa \in Bases, size \in {6, 8, 16, 24}, o \in Offsets,
     wide \in BOOLEAN, overlap \in BOOLEAN}

(* The larger size only where the smaller one is too small.                *)
MCSizes == {q \in MCRequests : /\ q.size = 16 => q.isa = "Rv64"
                               /\ q.wide => q.isa = "Rv32"}

(* The processors have doubles on RV32.                                    *)
MCWide == {q \in MCRequests : q.isa = "Rv32" /\ q.wide}
=============================================================================

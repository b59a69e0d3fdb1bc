\* All single cores and pairs on both bases under every alignment requirement, Spike
\* with every two cores of RV32, and all cores of RV64 together.
SPECIFICATION Spec
CONSTANT Requests <- MCRequests
INVARIANTS TypeOK RightMachine OwnProgram StringsAgree
CHECK_DEADLOCK FALSE

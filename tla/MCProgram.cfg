\* All sequences of up to three instructions of every kind on every core, with one interrupt.
SPECIFICATION FairSpec
CONSTANTS
  MaxLength = 3
  MaxInterrupts = 1
  Testcases <- MCTestcases
INVARIANTS TypeOK Ordered RightMode
PROPERTY Reports
CHECK_DEADLOCK FALSE

SPECIFICATION ScanSpec
CONSTANTS
  Reg <- MCReg
  SP = "RSP"
  Insts <- MCInsts
  MaxInsts = 5
INVARIANT
  CountIsTraffic
\* A function ends.
CHECK_DEADLOCK FALSE

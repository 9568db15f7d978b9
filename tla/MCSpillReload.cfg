SPECIFICATION ScanSpec
CONSTANTS
  Reg <- MCReg
  SP = "RSP"
  Insts <- MCNamedInsts
  MaxInsts = 5
INVARIANT
  CountedUntilOverwritten
CHECK_DEADLOCK FALSE

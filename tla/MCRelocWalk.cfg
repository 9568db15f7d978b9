CONSTANTS
  Arches <- MCArches
  Words <- MCWords
  WordCount = 4
  Start <- MCStart
  Funcs <- MCFuncs
  Data <- MCData
  Masks <- MCMasks
  Untrusted <- MCUntrusted
  NoName = NoName
  NoPage = NoPage
  FlatArches <- MCFlatArches
  Insts <- MCInsts
  Contains <- MCContains
SPECIFICATION RelocOnlySpec
INVARIANT NeverContradicts
CHECK_DEADLOCK FALSE

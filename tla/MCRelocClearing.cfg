CONSTANTS
  Arches <- MCArches
  Words <- MCWords
  WordCount = 4
  Start <- MCStart
  Funcs <- MCFuncs
  Data <- MCData
  Masks <- MCMasks
  Untrusted = {}
  NoName = NoName
  NoPage = NoPage
SPECIFICATION Spec
INVARIANT NeverContradicts
CHECK_DEADLOCK FALSE

CONSTANTS
  Inputs <- MCInputs
  Text <- MCText
  Sides <- MCSides
  Unconditional <- MCUnconditional
SPECIFICATION BlocksSpec
INVARIANTS
  ResultIsLongest
  BlocksAreBasic
  TiesBlameTheLater
  EveryInstructionOnce
\* writeFuncBlocks prints and returns.
CHECK_DEADLOCK FALSE

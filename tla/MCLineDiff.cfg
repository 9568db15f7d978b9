CONSTANTS
  Text <- MCText
  maxLCSCells = 6
  Inputs <- MCInputs
  similarNum = 2
  similarDen = 3
  Functions <- MCFunctions
  hunkContext = 1
SPECIFICATION Spec
INVARIANTS
  LinesMatchInstructions
  MinimalWhereExact
  DeletesBeforeInserts
  BoundsRejectNothing
  HunksShowTheChanges
  RowsShowEachSideOnce
PROPERTY DiffEnds
CHECK_DEADLOCK FALSE

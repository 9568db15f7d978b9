SPECIFICATION Spec
CONSTANTS
  N = 4
  Limit = 3
  Budget = 3
  PairKinds <- MCKinds
INVARIANTS
  TypeOK
  BudgetRespected
  OversizedAlone
  NoLostWakeup
  ReturnIsComplete
PROPERTIES
  Termination
  ImplementsPairAnalysis
\* The program returns and stops; Termination excludes every other stop.
CHECK_DEADLOCK FALSE

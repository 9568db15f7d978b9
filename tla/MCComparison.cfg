SPECIFICATION CompareSpec
CONSTANTS
  intBits = 5
  NoFunc = NoFunc
  NoName = NoName
  Code <- MCCode
  CodeSize <- MCCodeSize
  OldBinaries <- MCOldBinaries
  NewBinaries <- MCNewBinaries
  PkgOf <- MCPkgOf
  Text <- MCText
  Insts <- MCInsts
  Traffic <- MCTraffic
  Provable <- MCProvable
  Undecodable <- MCUndecodable
INVARIANTS
  PairsByName
  StatesMatchFunctions
  DeltasAreOwn
  TotalsAgree
  PackagesInOrder
  RankingShowsTheTop
  RankingsAccountForTotals
  ScriptsExplainDeltas
\* Compare returns and stops.
CHECK_DEADLOCK FALSE

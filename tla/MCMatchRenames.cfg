SPECIFICATION Spec
CONSTANTS
  Name <- MCName
  NoName = NoName
  Canon <- MCCanon
  NoCanon = ""
  MaxCandidates = 6
  Inputs <- MCInputs
  Similarities <- MCSimilarities
  NoCallback = NoCallback
INVARIANTS
  MatchesAreOneToOne
  NothingLost
  CanonicalNamesDecide
  BodyMatchesAreFirstFit
\* MatchRenames returns and stops.
CHECK_DEADLOCK FALSE

SPECIFICATION CommandSpec
CONSTANTS
  smallGap = 1
  pkgRollupCap = 2
  Regexps <- MCRegexps
  Runs <- MCRuns
  Results <- MCResults
INVARIANTS
  CommandTypeOK
  ReportsAreWhole
  SuggestionsAreNearest
  StatsAccountForText
PROPERTIES
  ReadsAreMapped
  ExitsReleased
\* A run ends.
CHECK_DEADLOCK FALSE

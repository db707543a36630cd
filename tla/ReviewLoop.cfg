SPECIFICATION Spec
CONSTANTS
  surgical = surgical
  deep = deep
  VerdictLanes = {surgical, deep}
  Scout = scout
  revA = revA
  revB = revB
  Revisions = {revA, revB}
  RoundCap = 3
  RetryCap = 0
  ScoutResults <- MCFewScoutResults
  MaxFailures = 0
  MaxAmendments = 1
SYMMETRY Symmetry
CHECK_DEADLOCK FALSE
INVARIANTS
  OutcomeIsEarned
  RetainedOnPass
PROPERTY HistoryFrozen

SPECIFICATION Spec
CONSTANTS
  surgical = surgical
  deep = deep
  VerdictLanes = {surgical}
  Scout = scout
  revA = revA
  revB = revB
  Revisions = {revA, revB}
  RoundCap = 2
  RetryCap = 3
  ScoutResults <- MCOneScoutResult
  MaxFailures = 4
  MaxAmendments = 2
SYMMETRY Symmetry
CHECK_DEADLOCK FALSE
INVARIANTS
  TypeOK
  AttemptEndsOnce
  FailuresSuperseded
  OwnChecksSuffice

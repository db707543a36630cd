SPECIFICATION Spec
CONSTANTS
  p1 = p1
  p2 = p2
  begin = begin
  nextRound = nextRound
  plain = plain
  c1 = c1
  c2 = c2
  Procs = {p1, p2}
  Begin = begin
  Ops = {begin, nextRound, plain}
  Freezing = {begin, nextRound}
  Contents = {c1, c2}
  MaxReceipts = 3
  MaxCrashes = 2
CHECK_DEADLOCK FALSE
INVARIANTS
  TypeOK
  NoStaleWrite
  RecoveredBeforeUse
  GracefulLeavesNothing
PROPERTIES
  ImplementsLog
  ReferencedExistAlone

SPECIFICATION Spec
CONSTANTS
  p1 = p1
  p2 = p2
  nobody = nobody
  launch = launch
  done = done
  lost = lost
  revise = revise
  custody = custody
  retained = retained
  broken = broken
  control = control
  seal = seal
  legacy = legacy
  digest = digest
  Procs = {p1, p2}
  Nobody = nobody
  Rows = {launch, done, lost, revise, custody, retained, broken, control}
  Seals = {seal}
  Legacy = legacy
  Id <- MCId
  Kind <- MCKind
  Refers <- MCRefers
  Digests = {digest}
  Digest <- MCDigest
  MaxEvents = 3
  MaxFaults = 2
INVARIANTS
  ReferencesHold
  AbortLeavesNothing
PROPERTIES
  ImplementsLog
  LockIsReleased

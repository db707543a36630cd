SPECIFICATION Spec
CONSTANTS
  Runner = run
  Closer = close
  Exe = exe
  Sink = sink
  Backend = backend
  stdin = stdin
  stdout = stdout
  Pipes = {stdin, stdout}
  MaxCalls = 2
  Rank <- MCRank
INVARIANTS
  TypeOK
  HonestObservation
  LeaksAreReported
  SettledMeansOver
  OwnersCloseOnce
  NothingClosedUnderARun
PROPERTIES
  ReverseOrder
  CompleteIsFinal
  CallsReturn

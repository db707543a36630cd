SPECIFICATION Spec
CONSTANTS
  Runner = run
  Closer = close
  Exe = exe
  Sink = sink
  Backend = backend
  stdin = stdin
  stdout = stdout
  Pipes = {stdout}
  MaxCalls = 2
  Rank <- MCRank
INVARIANT CloseActionOnce

SPECIFICATION Spec
CONSTANTS
  p1 = p1
  p2 = p2
  t1 = t1
  t2 = t2
  close = close
  nobody = nobody
  b1 = b1
  b2 = b2
  x1 = x1
  Procs = {p1, p2}
  Ops = {t1, t2}
  Close = close
  Nobody = nobody
  Bugs = {b1, b2}
  Others = {x1}
  MaxEdits = 1
  MaxFaults = 2
INVARIANTS
  TypeOK
  WholeWhenQuiet
PROPERTIES
  CloseCompensates
  ImplementsArchive
  PendingResolves

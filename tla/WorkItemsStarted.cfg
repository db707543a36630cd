SPECIFICATION Spec
CONSTANTS
  p1 = p1
  p2 = p2
  t1 = t1
  t2 = t2
  close = close
  nobody = nobody
  b1 = b1
  b2 = b2
  x1 = x1
  Procs = {p1}
  Ops = {t1}
  Close = close
  Nobody = nobody
  Bugs = {b1}
  Others = {}
  MaxEdits = 0
  MaxFaults = 1
INVARIANT OneLocation

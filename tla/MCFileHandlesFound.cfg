SPECIFICATION Spec
CONSTANTS
  t1 = t1
  t2 = t2
  p1 = p1
  p2 = p2
  i1 = i1
  i2 = i2
  f1 = f1
  f2 = f2
  o1 = o1
  o2 = o2
  Worker = {w1, w2}
  Cleaner = FALSE
  Tid = {t1, t2}
  Process = {p1, p2}
  ProcessOf <- TwoProcesses
  ReusePids = FALSE
  Foreign = {}
  Item = {i1, i2}
  File = {f1, f2}
  Ffp = {o1, o2}
  MaxFd = 2
  Null = Null
SYMMETRY Symmetry
INVARIANT FoundMeansValid
CHECK_DEADLOCK FALSE

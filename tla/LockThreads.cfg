SPECIFICATION Spec
CONSTANTS
  c1 = c1
  c2 = c2
  l1 = l1
  t1 = t1
  t2 = t2
  t3 = t3
  None = None
  Clients = {c1, c2}
  Locks = {l1}
  Threads = {t1, t2, t3}
  Owner <- TwoThreadsInOne
  MaxQueue = 3
  MaxFail = 0
  Workers = 6
  Overlap = FALSE
INVARIANTS
  ClientExclusion
CHECK_DEADLOCK FALSE

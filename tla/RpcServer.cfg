SPECIFICATION Spec
CONSTANTS
  w1 = w1
  w2 = w2
  lis = lis
  k1 = k1
  None = None
  Fds = {1, 3}
  PipeFd = 2
  Workers = {w1, w2}
  Listener = lis
  MaxQueue = 2
  PduLen = 2
  Bounds <- Cases
  Clients = {k1}
INVARIANTS
  RefsCounted
  NoDanglingCallback
  
  JobsFindWorkers
PROPERTIES
  JobsEnd
  RefusedIsRetried
CHECK_DEADLOCK FALSE

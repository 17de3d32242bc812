SPECIFICATION Spec
CONSTANTS
  c1 = c1
  c2 = c2
  n1 = n1
  n2 = n2
  k1 = k1
  None = None
  Nodes = {n1, n2}
  KvKeys = {k1}
  Callers = {c1, c2}
  Timed = {c2}
  KvBounds <- Cases
  RawKeys = {1, 2}
  Base = 3
  Underscore = 2
  MaxVersions = 3
INVARIANTS
  
  ReplayConverges
  
PROPERTY CallsReturn
CHECK_DEADLOCK FALSE

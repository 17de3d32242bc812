SPECIFICATION Spec
CONSTANTS
  c1 = c1
  Clients = {c1}
  MaxXid = 2
  MaxConn = 2
  MaxNonce = 1
  Lossy = FALSE
INVARIANTS
  ReplyFindsCaller
CHECK_DEADLOCK FALSE

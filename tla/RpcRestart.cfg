SPECIFICATION Spec
CONSTANTS
  c1 = c1
  Clients = {c1}
  MaxXid = 4
  MaxConn = 2
  MaxNonce = 2
  Lossy = TRUE
INVARIANTS
  AtMostOnce
  OkRanOnce
  ForgottenNeverRan
  ForgottenAfterGivingUp
  WaitingIsRemembered
  XidRepIsFinished
CONSTRAINT FourCallsOrTwoConns
CHECK_DEADLOCK FALSE

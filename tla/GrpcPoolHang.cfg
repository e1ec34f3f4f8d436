SPECIFICATION FairSpec
CONSTANTS
  Clients = {u1, u2}
  Conn = {c1, c2, c3}
  NoConn = NoConn
  InitSize = 1
  MaxSize = 1
  HealthService = TRUE
  DialMayFail = FALSE
\* With the channel full the cleanup may wait forever, and Close with it.
CHECK_DEADLOCK FALSE
PROPERTY
  GetReturns

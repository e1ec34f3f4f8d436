SPECIFICATION FairSpec
CONSTANTS
  Clients = {u1, u2}
  Conn = {c1, c2, c3}
  NoConn = NoConn
  InitSize = 1
  MaxSize = 1
  HealthService = FALSE
  DialMayFail = FALSE
PROPERTIES
  GetReturns
  CloseReturns

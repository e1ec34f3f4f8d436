SPECIFICATION Spec
CONSTANTS
  Clients = {u1, u2, u3}
  Conn = {c1, c2, c3, c4, c5}
  NoConn = NoConn
  InitSize = 1
  MaxSize = 2
  HealthService = TRUE
  DialMayFail = TRUE
\* With the channel full the cleanup may wait forever, and Close with it.
CHECK_DEADLOCK FALSE
SYMMETRY ConnSymmetry
INVARIANTS
  TypeOK
  OneOwner
  Accounting
  Oversubscription
  BlocksOnlyOversubscribed
PROPERTY
  ImplementsLease

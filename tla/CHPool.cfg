SPECIFICATION StoreSpec
CONSTANTS
  Users = {b, q}
  Patient = {q}
  Batcher = b
  Conn = {c1, c2, c3}
  NoConn = NoConn
  MinConnections = 1
  MaxConnections = 2
INVARIANTS
  TypeOK
  OneOwner
  Accounting
  Oversubscription
  RefillHasRoom
  CloseClosesAll
  BatcherOK
PROPERTIES
  ImplementsLease
  PatientGetReturns
  FlushEnds
  PingEnds

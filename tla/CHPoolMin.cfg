SPECIFICATION FairSpec
CONSTANTS
  Users = {u1}
  Patient = {}
  Conn = {c1, c2, c3}
  NoConn = NoConn
  MinConnections = 1
  MaxConnections = 2
PROPERTY
  MinEnsured

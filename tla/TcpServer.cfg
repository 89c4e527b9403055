SPECIFICATION FairSpec
CONSTANTS
  Conns = {c1, c2, c3, c4}
  NoConn = NoConn
  IdSpace = 2
  MaxOps = 2
INVARIANTS
  NoOrphanHandler
  MapOwnsConnections
PROPERTIES
  ClosedIsDropped

SPECIFICATION FairSpec
CONSTANTS
  Conns = {c1, c2, c3}
  NoConn = NoConn
  IdSpace = 1
  MaxOps = 2
  Junk = Junk
  MaxSays = 2
  MaxJunk = 1
INVARIANTS
  SpokenInOrder
PROPERTIES
  EverythingGoesOut

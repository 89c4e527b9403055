SPECIFICATION Spec
CONSTANTS
  Conns = {c1, c2, c3}
  NoConn = NoConn
  IdSpace = 2
  MaxOps = 2
  Junk = Junk
  MaxSays = 2
  MaxJunk = 1
INVARIANTS
  WritingWhileQueued
  SameConversation
PROPERTIES
  ImplementsServer
SYMMETRY ConnSymmetry

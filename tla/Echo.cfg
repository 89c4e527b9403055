SPECIFICATION FairSpec
CONSTANTS
  MsgLen = 3
  MaxRoom = 3
  RecvSize = 2
INVARIANTS
  MessageGoesRound
PROPERTIES
  PingPong
  LossEndsBoth
CHECK_DEADLOCK FALSE

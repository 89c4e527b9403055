SPECIFICATION FairSpec
CONSTANTS
  a1 = a1
  a2 = a2
  w1 = w1
  w2 = w2
  Actors <- MCActors
  Workers <- MCWorkers
  Ids = {1, 2}
  Interval <- MCInterval
  Msgs = {m}
  NullMsg = NullMsg
  NoActor = NoActor
  Garbage = {0, 1}
  Clock = {0, 1, 2}
  MaxMsgs <- MCMaxMsgs
  Horizon = 2
  MaxTicks = 1
INVARIANTS TypeOK OneTickPerActor NoOvertaking
PROPERTIES TickSpacing HandledAtNextTick

SPECIFICATION FairSpec
CONSTANTS
  Producers = {p1, p2}
  Consumers = {c1, c2, c3}
  Elems = {x, y}
  NoElem = NoElem
  Free = Free
  MaxPuts = 3
INVARIANTS
  TypeOK
  EveryElemHasATaker
PROPERTIES
  ImplementsChannel
  TakeReturns

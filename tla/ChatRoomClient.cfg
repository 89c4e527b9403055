SPECIFICATION FairSpec
CONSTANTS
  Junk = Junk
  MaxHeard = 3
INVARIANTS
  WritingWhileQueued
  SaidInOrder
  QuietAtReturn
PROPERTIES
  ErrorEndsLoop
CHECK_DEADLOCK FALSE

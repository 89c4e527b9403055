SPECIFICATION FairSpec
CONSTANTS
  l1 = l1
  l2 = l2
  Loggers = {l1, l2}
  NoLogger = NoLogger
  Names = {1, 2}
  NamesOf <- MCNamesOf
  Threads = {t1, t2}
  BlockSize = 2
  SizeBits = 3
  LineSizes <- MCLineSizes
  MaxLines = 1
  MaxFlushes = 1
  Percent = "%"
  FmtSize = 4
INVARIANTS EveryLineGoesBehind RetiredInOrderOnce FmtSubstitutes
PROPERTY ExitWritesAll
CHECK_DEADLOCK FALSE

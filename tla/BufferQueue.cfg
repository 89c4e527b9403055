SPECIFICATION FairSpec
CONSTANTS
  Nul = Nul
  Bytes = {Nul, b}
  Junk = Junk
  BUFFER_SIZE_SMALL = 1
  BUFFER_SIZE_RAW = 2
  BUFFER_SIZE_MAX = 6
  RETRIEVE_MAX = 7
  InitSizes = {0, 1, 2}
  Texts <- MCTexts
  MaxSource = 3
  MaxText = 2
  Sources <- MCSources
  Counts <- MCCounts
INVARIANTS
  TypeOK
PROPERTIES
  ImplementsByteQueue
  GrowthReturns
  RefusesOnlyBeyondMax
  LengthsAddUp

SPECIFICATION Spec
CONSTANTS
  Nul = Nul
  Bytes = {Nul, b}
  Junk = Junk
  BUFFER_SIZE_SMALL = 1
  BUFFER_SIZE_RAW = 2
  BUFFER_SIZE_MAX = 6
  RETRIEVE_MAX = 7
  InitSizes = {0, 1, 2}
  Texts = {}
  MaxSource = 3
  MaxText = 0
  Sources <- MCSources
  Counts <- MCCounts
PROPERTIES
  GrowthKeepsUnread

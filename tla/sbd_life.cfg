CONSTANTS
  Versions = {TRUE, FALSE}
  Requests <- MixedRequests
  NSectors = 11
  BlockSectors = 1
  IntSectors = 8
  LongSectors = 8
  CipherResults = {TRUE, FALSE}
  Key = "k"
  KeyLen = 16
  NewKeys = {"k", "l"}
  NewLengths = {}
  Values <- SomeValues
  None = None
  RequestedMajor = FALSE
SPECIFICATION LSpec
INVARIANTS InsideDevice OneKeyPerSegment RequestsHaveAll LittleIsLeft

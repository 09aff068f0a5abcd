CONSTANTS
  Versions = {TRUE, FALSE}
  Requests <- SomeRequests
  NSectors = 3
  BlockSectors = 1
  IntSectors = 64
  LongSectors = 64
  CipherResults = {TRUE, FALSE}
  Key = "k"
  KeyLen = 16
  NewKeys = {}
  NewLengths = {9}
  Values <- SomeValues
  None = None
SPECIFICATION FairSpec
PROPERTIES ImplementsRamDisk EveryFetchedEnds

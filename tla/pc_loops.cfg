CONSTANTS
  Loops = 4
  Slots = 3
  IntMin <- MinInt32
  IntMax <- MaxInt32
  Draws <- SomeDraws
SPECIFICATION NFairSpec
INVARIANTS IndexFound ItemsLive OnlyIntMin
PROPERTIES ImplementsHandoff EveryLoopEnds

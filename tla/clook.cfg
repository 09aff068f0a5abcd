CONSTANTS
  q1 = q1
  q2 = q2
  Queues <- TwoQueues
  Sectors <- SmallDisk
  SectorSpan <- SmallSpan
  IntSpan <- NarrowInt
  MaxQueued <- ThreeAndOne
  Merging = TRUE
SPECIFICATION FairSpec
INVARIANT ElevatorOrder
PROPERTIES MovesToNearest WaitingIsServed

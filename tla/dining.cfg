\* The source has five: four threads keep the run short and still have two
\* neighbours each and one opposite.
CONSTANT N = 4
SPECIFICATION FairSpec
INVARIANTS NeighboursDoNotEatTogether ShortWaits
PROPERTIES ImplementsTable GetForksReturns

CONSTANTS
  Threads <- FourThreads
  Places = 2
  CatchesSIGINT = TRUE
SPECIFICATION ResourceSpec
PROPERTIES TurnedBackWaitForAll EveryoneIsDone

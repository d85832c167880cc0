SPECIFICATION FairSpec
CONSTANTS
  w1 = w1
  w2 = w2
  w3 = w3
  Workers <- MCWorkers
  MaxPlays = 3
  DbMayFail = TRUE
INVARIANTS
  TypeOK
  OneWorker
  SavedOnce
  CountedOrWaiting
PROPERTIES
  EveryPlayIsSaved
CHECK_DEADLOCK FALSE

SPECIFICATION Spec
CONSTANTS
  w1 = w1
  w2 = w2
  w3 = w3
  Workers <- MCWorkers
  MaxPlays = 3
  DbMayFail = FALSE
INVARIANTS
  PlayCountIsPlays
CHECK_DEADLOCK FALSE

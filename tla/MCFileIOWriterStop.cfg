SPECIFICATION FairSpec
CONSTANTS
  c1 = c1
  c2 = c2
  Chunks <- MCChunks
  MaxChunks = 3
PROPERTIES
  StopEndsThread
CHECK_DEADLOCK FALSE

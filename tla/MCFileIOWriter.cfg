SPECIFICATION FairSpec
CONSTANTS
  c1 = c1
  c2 = c2
  Chunks <- MCChunks
  MaxChunks = 3
INVARIANTS
  TypeOK
  NothingLost
PROPERTIES
  DataGetsWritten
  PipeSpec
CHECK_DEADLOCK FALSE

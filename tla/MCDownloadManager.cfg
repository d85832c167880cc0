SPECIFICATION FairSpec
CONSTANTS
  script = script
  zip = zip
  NoFile = NoFile
  Files <- MCFiles
  Sized <- MCSized
  Batches <- MCBatches
  FullSize = 2
  MaxBatches = 2
  MaxHops = 2
CONSTRAINT Bound
INVARIANTS
  TypeOK
  CompleteWhenOk
  OneAtATime
  OneEnd
PROPERTIES
  BatchEnds
CHECK_DEADLOCK FALSE

SPECIFICATION FairSpec
CONSTANTS
  pegasus = pegasus
  pixl = pixl
  Components <- MCComponents
  MAX_DOWNLOADER = 2
  MaxPresses = 2
  MaxHops = 2
CONSTRAINT Bound
INVARIANTS
  TypeOK
  OneEntry
  InstallsWhatIsThere
PROPERTIES
  InstallationEnds
CHECK_DEADLOCK FALSE

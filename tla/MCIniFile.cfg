SPECIFICATION Spec
CONSTANTS
  rom1 = rom1
  rom2 = rom2
  emulator = emulator
  core = core
  a = a
  b = b
  Missing = Missing
  NoFile = NoFile
  Paths <- MCPaths
  Keys <- MCKeys
  ValuesOf <- MCValuesOf
  Contents <- MCContents
  Starts <- MCStarts
INVARIANTS
  TypeOK
  MemoryAgrees
PROPERTIES
  StoreSpec
CONSTRAINT Bound

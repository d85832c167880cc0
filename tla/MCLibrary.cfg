SPECIFICATION Spec
CONSTANTS
  psx = psx
  steam = steam
  bin = bin
  zip = zip
  libretro = libretro
  standalone = standalone
  core1 = core1
  core2 = core2
  Unset = Unset
  Undefined = Undefined
  NoCollection = NoCollection
  Files <- MCFiles
  Collections <- MCCollections
  MaxGames = 2
  EmulatorsOf <- MCEmulatorsOf
  SuffixOf <- MCSuffixOf
  Confs <- MCConfs
  Hosts <- MCHosts
  CommandsOf <- MCCommandsOf
INVARIANTS
  ShownIsWhole
  FilesKept
  LaunchedIsPlayable
CHECK_DEADLOCK FALSE

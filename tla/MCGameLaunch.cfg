SPECIFICATION FairSpec
CONSTANTS
  pythonGame = pythonGame
  programGame = programGame
  missingGame = missingGame
  NoGame = NoGame
  Games <- MCGames
  CommandOf <- MCCommandOf
  Scripts = {}
  PsSeesChild = TRUE
INVARIANTS
  TypeOK
  OnlyTheLaunchedGame
PROPERTIES
  SessionEnds
  SessionSpec

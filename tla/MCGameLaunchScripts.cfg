SPECIFICATION Spec
CONSTANTS
  pythonGame = pythonGame
  programGame = programGame
  missingGame = missingGame
  NoGame = NoGame
  Games <- MCGames
  CommandOf <- MCCommandOf
  Scripts = {userScript}
  PsSeesChild = FALSE
  userScript = userScript
INVARIANTS
  AssertionsHold
  NeverStranded
  KeyboardHandedBack

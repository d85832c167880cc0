SPECIFICATION Spec
CONSTANTS
  MaxPlugs = 4
  MaxPads = 3
  MaxEvents = 3
INVARIANTS
  TypeOK
  PlayersAgree
  ButtonsReachTheirPad
  
CHECK_DEADLOCK FALSE

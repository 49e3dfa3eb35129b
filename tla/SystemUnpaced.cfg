SPECIFICATION FairSpec
CONSTANTS
  Moves <- MCMoves
  TidCount = 4
  MaxMoves = 2
  FaultKinds = {}
  MaxFaults = 0
  Paced = FALSE
PROPERTIES
  SendMoveReturns
  ReadyTakenBack
  ExitHonoured

SPECIFICATION FairSpec
CONSTANTS
  Moves <- MCMoves
  TidCount = 4
  MaxMoves = 2
  FaultKinds = {"loss"}
  MaxFaults = 1
  Paced = TRUE
INVARIANTS
  TypeOK
  HandshakeInv
  ServiceInv
PROPERTIES
  SendMoveReturns
  ImplementsService
  ServiceProgresses

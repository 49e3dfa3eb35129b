SPECIFICATION Spec
CONSTANTS
  Moves <- MCOneMove
  TidCount = 4
  MaxMoves = 2
  FaultKinds = {"timeout", "exception", "loss", "restart"}
  MaxFaults = 2
  Paced = FALSE
INVARIANTS
  AtMostOnce

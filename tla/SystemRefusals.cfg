SPECIFICATION Spec
CONSTANTS
  Moves <- MCMoves
  TidCount = 4
  MaxMoves = 2
  FaultKinds = {"timeout", "exception", "loss"}
  MaxFaults = 2
  Paced = TRUE
INVARIANTS
  TrueUnlessRefused
  ExitInv
PROPERTY
  ExitOnlyOnCommand

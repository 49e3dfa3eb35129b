SPECIFICATION Spec
CONSTANTS
  Moves <- MCMoves
  TidCount = 4
  MaxMoves = 2
  FaultKinds = {"exception"}
  MaxFaults = 1
  Paced = TRUE
INVARIANTS
  MovesAsOrdered

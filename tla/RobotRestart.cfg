SPECIFICATION RestartSpec
CONSTANTS
  Moves <- MCMoves
  TidCount = 4
  MaxMoves = 2
  FaultKinds = {}
  MaxFaults = 0
  Paced = TRUE
  MaxRestarts = 2
  KeepsOutput = TRUE
INVARIANTS RepeatsByRestartsOnly TrueMeansPerformed MovesAsOrdered

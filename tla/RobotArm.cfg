SPECIFICATION ArmSpec
CONSTANTS
  Fields = {f1, f2, f3, f4}
  Pieces = {p1, p2, p3}
  Jobs <- MCJobs
  MaxRestarts = 3
SYMMETRY Alike
INVARIANT
  ReadyMeansMoved
PROPERTIES
  ImplementsBoard
  NoCollision
  LosesOnlyCarried

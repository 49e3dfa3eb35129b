SPECIFICATION FairSpec
CONSTANTS
  adu_header   = 7
  adu_checksum = 0
  adu_max      = 260
  Modes     <- AllModes
  Pdus      <- AllPdus
  TidCount  = 3
  MaxFaults = 2
  MaxStream = 12
INVARIANTS OwnAnswer ExecutedOnce SessionInv
PROPERTIES OwnBytesAnswer BackInStep

SPECIFICATION MCSpec
CONSTANTS
  adu_header   = 1
  adu_checksum = 2
  adu_max      = 256
  Slaves     = {1, 2}
  Targets    = {1, 2}
  Pdus       <- AllPdus
  Modes      <- AllModes
  FaultKinds = {"noise", "late"}
  MaxFaults  = 1
  MaxInput   = 8
  MoreBytes  = {0, 1, 128, 255}
  MaxLength  = 2
INVARIANTS OwnAnswer ExecutesRequests NeverTwice TablesAreCrc16 ErrorsDetected

SPECIFICATION MCSpec
CONSTANTS
  Clients     <- MCClients
  Retries     = FALSE
  Descriptors = {0, 1, 2, 3}
  Mappings    = {"served"}
  Contexts    = {"other"}
  Blocks      = {0, 1, 2, 3, 4, 5, 6, 7}
  MaxAttempts = 2
INVARIANTS ConnectedMeansOpen NoSocketLeft PortRestored OnlyAttemptsLose OneOwner
PROPERTY OthersUntouched

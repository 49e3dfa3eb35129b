SPECIFICATION MCSpec
CONSTANTS
  Calls <- MCCalls
  InitTabs <- MCTabs
  TidCount = 2
  MaxCalls = 2
INVARIANTS
  FramesAgree
  BitsReadBack
  FloatsReadBack
PROPERTIES
  ImplementsTables
CHECK_DEADLOCK FALSE

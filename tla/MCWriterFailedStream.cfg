SPECIFICATION FairSpec
CONSTANTS
  MaxCalls = 2
  Kinds <- AllKinds
  Fails <- Writes
CHECK_DEADLOCK FALSE
PROPERTIES
  EveryDeferredCloseReturns

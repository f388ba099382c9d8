SPECIFICATION FairSpec
CONSTANTS
  MaxCalls = 3
  Kinds <- AllKinds
  Fails <- Writes
CHECK_DEADLOCK FALSE
INVARIANTS
  TypeOK
  CountsExact
  OwnAck
PROPERTIES
  NoEcho
  EveryCallReturns

SPECIFICATION LoopSpec
CONSTANTS
  MaxConsumers = 1
  Kinds <- AllKinds
  MaxMessages = 1
  Malformed = {}
CHECK_DEADLOCK FALSE
PROPERTIES
  SenderNotBlocked

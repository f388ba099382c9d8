SPECIFICATION Spec
CONSTANTS
  MaxConsumers = 2
  Kinds <- AllKinds
  MaxMessages = 2
  Malformed = {}
CHECK_DEADLOCK FALSE
INVARIANTS
  TypeOK
  AckMeansHandled
  ChunksBeforeAck
  PlainInOrder

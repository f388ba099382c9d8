SPECIFICATION LoopSpec
CONSTANTS
  MaxConsumers = 2
  Kinds <- MixedKinds
  MaxMessages = 2
  Malformed = {1}
CHECK_DEADLOCK FALSE
PROPERTIES
  IterationSuffices
  ClosedReaderAcks

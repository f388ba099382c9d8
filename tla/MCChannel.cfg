SPECIFICATION LoopSpec
CONSTANTS
  MaxConsumers = 2
  MaxCalls = 3
  MaxWrites = 2
  CallKinds <- Calling
CHECK_DEADLOCK FALSE
INVARIANTS
  WriteMeansHandled
PROPERTIES
  RefinesWriter
  EveryCallArrives

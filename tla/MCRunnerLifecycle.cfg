SPECIFICATION LoopSpec
CONSTANTS
  MaxProcs = 2
  MaxPending = 2
  Fails <- AllStages
CHECK_DEADLOCK FALSE
INVARIANTS
  TypeOK
  CleanReturn
  TrailingLogsSent
PROPERTIES
  NothingStartsAfterwards
  LossEndsRun
  FailureRaises
  TransformsEnd

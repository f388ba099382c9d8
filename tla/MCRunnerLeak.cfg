SPECIFICATION LoopSpec
CONSTANTS
  MaxProcs = 2
  MaxPending = 1
  Fails <- AllStages
CHECK_DEADLOCK FALSE
PROPERTIES
  PipelineEnds

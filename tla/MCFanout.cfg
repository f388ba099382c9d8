SPECIFICATION LoopSpec
CONSTANTS
  c1 = c1
  c2 = c2
  c3 = c3
  Consumers <- ThreeConsumers
  Pump = Pump
  NoTask = NoTask
  MaxChunks = 2
CHECK_DEADLOCK FALSE
INVARIANTS
  TypeOK
  AckedInOrder
  ClaimUncontended
  StreamComplete
PROPERTIES
  RefinesBarrier
  AbortReleases
  IterationSuffices

SPECIFICATION LoopSpec
CONSTANTS
  MaxConns = 3
  Limit = 2
  HistorySizes <- Sizes
  index = index
  shared = shared
  missing = missing
  secret = secret
  Files <- AllFiles
  Seeds <- ProcessorFiles
  Readable <- ReadableFiles
  Imports <- ImportGraph
CHECK_DEADLOCK FALSE
INVARIANTS
  TypeOK
  NothingKept
  HistoryIsLatest
  StatusEarned
  WhitelistExact
PROPERTIES
  ShutdownEnds
  EveryConnectionEnds

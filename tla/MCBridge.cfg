SPECIFICATION FairSpec
CONSTANTS
  MaxChunks <- FewChunks
  MaxFresh = 1
CHECK_DEADLOCK FALSE
INVARIANTS
  TypeOK
  BytesInOrder
PROPERTIES
  EverythingPassedOn
  LossSurfaces
  ExitReturns

CONSTANTS
  N = 4
  Offset <- MCOffset
  Length <- MCLength
  Workers <- MCWorkers
  NoChunk = NoChunk
  NoObject = NoObject

SPECIFICATION FairSpec

INVARIANTS
  TypeOK
  InOrder
  NoLostWakeup
  ObjectIsWhole

PROPERTIES
  ImplementsSequential
  CloseReturns

\* The file is closed, or its jobs hang as CloseReturns says.
CHECK_DEADLOCK FALSE

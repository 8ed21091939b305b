CONSTANTS
  P = 2
  Calls = 3

SPECIFICATION FairSpec

INVARIANTS
  TypeOK
  SerialReadsAreWhole

PROPERTIES
  ProducerReleased
  ReaderEnds

\* The request has made its reads.
CHECK_DEADLOCK FALSE

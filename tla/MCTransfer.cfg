CONSTANT NumChunks = 2

SPECIFICATION FairSpec

INVARIANTS
  TypeOK
  ResultIsTrue

PROPERTY TransferEnds

\* The transfer is over.
CHECK_DEADLOCK FALSE

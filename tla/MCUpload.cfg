CONSTANTS
  NumParts = 2
  NumChunks <- MCNumChunks
  Workers <- MCWorkers
  NoJob = NoJob
  Nothing = Nothing

SPECIFICATION FairSpec

INVARIANTS
  TypeOK
  JobsHaveOpenFile
  PassedOnWhenDone
  StoredWhole

PROPERTY UploadEnds

\* The request is over.
CHECK_DEADLOCK FALSE

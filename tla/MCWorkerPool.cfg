CONSTANTS
  j1 = j1
  j2 = j2
  j3 = j3
  j4 = j4
  w1 = w1
  w2 = w2
  NoJob = NoJob
  NoWorker = NoWorker
  Jobs <- MCJobs
  Stuck <- MCStuck
  Workers <- MCWorkers
  Stoppable <- MCWorkers

SPECIFICATION FairSpec

INVARIANTS
  TypeOK
  ChannelHasOneOwner
  RegisterNeverBlocks

PROPERTIES
  ImplementsService
  JobsComplete

\* Every job may be done, and the system rests.
CHECK_DEADLOCK FALSE

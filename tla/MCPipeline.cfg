CONSTANTS
  Requests <- MCRequests
  Rules <- MCRules
  NextReads <- MCNextReads
  Matching <- MCMatching
  Workers <- MCWorkers
  NoJob = NoJob
  NoHeader = NoHeader

SPECIFICATION FairSpec

INVARIANTS
  TypeOK
  ForwardsOneOfItsHeaders

PROPERTIES
  ReadsEnd
  WorkersComeBack

\* The requests are answered; values that nobody reads stay.
CHECK_DEADLOCK FALSE

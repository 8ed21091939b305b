CONSTANTS
  Requests <- MCRequests
  Rules <- MCHeaderRules
  NextReads <- MCHeaderNextReads
  Matching <- MCHeaderMatching
  Workers <- MCWorkers
  NoJob = NoJob
  NoHeader = NoHeader

SPECIFICATION Spec

INVARIANT ForwardsItsHeader

CHECK_DEADLOCK FALSE

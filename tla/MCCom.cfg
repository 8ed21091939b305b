CONSTANTS
  c1 = c1
  c2 = c2
  Consumers <- MCConsumers
  MaxCalls = 5

SPECIFICATION FairSpec

INVARIANTS
  TypeOK
  OneNsqd
  CloseWaitsForConsumers

PROPERTY CallsReturn

\* The calls are used up, or the owner hangs in one that is out of order.
CHECK_DEADLOCK FALSE

CONSTANTS
  c1 = c1
  c2 = c2
  Consumers <- MCConsumers
  MaxCalls = 2

SPECIFICATION Spec

INVARIANT StartedConsumerListens

CHECK_DEADLOCK FALSE

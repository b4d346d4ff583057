CONSTANTS
  StartBlock = 2
  Prefetch = 2
  Confirm = 2
  DsQueueSize = 1
  MaxBlock = 7
  MaxFaults = 3
SPECIFICATION FairSpec
INVARIANTS
  BufferBounded
  PermitsConserved
PROPERTIES
  ProcessedInOrder
  Progress
CHECK_DEADLOCK FALSE

CONSTANTS
  StartBlock = 2
  Modes = {FALSE}
  Prefetch = 1
  DsQueueSize = 1
  Group = 2
  ClearInterval = 3
  PositionLag = 1
  JobBlocks = {2, 3}
  LogBlocks = {}
  InitHead = 6
  InitLib = 2
  MaxBlock = 7
  MaxForks = 1
  ForkDepth = 7
  MaxStops = 1
SPECIFICATION Spec
INVARIANTS
  DatabaseConsistent
CHECK_DEADLOCK FALSE

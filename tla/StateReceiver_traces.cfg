CONSTANTS
  StartBlock = 2
  Modes = {FALSE}
  Prefetch = 1
  DsQueueSize = 1
  Group = 2
  ClearInterval = 3
  PositionLag = 3
  JobBlocks = {4, 6}
  LogBlocks = {3, 6}
  InitHead = 7
  InitLib = 3
  MaxBlock = 7
  MaxForks = 0
  ForkDepth = 2
  MaxStops = 1
SPECIFICATION Spec
INVARIANTS
  TracesLoggedOnce
CHECK_DEADLOCK FALSE

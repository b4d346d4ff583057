CONSTANTS
  StartBlock = 2
  Modes = {FALSE, TRUE}
  Prefetch = 1
  DsQueueSize = 1
  Group = 2
  ClearInterval = 5
  PositionLag = 3
  JobBlocks = {6, 9, 10, 11}
  LogBlocks = {3, 10}
  InitHead = 9
  InitLib = 8
  MaxBlock = 11
  MaxForks = 2
  ForkDepth = 3
  MaxStops = 1
SPECIFICATION FairSpec
INVARIANTS
  NeverRefused
  ParentProcessed
  AnnouncedIsCommitted
  DatabaseConsistent
  ExecutedOnce
  PositionCoversEffects
PROPERTIES
  IndexSpec
  CatchesUp
CHECK_DEADLOCK FALSE

CONSTANTS
  HandlerNames = {h1, h2}
  Versions <- Directories
  Removable = FALSE
  Jobs <- JobList
  Priority <- Priorities
  Interval <- Intervals
  Stuck = {"offers"}
  Lists = {l1, l2}
  Items = {x, y}
  Polls = {1, 2}
  MaxPublished = 2
  MaxFailed = 1
  MaxBlock = 3
  MaxAhead = 2
  MaxDeaths = 1
SPECIFICATION FairSpec
INVARIANTS
  MigrationsOnce
  AbiOfBlock
PROPERTIES
  JobsRun
  ListsFollow
  StalledIsReplaced
\* A dead worker is not replaced; and the numbers of blocks and releases are bounded.
CHECK_DEADLOCK FALSE

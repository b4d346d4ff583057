CONSTANTS
  Templates = {1, 2}
  NoTemplate = NoTemplate
  Null = Null
  BatchSize = 2
  ClearInterval = 2
  LateReader = FALSE
  MaxBlock = 3
  MaxForks = 1
  MaxStops = 1
  MaxListings = 1
SPECIFICATION FairSpec
INVARIANTS
  MintsAreRowNumbers
  RangesAreComplete
PROPERTIES
  AllNumbered
\* A bounded chain ends and everything is numbered.
CHECK_DEADLOCK FALSE

CONSTANTS
  Templates = {1}
  NoTemplate = NoTemplate
  Null = Null
  BatchSize = 2
  ClearInterval = 2
  LateReader = TRUE
  MaxBlock = 4
  MaxForks = 1
  MaxStops = 1
  MaxListings = 0
SPECIFICATION Spec
INVARIANTS
  MintsAreRowNumbers
\* A bounded chain ends and everything is numbered.
CHECK_DEADLOCK FALSE

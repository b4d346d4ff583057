CONSTANTS
  Ids = {i1}
  Accounts = {alice, bob}
  Assets = {1, 2}
  Pairs = {p1}
  UpdateInterval = 1
  MaxSent <- Bounds
  MaxForks = 1
  MaxStops = 1
  Traffic <- Kinds
  ConfigForks = FALSE
SPECIFICATION FairSpec
INVARIANTS
  TablesMatch
  ConfigMatches
  MediansAreFresh
PROPERTIES
  SettledForGood
  NeverStuck
\* The number of actions is bounded.
CHECK_DEADLOCK FALSE

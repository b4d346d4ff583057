CONSTANTS
  Ids = {i1}
  Accounts = {alice, bob}
  Assets = {1, 2}
  Pairs = {p1}
  UpdateInterval = 1
  MaxSent <- Bounds
  MaxForks = 1
  MaxStops = 1
  Traffic = {"config"}
  ConfigForks = TRUE
SPECIFICATION Spec
INVARIANTS
  ConfigMatches
CHECK_DEADLOCK FALSE

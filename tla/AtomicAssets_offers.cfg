CONSTANTS
  Assets = {x1, x2}
  Accounts = {alice, bob}
  Offers = {o1, o2}
  MaxTraces = 3
SPECIFICATION Spec
SYMMETRY Symmetry
INVARIANTS
  NoJobThrows
  OwnersMatch
  OffersMatch
PROPERTIES
  ClosedForGood
\* All assets may be burned and all offers closed.
CHECK_DEADLOCK FALSE

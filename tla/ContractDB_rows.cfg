CONSTANTS
  Keys = {k1, k2}
  Cols = {c1}
  Vals = {v1, v2}
  NoRow = NoRow
  ClearInterval = 2
  MaxBlock = 3
  MaxId = 3
SYMMETRY Symmetry
SPECIFICATION Spec
INVARIANTS
  TypeOK
  RollbackNeverThrows
  RollbackRestores
  HavePositionsComplete
  QueriesBelongToBlocks
CHECK_DEADLOCK FALSE

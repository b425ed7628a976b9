CONSTANTS
  Grids <- BonusGrids
SPECIFICATION Spec
INVARIANTS BonusIsCappedSum
CHECK_DEADLOCK FALSE

CONSTANTS
  Grids <- AllGrids
SPECIFICATION Spec
INVARIANTS TypeOK HoldNeedsBothDomains AnomalyNeverHoldsAlone RoundedOnce
PROPERTIES EvidenceNeverLowersScore
CHECK_DEADLOCK FALSE

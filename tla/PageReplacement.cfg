SPECIFICATION Spec
CONSTANTS
  Sizes <- MCSizes
  Ranges <- MCRanges
  LeastInit = 4
INVARIANTS
  TypeOK
  LruKeepsRecent
PROPERTY DemandPaged
CHECK_DEADLOCK FALSE

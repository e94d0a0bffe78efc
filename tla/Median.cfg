SPECIFICATION FairSpec
CONSTANTS
  N = 2
  PerFile = 3
  Values = {1, 2, 3, 4, 5, 6}
INVARIANTS
  TypeOK
  CheckConfirmsMedian
  PipesStayShort
  MedianNotDropped
PROPERTIES
  ImplementsSelection
  Terminates
CHECK_DEADLOCK FALSE

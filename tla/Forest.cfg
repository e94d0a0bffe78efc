SPECIFICATION FairSpec
CONSTANTS
  l1 = l1
  l2 = l2
  j1 = j1
  Lions <- MCLions
  Jackals <- MCJackals
  Herds <- MCHerds
  LionMeals = 1
  JackalMeals = 2
  Pits = 2
  Full = 1
  Ration = 1
  MaxCalls = 1
INVARIANTS
  TypeOK
  WakeupsAccounted
PROPERTIES
  RangerEnds
CHECK_DEADLOCK FALSE

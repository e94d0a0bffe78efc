SPECIFICATION FairSpec
CONSTANTS
  N = 3
  Start = "a"
  Webs <- MCWebs
  no_of_times = 2
  MaxThreads = 4
  MaxSpurious = 1
INVARIANTS
  TypeOK
  CrawledOnce
  LevelsAreDistances
  SwapAlone
  CompleteWhenPrinted
PROPERTY Finishes
CONSTRAINT DisturbedOnce
CHECK_DEADLOCK FALSE

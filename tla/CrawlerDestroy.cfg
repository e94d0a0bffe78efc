SPECIFICATION Spec
CONSTANTS
  N = 3
  Start = "a"
  Webs <- MCWebs
  no_of_times = 2
  MaxThreads = 3
  MaxSpurious = 0
INVARIANT MutexesOutliveThreads
CHECK_DEADLOCK FALSE

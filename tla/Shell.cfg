SPECIFICATION FairSpec
CONSTANTS
  Lines <- MCLines
  MaxLines = 2
  MaxArgs = 7
  Capacity = 2
  Filters = {"cat"}
  Output <- MCOutput
INVARIANTS
  TypeOK
  ReaderSeesEnd
PROPERTY LineEnds
CHECK_DEADLOCK FALSE

SPECIFICATION FairSpec
CONSTANTS
  Clients = {c1, c2}
  MaxTexts = 1
INVARIANTS
  TypeOK
  OneInside
  MembersExact
  InOrderOnce
PROPERTIES
  EveryMemberHears
  ServerEnds
CHECK_DEADLOCK FALSE

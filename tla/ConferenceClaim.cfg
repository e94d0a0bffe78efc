SPECIFICATION Spec
CONSTANTS
  Clients = {c1, c2}
  MaxTexts = 1
INVARIANT ClaimExcludes
CHECK_DEADLOCK FALSE

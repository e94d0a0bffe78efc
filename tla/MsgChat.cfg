SPECIFICATION Spec
CONSTANTS
  Clients = {c1, c2, c3}
  Names = {n1, n2}
SYMMETRY Symmetry
INVARIANTS
  TypeOK
  FirstIsList
  QueuesStayShort
  SomeoneTalks
PROPERTIES
  NumbersKeepTheirNames

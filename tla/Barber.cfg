SPECIFICATION ShopFairSpec
CONSTANTS
  Customers = {c1, c2, c3}
  Chairs = 2
INVARIANTS
  TypeOK
  ChairAccounting
  OneHaircutAtATime
  SleepingBarberCanBeWoken
PROPERTY ShopEmpties
CHECK_DEADLOCK FALSE

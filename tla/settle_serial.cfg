SPECIFICATION SettlementSpec
CONSTANTS
  o1 = o1
  o2 = o2
  r1 = r1
  r2 = r2
  Orders = {o1, o2}
  Restaurants = {r1, r2}
  RestaurantOf <- TwoRestaurants
  Driven = {o1, o2}
  Cash = {o1, o2}
  DebtOf <- Debts
  DebtLimit = 100
  Calls = {c1}
  NoCall = NoCall
  Paths = {"api", "firebase"}
  FailingSteps = {"guard", "split", "points", "txGuard", "txRows", "txDriver", "txCommit"}
  MaxStarts = 4
CHECK_DEADLOCK FALSE
INVARIANTS SettledOnce DebtIsInLedger
PROPERTY SuspendedAtLimit

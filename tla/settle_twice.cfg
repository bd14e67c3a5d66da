SPECIFICATION SettlementSpec
CONSTANTS
  o1 = o1
  o2 = o2
  r1 = r1
  r2 = r2
  Orders = {o1, o2}
  Restaurants = {r1, r2}
  RestaurantOf <- TwoRestaurants
  Driven = {o1, o2}
  Cash = {}
  DebtOf <- Debts
  DebtLimit = 100
  Calls = {c1, c2}
  NoCall = NoCall
  Paths = {"api"}
  FailingSteps = {}
  MaxStarts = 2
CHECK_DEADLOCK FALSE
INVARIANT SettledOnce

SPECIFICATION FairSettlementSpec
CONSTANTS
  o1 = o1
  o2 = o2
  r1 = r1
  r2 = r2
  Orders = {o1, o2}
  Restaurants = {r1, r2}
  RestaurantOf <- TwoRestaurants
  Driven = {o1, o2}
  Cash = {o1}
  DebtOf <- Debts
  DebtLimit = 100
  Calls = {c1, c2}
  NoCall = NoCall
  Paths = {"api", "firebase"}
  FailingSteps = {}
  MaxStarts = 3
CHECK_DEADLOCK FALSE
INVARIANTS OwnerEntriesBackCredits SettlementInv
PROPERTY EventuallySettled

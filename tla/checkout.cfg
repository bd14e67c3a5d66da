SPECIFICATION FairSpec
CONSTANTS
  d1 = d1
  d2 = d2
  d3 = d3
  r1 = r1
  r2 = r2
  Customers = {c1}
  Lanes = {1}
  Restaurants = {r1, r2}
  NoRestaurant = NoRestaurant
  Dishes = {d1, d2, d3}
  RestaurantOf <- TwoMenus
  Rows = {1, 2}
  Orders = {1, 2}
  Methods = {"WALLET", "CARD"}
  MaxQuantity = 1
  MaxCharges = 1
  MaxPromotions = 2
  Fees = 1
  Discount = 1
  minOrderAmount = 1
  usageLimit = 2
  userUsageLimit = 1
  Opening = 3
  Targets = {"CONFIRMED", "CANCELLED"}
  Scenarios <- MCScenarios
  FailingSteps = {"put", "unset", "purchase", "pay", "increment"}
CHECK_DEADLOCK FALSE
INVARIANTS CartOfOneRestaurant WalletInv RefundedAsPaid PromotionInv
PROPERTY CancelledIsRefunded

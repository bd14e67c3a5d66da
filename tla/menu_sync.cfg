CONSTANTS
  r = r
  s = s
  i = i
  Restaurants = {r}
  Sections = {s}
  Items = {i}
  Parent <- MCParent
  Contents = {1, 2}
  Scenarios <- MCScenarios
SPECIFICATION MenuSpec
CHECK_DEADLOCK FALSE
INVARIANTS MenuInv LastInputWins
PROPERTY EventuallySettled

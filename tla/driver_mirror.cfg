CONSTANTS
  Calls = {c1, c2}
  Scenarios <- MCScenarios
SPECIFICATION Spec
CHECK_DEADLOCK FALSE
INVARIANTS MirrorInv PaymentsArrive RidesPayOnce RowFollowsRide
PROPERTY EventuallyAtRest

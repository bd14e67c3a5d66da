CONSTANTS
  Sessions = {s1}
  Scenarios <- MCScenarios
SPECIFICATION Spec
CHECK_DEADLOCK FALSE
INVARIANTS AccountsInv LastInputWins
PROPERTIES EventuallyAgree TokensRunOut

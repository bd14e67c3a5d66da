CONSTANTS
  a1 = a1
  a2 = a2
  Deciders = {a1, a2}
  AdminStatuses = {"ACTIVE", "SUSPENDED", "PENDING_VERIFICATION"}
  AppStatuses = {"PENDING"}
  MaxMoves = 3
  MaxFaults = 1
SYMMETRY Symmetry
SPECIFICATION StatusSpec
CHECK_DEADLOCK FALSE
INVARIANTS StandingInv DecisionStands

SPECIFICATION Spec
CONSTANTS
  Keys = {k1, k2, k3}
  Adjustments = {m1}
  Withdrawals = {w1}
  Amounts <- RequestAmounts
  Opening = 2
  OpeningPending = 1
  Users = {u1}
  Admins = {a1}
  Operations = {"approvals", "processPayout", "adjust"}
  FailingSteps = {"user", "balance", "velocity", "batch", "execute", "approve", "reject", "withdraw"}
CHECK_DEADLOCK FALSE
INVARIANTS TypeOK MoneyIsAccounted OnePayoutPerDay OverdrawnOnlyByAdmins DecisionInLedger

SPECIFICATION FairSpec
CONSTANTS
  Drivers = {d1, d2}
  NoDriver = NoDriver
  Requests = {q1, q2}
  Tasks = {t1, t2}
  Scenarios <- MCScenarios
CHECK_DEADLOCK FALSE
INVARIANT DispatchInv
PROPERTIES LateAcceptanceRejected ForgottenRequestsExpire

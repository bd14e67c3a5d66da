SPECIFICATION FairSpec
CONSTANTS
  Drivers = {d1, d2}
  NoDriver = NoDriver
  Tasks = {t1, t2}
  Listeners = {l1}
  AppStatuses <- AppStatusKinds
  Scenarios <- MCScenarios
CHECK_DEADLOCK FALSE
INVARIANTS TypeOK Converged DriverConverged
PROPERTIES EventuallyQuiet ImplementsLifecycle

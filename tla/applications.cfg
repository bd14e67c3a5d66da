SPECIFICATION FairSpec
CONSTANTS
  Users = {u1}
  Admins = {a1, a2}
  Overlapping = {"onboarding"}
  RowKinds = {"driver", "vendor"}
  FailingSteps = {"mark", "accept", "activate", "ownerrole", "ownerdoc", "restaurantdoc", "driverdoc",
                  "vendorstatus", "statusdoc", "refresh", "applied", "begin", "sync", "commit", "late"}
CHECK_DEADLOCK FALSE
INVARIANT ApplicationsInv
PROPERTY DecisionsEnd

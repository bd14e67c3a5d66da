--------------------------- MODULE MCDriverMirror ---------------------------
\* Two calls at a time, of one driver and one ride, which is yet to be created ("new") or
\* begins accepted.
EXTENDS DriverMirror

Named(ss) == { [ status |-> s, driver |-> FALSE ] : s \in ss }
Acceptance == { [ status |-> "accepted", driver |-> TRUE ] }

Scenario(operations, begins, updates, pace, n, f) ==
  [ operations |-> operations, accepted |-> begins = "accepted", updates |-> updates,
    pace |-> pace, inputs |-> n, faults |-> f ]

MCScenarios ==
  { Scenario({"ride", "patch"}, "new", Named(Statuses \cup { "unnamed" }) \cup Acceptance, "serial", 5, 0),
    Scenario({"ride", "adjust"}, "accepted", Named({ "completed", "cancelled" }), "quiet", 5, 0),
    Scenario({"ride", "delivered", "profile", "ping"}, "accepted", Named({ "completed" }), "quiet", 4, 0),
    Scenario({"ride", "ping"}, "accepted", Named({ "completed" }), "overlapping", 3, 0),
    Scenario({"adjust", "delivered", "settled", "profile", "setwallet", "ping"}, "new", {}, "overlapping", 2, 0),
    Scenario({"delivered", "settled", "jobs"}, "new", {}, "serial", 2, 1),
    Scenario({"ride", "adjust", "jobs"}, "accepted", Named({ "completed" }), "serial", 2, 1),
    Scenario({"ride", "patch"}, "new", Named({ "completed" }) \cup Acceptance, "overlapping", 3, 2) }
=============================================================================

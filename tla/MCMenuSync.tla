----------------------------- MODULE MCMenuSync -----------------------------
\* One restaurant with a section of one item, which is there at the beginning or is yet
\* to be created.
EXTENDS MenuSync, TLC

CONSTANTS r, s, i

MCParent == (s :> r) @@ (i :> s)

Scenario(operations, existing, n, f, late) ==
  [ operations |-> operations, existing |-> existing, inputs |-> n, faults |-> f, rushed |-> late ]

MCScenarios ==
  { Scenario({"api", "app"}, {}, 3, 0, 0),
    Scenario({"app", "jobs"}, {}, 2, 0, 0),
    Scenario({"api", "app"}, {r, s}, 2, 1, 0),
    Scenario({"api", "app"}, {r, s, i}, 2, 1, 0),
    Scenario({"api", "app", "admin"}, {r, s, i}, 2, 0, 0),
    Scenario({"api", "app", "jobs"}, {r, s, i}, 1, 1, 1),
    Scenario({"api", "app", "jobs"}, {r, s}, 1, 1, 0),
    Scenario({"api", "jobs"}, {r, s}, 2, 0, 0) }
=============================================================================

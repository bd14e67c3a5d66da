----------------------------- MODULE MCAccounts -----------------------------
\* The account of a driver, a vendor or a customer, which is there or is yet to be made.
EXTENDS Accounts

Scenario(operations, begin, role, shop, n, f, late, behind) ==
  [ operations |-> operations, begin |-> begin, role |-> role, restaurant |-> shop,
    inputs |-> n, faults |-> f, rushed |-> late, behind |-> behind ]

MCScenarios ==
  { Scenario({"refresh", "status", "delete", "job"}, "linked", "DRIVER", "none", 1, 1, 0, 0),
    Scenario({"refresh", "login", "role"}, "linked", "DRIVER", "none", 2, 0, 0, 0),
    Scenario({"refresh", "login", "status"}, "linked", "DRIVER", "none", 1, 0, 0, 0),
    Scenario({"login", "status", "job"}, "linked", "DRIVER", "none", 1, 1, 0, 0),
    Scenario({"login", "profile", "role", "social"}, "linked", "VENDOR", "shop", 1, 0, 0, 0),
    Scenario({"register", "login", "oauth"}, "nobody", "VENDOR", "unset", 0, 1, 0, 0),
    Scenario({"register", "status"}, "nobody", "DRIVER", "unset", 1, 0, 0, 0),
    Scenario({"register", "job"}, "nobody", "DRIVER", "unset", 0, 1, 0, 0),
    Scenario({"app", "remove", "password", "job"}, "signedUp", "DRIVER", "none", 1, 0, 1, 0),
    Scenario({"app", "login"}, "signedUp", "DRIVER", "none", 1, 0, 0, 0),
    Scenario({"app", "social"}, "signedUp", "DRIVER", "none", 1, 0, 0, 0),
    Scenario({"remove", "job"}, "linked", "DRIVER", "none", 1, 1, 0, 0),
    Scenario({"role", "job"}, "customer", "DRIVER", "none", 1, 1, 0, 0),
    Scenario({"role", "social", "job"}, "customer", "DRIVER", "none", 1, 0, 0, 0) }
=============================================================================

----------------------------- MODULE MCCheckout -----------------------------
(***************************************************************************)
(* The instance of Checkout for TLC: one customer, one call at a time, two *)
(* dishes of one restaurant and one of another, so that the cart could be  *)
(* mixed, and two orders, so that the second can try the promotion again.  *)
(***************************************************************************)
EXTENDS Checkout

CONSTANTS d1, d2, d3, r1, r2

TwoMenus == [ d \in Dishes |-> IF d = d3 THEN r2 ELSE r1 ]

Scenario(operations, dishes) == [ operations |-> operations, dishes |-> dishes ]

MCScenarios ==
  { Scenario({ "add", "edit", "checkout" }, { d1, d2, d3 }),
    Scenario({ "add", "checkout", "promotion", "cancel" }, { d1, d3 }),
    Scenario({ "add", "checkout", "promotion", "initiate" }, { d1 }),
    Scenario({ "add", "checkout", "cancel", "vendor", "initiate" }, { d1 }),
    Scenario({ "add", "edit", "checkout", "cancel", "initiate" }, { d1, d3 }) }
=============================================================================

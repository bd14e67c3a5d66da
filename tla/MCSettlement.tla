---------------------------- MODULE MCSettlement ----------------------------
(***************************************************************************)
(* Instances of Settlement for TLC: one cash and one online order of two   *)
(* restaurants, or two cash orders that together take the driver's debt    *)
(* over a limit neither of them reaches alone.                             *)
(***************************************************************************)
EXTENDS Settlement, TLC

CONSTANTS o1, o2, r1, r2

TwoRestaurants == (o1 :> r1) @@ (o2 :> r2)
Debts == [ o \in Orders |-> 60 ]
=============================================================================

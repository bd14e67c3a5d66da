--------------------------- MODULE OrderLifecycle ---------------------------
(***************************************************************************)
(* What the order state machine promises of an order, whoever asks: it is  *)
(* created PENDING and every change of its status is one that              *)
(* OrderStateMachineService.allowedTransitions lists.  OrderSync is        *)
(* checked, and proved, to implement this where requests do not overlap    *)
(* and the order has no Firestore document.                                *)
(***************************************************************************)
EXTENDS OrderStatus

VARIABLE status

Init == status = "PENDING"

Next == \E to \in allowedTransitions[status] : status' = to

Spec == Init /\ [][Next]_status
=============================================================================

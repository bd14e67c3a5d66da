----------------------------- MODULE OrderStatus -----------------------------
(***************************************************************************)
(* The status vocabulary of an order and the pure rules over it:           *)
(*   - OrderStateMachineService: which transition is allowed, and by whom; *)
(*   - the two mappings between a PostgreSQL status and the status string  *)
(*     of the Firestore document, which are not inverse to each other.     *)
(* There is no state here; OrderSync, Dispatch and OrderLifecycle use it.  *)
(***************************************************************************)

OrderStatuses ==
  { "PENDING", "CONFIRMED", "PREPARING", "READY", "READY_FOR_PICKUP",
    "PICKED_UP", "IN_TRANSIT", "ARRIVED", "IN_PROGRESS", "OUT_FOR_DELIVERY",
    "RETURNED", "DELIVERED", "CANCELLED" }

\* The null of both mappings, and the status of a row that is not created yet.
NoStatus == "NO_STATUS"

Roles == { "SUPERADMIN", "ADMIN", "VENDOR", "DRIVER", "CUSTOMER" }

\* What the @Roles decorator of PATCH vendor/orders/:id/status lets through.
StaffRoles == { "SUPERADMIN", "ADMIN", "VENDOR", "DRIVER" }

(***************************************************************************)
(* OrderStateMachineService                                                *)
(***************************************************************************)
allowedTransitions ==
  [ PENDING          |-> { "CONFIRMED", "CANCELLED" },
    CONFIRMED        |-> { "PREPARING", "READY", "PICKED_UP", "ARRIVED", "CANCELLED" },
    PREPARING        |-> { "READY", "PICKED_UP", "ARRIVED", "CANCELLED" },
    READY            |-> { "READY_FOR_PICKUP", "PICKED_UP", "ARRIVED", "OUT_FOR_DELIVERY" },
    READY_FOR_PICKUP |-> { "PICKED_UP", "ARRIVED", "OUT_FOR_DELIVERY" },
    PICKED_UP        |-> { "OUT_FOR_DELIVERY", "IN_TRANSIT", "ARRIVED", "DELIVERED" },
    IN_TRANSIT       |-> { "ARRIVED", "DELIVERED" },
    ARRIVED          |-> { "PICKED_UP", "OUT_FOR_DELIVERY", "DELIVERED" },
    IN_PROGRESS      |-> { "OUT_FOR_DELIVERY", "CANCELLED" },
    OUT_FOR_DELIVERY |-> { "ARRIVED", "DELIVERED", "CANCELLED" },
    RETURNED         |-> {},
    DELIVERED        |-> {},
    CANCELLED        |-> {} ]

\* The roles that may move an order to a status, whatever it moves from.
AuthorisedRoles(to) ==
  CASE to \in { "CONFIRMED", "PREPARING", "READY", "READY_FOR_PICKUP" }
         -> { "VENDOR", "ADMIN", "SUPERADMIN" }
    [] to \in { "PICKED_UP", "IN_TRANSIT", "ARRIVED", "IN_PROGRESS",
                "OUT_FOR_DELIVERY", "DELIVERED" }
         -> { "DRIVER", "ADMIN", "SUPERADMIN" }
    [] to = "CANCELLED" -> { "CUSTOMER", "VENDOR", "ADMIN", "SUPERADMIN" }
    [] OTHER -> {}

canTransition(from, to, userRole) ==
  /\ to \in allowedTransitions[from]
  /\ userRole \in AuthorisedRoles(to)

\* Mutant: only the role is looked at.
validateRoleOnly(from, to, userRole) == from = to \/ userRole \in AuthorisedRoles(to)

\* TRUE where the method returns, FALSE where it throws BadRequestException.
validateTransition(from, to, userRole) ==
  from = to \/ canTransition(from, to, userRole)

FinalStatuses == { s \in OrderStatuses : allowedTransitions[s] = {} }

(***************************************************************************)
(* The two mappings of FirebaseSyncService                                 *)
(***************************************************************************)
FirebaseStatuses ==
  { "pending", "accepted", "preparing", "ready", "ready_for_pickup", "picked_up",
    "in_transit", "arrived", "on_the_way", "out_for_delivery", "delivered",
    "cancelled", "unknown" }

\* Mutant: the switch is forgotten.
toFirebaseStatusAsIs(newStatus) == newStatus

\* updateFirebaseOrderStatus: what a PostgreSQL status is written as.  Every
\* status the switch does not name keeps the initial value 'pending'.
toFirebaseStatus(newStatus) ==
  CASE newStatus = "CONFIRMED"        -> "accepted"
    [] newStatus = "PREPARING"        -> "preparing"
    [] newStatus = "READY"            -> "ready"
    [] newStatus = "OUT_FOR_DELIVERY" -> "on_the_way"
    [] newStatus = "DELIVERED"        -> "delivered"
    [] newStatus = "CANCELLED"        -> "cancelled"
    [] OTHER                          -> "pending"

\* What a status string found in a Firestore document is read as; null for a
\* string the switch does not know.
mapFirebaseToPostgresStatus(firebaseStatus) ==
  CASE firebaseStatus = "pending"          -> "PENDING"
    [] firebaseStatus = "accepted"         -> "CONFIRMED"
    [] firebaseStatus = "preparing"        -> "PREPARING"
    [] firebaseStatus = "ready"            -> "READY"
    [] firebaseStatus = "ready_for_pickup" -> "READY_FOR_PICKUP"
    [] firebaseStatus = "picked_up"        -> "PICKED_UP"
    [] firebaseStatus = "in_transit"       -> "IN_TRANSIT"
    [] firebaseStatus = "arrived"          -> "ARRIVED"
    [] firebaseStatus \in { "on_the_way", "out_for_delivery" } -> "OUT_FOR_DELIVERY"
    [] firebaseStatus = "delivered"        -> "DELIVERED"
    [] firebaseStatus = "cancelled"        -> "CANCELLED"
    [] OTHER                               -> NoStatus
=============================================================================

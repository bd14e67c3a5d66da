---------------------------- MODULE MCOrderSync ----------------------------
(***************************************************************************)
(* The instance of OrderSync for TLC: an app order under all that two      *)
(* concurrent calls and the apps do to it; one whose customer cancels it   *)
(* over HTTP while writes to Firestore fail; and an order placed through   *)
(* the API over its whole life, one request at a time.  No symmetry is     *)
(* declared, because the run also checks liveness.                         *)
(***************************************************************************)
EXTENDS OrderSync

\* One status of each kind an app may write: one that is echoed back as it is,
\* one whose push is 'pending', a final one, and one the mapping does not know.
AppStatusKinds == { "on_the_way", "picked_up", "delivered", "unknown" }

Scenario(origin, operations, serial, fails, n) ==
  [ origin |-> origin, operations |-> operations, serial |-> serial, pushMayFail |-> fails, inputs |-> n ]

MCScenarios ==
  { Scenario("app", { "updateStatus", "acceptDelivery" }, FALSE, FALSE, 3),
    Scenario("synced", AllOperations, FALSE, TRUE, 3),
    Scenario("checkout", AllOperations, TRUE, TRUE, 8) }
=============================================================================

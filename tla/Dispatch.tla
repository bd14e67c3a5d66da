------------------------------ MODULE Dispatch ------------------------------
(***************************************************************************)
(* Finding a driver for one order.  An offer to a driver is a row of       *)
(* delivery_requests in PostgreSQL and a document of deliveryRequests in   *)
(* Firestore.  The driver answers over HTTP (DriversService.acceptRequest, *)
(* rejectRequest) or by writing the document, which a listener turns into  *)
(* FirebaseSyncService.handleDriverAcceptance; an hourly job expires what  *)
(* nobody answered.  An await is a step boundary.                          *)
(*                                                                         *)
(* Of the order only the driver is kept, and whether its status still      *)
(* allows an assignment; the statuses themselves, and the driverId an app  *)
(* writes into the order document, are in OrderSync.                       *)
(***************************************************************************)
EXTENDS Integers, FiniteSets

CONSTANTS
  Drivers,     \* driver profiles
  NoDriver,    \* the null of driverId
  Requests,    \* the rows of delivery_requests that may come to exist
  Tasks,       \* slots for concurrent HTTP calls and listener callbacks
  Scenarios    \* which answers are given, and whether they may overlap

AllOperations == { "acceptRequest", "rejectRequest", "firebaseAccept" }

ASSUME DispatchAssumption ==
  /\ NoDriver \notin Drivers
  /\ Requests # {}
  /\ Scenarios \subseteq [ answers : SUBSET AllOperations, overlap : BOOLEAN ]

VARIABLES
  scenario,     \* the member of Scenarios this behaviour is of
  request,      \* per row: its driver, its status, and whether expiresAt has passed
  offer,        \* per driver: the status in the Firestore document of the offer
  outbox,       \* drivers whose document is still to be written
  notices,      \* drivers whose acceptance the listener has still to hear of
  orderDriver,  \* order.driverId
  assignable,   \* is the status of the order one that allows an assignment?
  stats,        \* per driver: totalAccepted, totalRejected, acceptanceRate
  task          \* the calls and callbacks in progress

vars == << scenario, request, offer, outbox, notices, orderDriver, assignable, stats, task >>

Statuses == { "NONE", "PENDING", "ACCEPTED", "REJECTED", "EXPIRED" }

\* The rate is modelled by the two totals it was last computed from.
Stats == [ accepted : Nat, rejected : Nat, rate : Nat \X Nat ]

TaskStates ==
  [ pc : { "idle", "accept", "assign", "others", "count", "reject", "countReject",
           "rate", "fbAssign", "fbOwn", "fbOthers" },
    driver : Drivers \cup { NoDriver }, request : Requests, totals : Nat \X Nat ]

IdleTask == [ pc |-> "idle", driver |-> NoDriver,
              request |-> CHOOSE q \in Requests : TRUE, totals |-> << 0, 0 >> ]

TypeOK ==
  /\ scenario \in Scenarios
  /\ request \in [ Requests -> [ driver : Drivers \cup { NoDriver }, status : Statuses,
                                 late : BOOLEAN ] ]
  /\ offer \in [ Drivers -> { "none", "pending", "accepted" } ]
  /\ outbox \subseteq Drivers
  /\ notices \subseteq Drivers
  /\ orderDriver \in Drivers \cup { NoDriver }
  /\ assignable \in BOOLEAN
  /\ stats \in [ Drivers -> Stats ]
  /\ task \in [ Tasks -> TaskStates ]

Init ==
  /\ scenario \in Scenarios
  /\ request = [ q \in Requests |-> [ driver |-> NoDriver, status |-> "NONE", late |-> FALSE ] ]
  /\ offer = [ d \in Drivers |-> "none" ]
  /\ outbox = {}
  /\ notices = {}
  /\ orderDriver = NoDriver
  /\ assignable = TRUE
  /\ stats = [ d \in Drivers |-> [ accepted |-> 0, rejected |-> 0, rate |-> << 0, 0 >> ] ]
  /\ task = [ t \in Tasks |-> IdleTask ]

(***************************************************************************)
(* Helpers                                                                 *)
(***************************************************************************)
At(t, pc) == task[t].pc = pc
Goto(t, pc) == task' = [ task EXCEPT ![t].pc = pc ]

\* A slot is free for an answer.
MayStart(t) == At(t, "idle") /\ (scenario.overlap \/ \A u \in Tasks : At(u, "idle"))

Finish(t) == task' = [ task EXCEPT ![t] = IdleTask ]

\* updateMany({ where, data: { status } }): one statement.
SetStatus(rows, status) ==
  request' = [ q \in Requests |->
    IF q \in rows THEN [ request[q] EXCEPT !.status = status ] ELSE request[q] ]

RowsOf(d) == { q \in Requests : request[q].driver = d }
Pending == { q \in Requests : request[q].status = "PENDING" }

(***************************************************************************)
(* OrdersService.requestDriver, and each of the rows assignDriversToOrder  *)
(* creates in parallel.  Neither looks at the status of the order, at its  *)
(* driver, or at earlier requests.                                         *)
(***************************************************************************)
RequestDriver(q, d) ==
  /\ request[q].status = "NONE"
  /\ request' = [ request EXCEPT ![q] = [ driver |-> d, status |-> "PENDING", late |-> FALSE ] ]
  /\ outbox' = outbox \cup { d }
  /\ UNCHANGED << scenario, offer, notices, orderDriver, assignable, stats, task >>

\* Mutant: the document gets the status of the row, in its spelling.
CreateDeliveryRequestUppercase(d) ==
  /\ d \in outbox
  /\ offer' = [ offer EXCEPT ![d] = "PENDING" ]
  /\ outbox' = outbox \ { d }
  /\ UNCHANGED << scenario, request, notices, orderDriver, assignable, stats, task >>

\* createDeliveryRequestInFirebase: a set of the document <order>_<driver>, in
\* the background; it overwrites an earlier answer.
CreateDeliveryRequestInFirebase(d) ==
  /\ d \in outbox
  /\ offer' = [ offer EXCEPT ![d] = "pending" ]
  /\ outbox' = outbox \ { d }
  /\ UNCHANGED << scenario, request, notices, orderDriver, assignable, stats, task >>

(***************************************************************************)
(* DriversService.acceptRequest                                            *)
(***************************************************************************)
AcceptRead(t, q) ==
  /\ "acceptRequest" \in scenario.answers
  /\ MayStart(t)
  /\ request[q].status = "PENDING"
  /\ ~request[q].late
  /\ task' = [ task EXCEPT ![t] =
       [ IdleTask EXCEPT !.pc = "accept", !.driver = request[q].driver, !.request = q ] ]
  /\ UNCHANGED << scenario, request, offer, outbox, notices, orderDriver, assignable, stats >>

AcceptWrite(t) ==
  /\ At(t, "accept")
  /\ SetStatus({ task[t].request }, "ACCEPTED")
  /\ Goto(t, "assign")
  /\ UNCHANGED << scenario, offer, outbox, notices, orderDriver, assignable, stats >>

AcceptAssign(t) ==
  /\ At(t, "assign")
  /\ orderDriver' = task[t].driver
  /\ Goto(t, "others")
  /\ UNCHANGED << scenario, request, offer, outbox, notices, assignable, stats >>

AcceptOthers(t) ==
  /\ At(t, "others")
  /\ SetStatus(Pending \ { task[t].request }, "EXPIRED")
  /\ Goto(t, "count")
  /\ UNCHANGED << scenario, offer, outbox, notices, orderDriver, assignable, stats >>

AcceptCount(t) ==
  /\ At(t, "count")
  /\ stats' = [ stats EXCEPT ![task[t].driver].accepted = @ + 1 ]
  /\ Finish(t)
  /\ UNCHANGED << scenario, request, offer, outbox, notices, orderDriver, assignable >>

(***************************************************************************)
(* DriversService.rejectRequest, whatever the status of the request        *)
(***************************************************************************)
RejectRead(t, q) ==
  /\ "rejectRequest" \in scenario.answers
  /\ MayStart(t)
  /\ request[q].status \notin { "NONE", "REJECTED" }   \* bound: each row is rejected once
  /\ task' = [ task EXCEPT ![t] =
       [ IdleTask EXCEPT !.pc = "reject", !.driver = request[q].driver, !.request = q ] ]
  /\ UNCHANGED << scenario, request, offer, outbox, notices, orderDriver, assignable, stats >>

RejectWrite(t) ==
  /\ At(t, "reject")
  /\ SetStatus({ task[t].request }, "REJECTED")
  /\ Goto(t, "countReject")
  /\ UNCHANGED << scenario, offer, outbox, notices, orderDriver, assignable, stats >>

\* Mutant: the totals from before the update go into the rate.
RejectCountBefore(t) ==
  /\ At(t, "countReject")
  /\ LET s == stats[task[t].driver] IN
       /\ stats' = [ stats EXCEPT ![task[t].driver].rejected = @ + 1 ]
       /\ task' = [ task EXCEPT ![t].pc = "rate",
                                ![t].totals = << s.accepted, s.rejected >> ]
  /\ UNCHANGED << scenario, request, offer, outbox, notices, orderDriver, assignable >>

\* The update returns the totals the rate is computed from.
RejectCount(t) ==
  /\ At(t, "countReject")
  /\ LET s == stats[task[t].driver] IN
       /\ stats' = [ stats EXCEPT ![task[t].driver].rejected = @ + 1 ]
       /\ task' = [ task EXCEPT ![t].pc = "rate",
                                ![t].totals = << s.accepted, s.rejected + 1 >> ]
  /\ UNCHANGED << scenario, request, offer, outbox, notices, orderDriver, assignable >>

RejectRate(t) ==
  /\ At(t, "rate")
  /\ stats' = [ stats EXCEPT ![task[t].driver].rate = task[t].totals ]
  /\ Finish(t)
  /\ UNCHANGED << scenario, request, offer, outbox, notices, orderDriver, assignable >>

(***************************************************************************)
(* Acceptance through Firestore                                            *)
(***************************************************************************)
\* The driver app (external).
AppAccepts(d) ==
  /\ "firebaseAccept" \in scenario.answers
  /\ offer[d] = "pending"
  /\ offer' = [ offer EXCEPT ![d] = "accepted" ]
  /\ notices' = notices \cup { d }
  /\ UNCHANGED << scenario, request, outbox, orderDriver, assignable, stats, task >>

\* Mutant: nobody looks whether the order has a driver.
FirebaseAcceptReadStatusOnly(t, d) ==
  /\ MayStart(t)
  /\ d \in notices
  /\ notices' = notices \ { d }
  /\ IF assignable
     THEN task' = [ task EXCEPT ![t] = [ IdleTask EXCEPT !.pc = "fbAssign", !.driver = d ] ]
     ELSE UNCHANGED task
  /\ UNCHANGED << scenario, request, offer, outbox, orderDriver, assignable, stats >>

\* FirebaseSyncService.handleDriverAcceptance: reads the order, and ignores a
\* late acceptance and an order that has moved on.
FirebaseAcceptRead(t, d) ==
  /\ MayStart(t)
  /\ d \in notices
  /\ notices' = notices \ { d }
  /\ IF orderDriver = NoDriver /\ assignable
     THEN task' = [ task EXCEPT ![t] = [ IdleTask EXCEPT !.pc = "fbAssign", !.driver = d ] ]
     ELSE UNCHANGED task
  /\ UNCHANGED << scenario, request, offer, outbox, orderDriver, assignable, stats >>

\* Mutant: the update of the order leaves driverId out.
FirebaseAssignStatusOnly(t) ==
  /\ At(t, "fbAssign")
  /\ Goto(t, "fbOwn")
  /\ UNCHANGED << scenario, request, offer, outbox, notices, orderDriver, assignable, stats >>

FirebaseAssign(t) ==
  /\ At(t, "fbAssign")
  /\ orderDriver' = task[t].driver
  /\ Goto(t, "fbOwn")
  /\ UNCHANGED << scenario, request, offer, outbox, notices, assignable, stats >>

\* Mutant: only a row that is still pending is accepted.
FirebaseOwnPending(t) ==
  /\ At(t, "fbOwn")
  /\ SetStatus(RowsOf(task[t].driver) \cap Pending, "ACCEPTED")
  /\ Goto(t, "fbOthers")
  /\ UNCHANGED << scenario, offer, outbox, notices, orderDriver, assignable, stats >>

\* Every row of the driver for this order, whatever its status.
FirebaseOwn(t) ==
  /\ At(t, "fbOwn")
  /\ SetStatus(RowsOf(task[t].driver), "ACCEPTED")
  /\ Goto(t, "fbOthers")
  /\ UNCHANGED << scenario, offer, outbox, notices, orderDriver, assignable, stats >>

\* ... then the push of the status, which is in OrderSync.
FirebaseOthers(t) ==
  /\ At(t, "fbOthers")
  /\ SetStatus(Pending \ RowsOf(task[t].driver), "EXPIRED")
  /\ Finish(t)
  /\ UNCHANGED << scenario, offer, outbox, notices, orderDriver, assignable, stats >>

(***************************************************************************)
(* Time, the hourly job of TasksService, and the rest of the order's life  *)
(***************************************************************************)
TimePasses(q) ==
  /\ q \in Pending
  /\ ~request[q].late
  /\ request' = [ request EXCEPT ![q].late = TRUE ]
  /\ UNCHANGED << scenario, offer, outbox, notices, orderDriver, assignable, stats, task >>

\* Mutant: the comparison with the clock is the wrong way round.
expireFreshRequests ==
  /\ \E q \in Pending : ~request[q].late
  /\ SetStatus({ q \in Pending : ~request[q].late }, "EXPIRED")
  /\ UNCHANGED << scenario, offer, outbox, notices, orderDriver, assignable, stats, task >>

expireDeliveryRequests ==
  /\ \E q \in Pending : request[q].late
  /\ SetStatus({ q \in Pending : request[q].late }, "EXPIRED")
  /\ UNCHANGED << scenario, offer, outbox, notices, orderDriver, assignable, stats, task >>

\* The order is picked up, delivered or cancelled.
OrderMovesOn ==
  /\ assignable
  /\ assignable' = FALSE
  /\ UNCHANGED << scenario, request, offer, outbox, notices, orderDriver, stats, task >>

(***************************************************************************)
(* The specification                                                       *)
(***************************************************************************)
TaskStep(t) ==
  \/ AcceptWrite(t) \/ AcceptAssign(t) \/ AcceptOthers(t) \/ AcceptCount(t)
  \/ RejectWrite(t) \/ RejectCount(t) \/ RejectRate(t)
  \/ FirebaseAssign(t) \/ FirebaseOwn(t) \/ FirebaseOthers(t)
  \/ \E d \in Drivers : FirebaseAcceptRead(t, d)

Next ==
  \/ \E q \in Requests, d \in Drivers : RequestDriver(q, d)
  \/ \E t \in Tasks, q \in Requests : AcceptRead(t, q) \/ RejectRead(t, q)
  \/ \E d \in Drivers : CreateDeliveryRequestInFirebase(d) \/ AppAccepts(d)
  \/ \E t \in Tasks : TaskStep(t)
  \/ \E q \in Requests : TimePasses(q)
  \/ expireDeliveryRequests
  \/ OrderMovesOn

Spec == Init /\ [][Next]_vars

\* The server finishes what it has begun, time passes and the hourly job runs;
\* no vendor has to ask for a driver and no driver has to answer.
Fairness ==
  /\ \A t \in Tasks : WF_vars(TaskStep(t))
  /\ \A d \in Drivers : WF_vars(CreateDeliveryRequestInFirebase(d))
  /\ \A q \in Requests : WF_vars(TimePasses(q))
  /\ WF_vars(expireDeliveryRequests)

FairSpec == Spec /\ Fairness

(***************************************************************************)
(* Properties                                                              *)
(***************************************************************************)
Quiet == \A t \in Tasks : At(t, "idle")

\* Whoever carries the order has an accepted request for it: every assignment
\* goes with an acceptance, in every interleaving of the two ways to accept.  (A
\* rejection by a driver who had accepted would break this.)
AssignedDriverAccepted ==
  Quiet /\ "rejectRequest" \notin scenario.answers /\ orderDriver # NoDriver =>
    \E q \in RowsOf(orderDriver) : request[q].status = "ACCEPTED"

\* Nobody waits in vain: an accepted driver either carries the order or another
\* driver does.
AcceptanceAssigns ==
  Quiet /\ (\E q \in Requests : request[q].status = "ACCEPTED") => orderDriver # NoDriver

\* Once the order has a driver a later acceptance does not replace that driver
\* ("Rejecting late acceptance"), when it came over Firestore and no other overlaps.
LateAcceptanceRejected ==
  [][ ~ scenario.overlap /\ "acceptRequest" \notin scenario.answers /\ orderDriver # NoDriver
        => orderDriver' = orderDriver ]_vars

\* After a rejection the acceptance rate is that of the current rejections, when
\* no two answers overlap.
RateIsCurrent ==
  Quiet /\ ~ scenario.overlap => \A d \in Drivers : stats[d].rate[2] = stats[d].rejected

\* The hourly job reaches every request that was not answered in time.
ForgottenRequestsExpire ==
  \A q \in Requests : [](request[q].status = "PENDING" => <>(request[q].status # "PENDING"))

\* Requests, order and totals fit together whenever no answer is being handled: the driver of
\* the order has accepted, an acceptance has led to a driver, and the rate is current.
DispatchInv == TypeOK /\ AssignedDriverAccepted /\ AcceptanceAssigns /\ RateIsCurrent
=============================================================================

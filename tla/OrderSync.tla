------------------------------ MODULE OrderSync ------------------------------
(***************************************************************************)
(* One order, kept twice: as a PostgreSQL row and, when it was placed from *)
(* the mobile app, as a Firestore document.  The server changes the row in *)
(* HTTP handlers and pushes the status to the document afterwards; the     *)
(* driver and customer apps write the document directly; an onSnapshot     *)
(* listener carries every version of the document back into the row, those *)
(* written by the server itself included.                                  *)
(*                                                                         *)
(* An await is a step boundary: what a handler read before it may be stale *)
(* after it.  Node runs the code between two awaits without interruption.  *)
(*                                                                         *)
(* Left to other modules: the delivery-request table (Dispatch), the money *)
(* moved by a settlement (Settlement), by a payment and a refund (Checkout)*)
(***************************************************************************)
EXTENDS OrderStatus, Integers, Sequences

CONSTANTS
  Drivers,      \* driver profiles
  NoDriver,     \* the null of driverId
  Tasks,        \* slots for concurrent HTTP calls and driver acceptances
  Listeners,    \* slots for concurrent callbacks of the orders listener
  AppStatuses,  \* the status strings the apps write into the document
  Scenarios     \* what an instance has: how the order came about, the operations that are
                \* called, whether requests come one at a time, whether a write to Firestore
                \* may fail, and a bound on the calls, acceptances and app writes

\* "checkout": placed through the API, a row without a document;
\* "app": just placed from the mobile app, a document without a row;
\* "synced": placed from the app, and already carried into PostgreSQL.
Origins == { "checkout", "app", "synced" }

AllOperations == { "updateStatus", "cancelOrder", "acceptDelivery" }

ASSUME OrderSyncAssumption ==
  /\ NoDriver \notin Drivers
  /\ AppStatuses \subseteq FirebaseStatuses
  /\ Scenarios \subseteq
       [ origin : Origins, operations : SUBSET AllOperations, serial : BOOLEAN,
         pushMayFail : BOOLEAN, inputs : Nat ]

VARIABLES
  scenario,   \* the member of Scenarios this behaviour is of
  row,        \* the PostgreSQL order: status and driverId
  doc,        \* the Firestore document: status, driverId, syncedToPostgres
  inbox,      \* versions of doc the listener has not been called with yet
  task,       \* the HTTP calls and acceptances in progress
  handler,    \* the listener callbacks in progress
  launched,   \* how many settlements of the order were started
  inputs      \* how many inputs came from outside, up to the bound

vars == << scenario, row, doc, inbox, task, handler, launched, inputs >>

DriverIds == Drivers \cup { NoDriver }
Rows == [ status : OrderStatuses \cup { NoStatus }, driver : DriverIds ]
Docs == [ status : FirebaseStatuses, driver : DriverIds, synced : BOOLEAN ]

IdleTask == [ pc |-> "idle", target |-> NoStatus, driver |-> NoDriver ]
TaskStates ==
  [ pc : { "idle", "update", "cancel", "check", "assign", "push" },
    target : OrderStatuses \cup { NoStatus }, driver : DriverIds ]

\* The document as the customer app creates it.
FreshDoc == [ status |-> "pending", driver |-> NoDriver, synced |-> FALSE ]

IdleHandler ==
  [ pc |-> "idle", snap |-> FreshDoc, read |-> [ status |-> NoStatus, driver |-> NoDriver ] ]
HandlerStates ==
  [ pc : { "idle", "upsert", "mark", "read", "force", "driver" },
    snap : Docs, read : Rows ]

\* Has the order a Firestore document (firebaseOrderId)?
Mirrored == scenario.origin # "checkout"

TypeOK ==
  /\ scenario \in Scenarios
  /\ row \in Rows
  /\ doc \in Docs
  /\ inbox \in Seq(Docs)
  /\ task \in [ Tasks -> TaskStates ]
  /\ handler \in [ Listeners -> HandlerStates ]
  /\ launched \in Nat
  /\ inputs \in 0..scenario.inputs

Init ==
  /\ scenario \in Scenarios
  /\ row = [ status |-> IF scenario.origin = "app" THEN NoStatus ELSE "PENDING", driver |-> NoDriver ]
  /\ doc = [ FreshDoc EXCEPT !.synced = (scenario.origin = "synced") ]
  /\ inbox = IF scenario.origin = "app" THEN << FreshDoc >> ELSE << >>
  /\ task = [ t \in Tasks |-> IdleTask ]
  /\ handler = [ l \in Listeners |-> IdleHandler ]
  /\ launched = 0
  /\ inputs = 0

(***************************************************************************)
(* Helpers                                                                 *)
(***************************************************************************)
Input == inputs < scenario.inputs /\ inputs' = inputs + 1

\* A request of this kind comes to the slot.
Request(t, operation) ==
  /\ operation \in scenario.operations
  /\ task[t].pc = "idle"
  /\ scenario.serial => \A u \in Tasks : task[u].pc = "idle"
  /\ Input

\* A write to the document: the listener is called with the new version.
WriteDoc(d) == doc' = d /\ inbox' = Append(inbox, d)

\* handleDelivered and handleOrderDeliveredInternal start when a handler has
\* written DELIVERED.
Launch(target) == launched' = IF target = "DELIVERED" THEN launched + 1 ELSE launched

Become(t, state) == task' = [ task EXCEPT ![t] = state ]

(***************************************************************************)
(* OrdersService.updateStatus: read and validate, then write               *)
(* unconditionally, then push in the background                            *)
(***************************************************************************)
UpdateStatusRead(t) ==
  /\ Request(t, "updateStatus")
  /\ row.status # NoStatus
  /\ \E target \in OrderStatuses, role \in StaffRoles :
       /\ validateTransition(row.status, target, role)
       /\ Become(t, [ IdleTask EXCEPT !.pc = "update", !.target = target ])
  /\ UNCHANGED << scenario, row, doc, inbox, handler, launched >>

UpdateStatusWrite(t) ==
  /\ task[t].pc = "update"
  /\ row' = [ row EXCEPT !.status = task[t].target ]
  /\ Launch(task[t].target)
  /\ Become(t, [ task[t] EXCEPT !.pc = "push" ])
  /\ UNCHANGED << scenario, doc, inbox, handler, inputs >>

\* FirebaseSyncService.updateFirebaseOrderStatus, for a call that has written
\* the row.  Without a firebaseOrderId it only logs.
PushStatus(t) ==
  /\ task[t].pc = "push"
  /\ \/ Mirrored /\ WriteDoc([ doc EXCEPT !.status = toFirebaseStatus(task[t].target) ])
     \/ (~Mirrored \/ scenario.pushMayFail) /\ UNCHANGED << doc, inbox >>
  /\ Become(t, IdleTask)
  /\ UNCHANGED << scenario, row, handler, launched, inputs >>

(***************************************************************************)
(* OrdersService.cancelOrder, which pushes nothing (its refund is in       *)
(* Checkout)                                                               *)
(***************************************************************************)
CancelOrderRead(t) ==
  /\ Request(t, "cancelOrder")
  /\ row.status \in { "PENDING", "CONFIRMED" }
  /\ Become(t, [ IdleTask EXCEPT !.pc = "cancel" ])
  /\ UNCHANGED << scenario, row, doc, inbox, handler, launched >>

CancelOrderWrite(t) ==
  /\ task[t].pc = "cancel"
  /\ row' = [ row EXCEPT !.status = "CANCELLED" ]
  /\ Become(t, IdleTask)
  /\ UNCHANGED << scenario, doc, inbox, handler, launched, inputs >>

(***************************************************************************)
(* FirebaseSyncService.handleDriverAcceptance, called by the listener on   *)
(* deliveryRequests when a driver app accepts.  It pushes CONFIRMED        *)
(* whatever status the order is in.                                        *)
(***************************************************************************)
AcceptDelivery(t, d) ==
  /\ Request(t, "acceptDelivery")
  /\ row.status # NoStatus
  /\ Become(t, [ IdleTask EXCEPT !.pc = "check", !.driver = d ])
  /\ UNCHANGED << scenario, row, doc, inbox, handler, launched >>

allowedForAssignment == { "PENDING", "CONFIRMED", "PREPARING", "READY", "READY_FOR_PICKUP" }

\* Late acceptances and orders already under way are ignored.
AcceptanceCheck(t) ==
  /\ task[t].pc = "check"
  /\ Become(t, IF row.driver = NoDriver /\ row.status \in allowedForAssignment
               THEN [ task[t] EXCEPT !.pc = "assign", !.target = row.status ]
               ELSE IdleTask)
  /\ UNCHANGED << scenario, row, doc, inbox, handler, launched, inputs >>

\* target holds the status that was read: only a PENDING order is confirmed.
AcceptanceAssign(t) ==
  /\ task[t].pc = "assign"
  /\ row' = [ status |-> IF task[t].target = "PENDING" THEN "CONFIRMED" ELSE row.status,
              driver |-> task[t].driver ]
  /\ Become(t, [ task[t] EXCEPT !.pc = "push", !.target = "CONFIRMED" ])
  /\ UNCHANGED << scenario, doc, inbox, handler, launched, inputs >>

(***************************************************************************)
(* The driver and customer apps (external)                                 *)
(***************************************************************************)
AppWritesStatus(s) ==
  /\ Mirrored
  /\ Input
  /\ WriteDoc([ doc EXCEPT !.status = s ])
  /\ UNCHANGED << scenario, row, task, handler, launched >>

AppWritesDriver(d) ==
  /\ Mirrored
  /\ Input
  /\ WriteDoc([ doc EXCEPT !.driver = d ])
  /\ UNCHANGED << scenario, row, task, handler, launched >>

(***************************************************************************)
(* The listener on the orders collection.  Firestore calls it once per     *)
(* version, in order, and does not wait for the callback it called before. *)
(***************************************************************************)
Snapshot(l) ==
  /\ handler[l].pc = "idle"
  /\ inbox # << >>
  /\ LET snap == Head(inbox) IN
       handler' = [ handler EXCEPT ![l] =
         [ IdleHandler EXCEPT !.pc = IF snap.synced THEN "read" ELSE "upsert", !.snap = snap ] ]
  /\ inbox' = Tail(inbox)
  /\ UNCHANGED << scenario, row, doc, task, launched, inputs >>

\* syncOrder: create the row or overwrite its status; a status the mapping does
\* not know becomes PENDING.
SyncOrderUpsert(l) ==
  /\ handler[l].pc = "upsert"
  /\ LET mapped == mapFirebaseToPostgresStatus(handler[l].snap.status) IN
       row' = [ row EXCEPT !.status = IF mapped = NoStatus THEN "PENDING" ELSE mapped ]
  /\ handler' = [ handler EXCEPT ![l].pc = "mark" ]
  /\ UNCHANGED << scenario, doc, inbox, task, launched, inputs >>

\* Mutant: the document is written back without the flag.
SyncOrderMarkUnflagged(l) ==
  /\ handler[l].pc = "mark"
  /\ WriteDoc(doc)
  /\ handler' = [ handler EXCEPT ![l] = IdleHandler ]
  /\ UNCHANGED << scenario, row, task, launched, inputs >>

\* ... then doc.ref.update({ syncedToPostgres, postgresOrderId, ... })
SyncOrderMark(l) ==
  /\ handler[l].pc = "mark"
  /\ \/ WriteDoc([ doc EXCEPT !.synced = TRUE ])
     \/ scenario.pushMayFail /\ UNCHANGED << doc, inbox >>
  /\ handler' = [ handler EXCEPT ![l] = IdleHandler ]
  /\ UNCHANGED << scenario, row, task, launched, inputs >>

\* The driver part of syncStatusFromFirebase applies to this version?
DriverDiffers(snap, read) == snap.driver # NoDriver /\ snap.driver # read.driver

\* Mutant: the driver part is never reached.
AfterStatusDone(snap, read) == IdleHandler

AfterStatus(snap, read) ==
  IF DriverDiffers(snap, read)
  THEN [ pc |-> "driver", snap |-> snap, read |-> read ]
  ELSE IdleHandler

\* syncStatusFromFirebase reads the row; both its decisions use that reading.
SyncStatusRead(l) ==
  /\ handler[l].pc = "read"
  /\ LET snap == handler[l].snap
         target == mapFirebaseToPostgresStatus(snap.status)
     IN handler' = [ handler EXCEPT ![l] =
          IF target # NoStatus /\ row.status # target
          THEN [ pc |-> "force", snap |-> snap, read |-> row ]
          ELSE AfterStatus(snap, row) ]
  /\ UNCHANGED << scenario, row, doc, inbox, task, launched, inputs >>

\* Mutant: a transition nobody may make is refused, not forced.
SyncStatusForceChecked(l) ==
  /\ handler[l].pc = "force"
  /\ LET target == mapFirebaseToPostgresStatus(handler[l].snap.status) IN
       IF \E role \in Roles : canTransition(handler[l].read.status, target, role)
       THEN row' = [ row EXCEPT !.status = target ] /\ Launch(target)
       ELSE UNCHANGED << row, launched >>
  /\ handler' = [ handler EXCEPT ![l] = AfterStatus(handler[l].snap, handler[l].read) ]
  /\ UNCHANGED << scenario, doc, inbox, task, inputs >>

\* A transition canTransition refuses is only logged: the status is forced.
SyncStatusForce(l) ==
  /\ handler[l].pc = "force"
  /\ LET target == mapFirebaseToPostgresStatus(handler[l].snap.status) IN
       /\ row' = [ row EXCEPT !.status = target ]
       /\ Launch(target)
  /\ handler' = [ handler EXCEPT ![l] = AfterStatus(handler[l].snap, handler[l].read) ]
  /\ UNCHANGED << scenario, doc, inbox, task, inputs >>

SyncDriver(l) ==
  /\ handler[l].pc = "driver"
  /\ row' = [ row EXCEPT !.driver = handler[l].snap.driver ]
  /\ handler' = [ handler EXCEPT ![l] = IdleHandler ]
  /\ UNCHANGED << scenario, doc, inbox, task, launched, inputs >>

(***************************************************************************)
(* The specification                                                       *)
(***************************************************************************)
TaskStep(t) ==
  \/ UpdateStatusWrite(t)
  \/ PushStatus(t)
  \/ CancelOrderWrite(t)
  \/ AcceptanceCheck(t)
  \/ AcceptanceAssign(t)

ListenerStep(l) ==
  \/ Snapshot(l)
  \/ SyncOrderUpsert(l)
  \/ SyncOrderMark(l)
  \/ SyncStatusRead(l)
  \/ SyncStatusForce(l)
  \/ SyncDriver(l)

Environment ==
  \/ \E t \in Tasks : UpdateStatusRead(t) \/ CancelOrderRead(t)
  \/ \E t \in Tasks, d \in Drivers : AcceptDelivery(t, d)
  \/ \E s \in AppStatuses : AppWritesStatus(s)
  \/ \E d \in Drivers : AppWritesDriver(d)

Next ==
  \/ Environment
  \/ \E t \in Tasks : TaskStep(t)
  \/ \E l \in Listeners : ListenerStep(l)

Spec == Init /\ [][Next]_vars

\* A handler in progress runs to its end, and Firestore delivers what it has;
\* nobody has to call the API or to touch an app.
Fairness ==
  /\ \A t \in Tasks : WF_vars(TaskStep(t))
  /\ \A l \in Listeners : WF_vars(ListenerStep(l))

FairSpec == Spec /\ Fairness

(***************************************************************************)
(* Properties                                                              *)
(***************************************************************************)
Agree == mapFirebaseToPostgresStatus(doc.status) \in { NoStatus, row.status }

Quiet ==
  /\ inbox = << >>
  /\ \A t \in Tasks : task[t].pc = "idle"
  /\ \A l \in Listeners : handler[l].pc = "idle"

\* The conditions under which the two sides converge: the order has a document, no write
\* to it fails, its customer does not cancel it over HTTP, and no two callbacks of the
\* listener overlap.
Convergent ==
  /\ Mirrored
  /\ ~scenario.pushMayFail
  /\ "cancelOrder" \notin scenario.operations
  /\ \A l, m \in Listeners : l = m

\* When no call, no push and no snapshot is outstanding, the row and the
\* document hold the same status: whatever the order in which HTTP calls,
\* acceptances and app writes raced, the last version of the document wins on
\* both sides ("forcing sync to ensure consistency").
Converged == Convergent /\ Quiet => Agree

\* The row is the driver's last word as well: in quiet a driver named by the
\* document is the driver of the row.
DriverConverged == Convergent /\ Quiet /\ doc.driver # NoDriver => row.driver = doc.driver

\* The order was placed through the API, so that it has no document, and one request is
\* handled at a time.
Serial == scenario.origin = "checkout" /\ scenario.serial

\* Every change of the status of such an order is one the state machine lists, from
\* PENDING on: the row implements OrderLifecycle.
Lifecycle == INSTANCE OrderLifecycle WITH status <- IF Serial THEN row.status ELSE "PENDING"
ImplementsLifecycle == Lifecycle!Spec

\* The listener answers a push with a write of the row only, so the two sides
\* do not echo each other for ever: the system comes to rest and stays there.
EventuallyQuiet == <>[]Quiet
=============================================================================

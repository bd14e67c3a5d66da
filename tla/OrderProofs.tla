---------------------------- MODULE OrderProofs -----------------------------
(***************************************************************************)
(* Theorems about OrderSync and Settlement: an order's row and its document, *)
(* for any number of drivers, concurrent calls and inputs, and the money of *)
(* delivered orders, for any number of orders and of settlements that      *)
(* overlap through either path.                                            *)
(***************************************************************************)
EXTENDS OrderSync, Settlement, SequenceTheorems, DataTheorems, FiniteSetTheorems, TLAPS

(***************************************************************************)
(* OrderSync                                                               *)
(***************************************************************************)

\* The two mappings stay within the status vocabularies.
LEMMA MappingTypes ==
  /\ \A s : mapFirebaseToPostgresStatus(s) \in OrderStatuses \cup { NoStatus }
  /\ \A s : toFirebaseStatus(s) \in FirebaseStatuses
BY DEF mapFirebaseToPostgresStatus, toFirebaseStatus, OrderStatuses, FirebaseStatuses, NoStatus

\* The values a slot starts from, and returns to, have the types of their variables.
LEMMA IdleTypes ==
  /\ FreshDoc \in Docs
  /\ [ FreshDoc EXCEPT !.synced = (scenario.origin = "synced") ] \in Docs
  /\ IdleTask \in TaskStates
  /\ IdleHandler \in HandlerStates
BY DEF FreshDoc, Docs, IdleTask, TaskStates, IdleHandler, HandlerStates, Rows, DriverIds,
       FirebaseStatuses

\* A slot given a state of its type keeps the task table typed.
LEMMA BecomeType ==
  ASSUME task \in [ Tasks -> TaskStates ], NEW t \in Tasks, NEW state \in TaskStates,
         Become(t, state)
  PROVE  task' \in [ Tasks -> TaskStates ]
BY DEF Become

\* A document written is queued for the listener.
LEMMA WriteDocType ==
  ASSUME inbox \in Seq(Docs), NEW d \in Docs, WriteDoc(d)
  PROVE  doc' \in Docs /\ inbox' \in Seq(Docs)
BY DEF WriteDoc

\* What follows the status part of a synchronisation is a handler state.
LEMMA AfterStatusType ==
  ASSUME NEW snap \in Docs, NEW read \in Rows
  PROVE  AfterStatus(snap, read) \in HandlerStates
BY IdleTypes DEF AfterStatus, HandlerStates

\* Every variable keeps to its type, whatever the calls and the apps do.
THEOREM TypeCorrect == Spec => []TypeOK
<1>1. Init => TypeOK
  BY IdleTypes, OrderSyncAssumption
  DEF Init, TypeOK, Rows, DriverIds, OrderStatuses, NoStatus
<1>2. TypeOK /\ [Next]_vars => TypeOK'
  <2> SUFFICES ASSUME TypeOK, [Next]_vars PROVE TypeOK'
    OBVIOUS
  <2>0. /\ row \in Rows /\ row.status \in OrderStatuses \cup { NoStatus }
        /\ row.driver \in DriverIds
        /\ doc \in Docs /\ inbox \in Seq(Docs) /\ launched \in Nat /\ inputs \in 0..scenario.inputs
        /\ scenario \in Scenarios /\ scenario.inputs \in Nat
        /\ task \in [ Tasks -> TaskStates ] /\ handler \in [ Listeners -> HandlerStates ]
        /\ \A t \in Tasks : /\ task[t] \in TaskStates
                            /\ task[t].target \in OrderStatuses \cup { NoStatus }
                            /\ task[t].driver \in DriverIds
        /\ \A l \in Listeners : /\ handler[l] \in HandlerStates
                                /\ handler[l].snap \in Docs /\ handler[l].read \in Rows
                                /\ handler[l].snap.driver \in DriverIds
    BY OrderSyncAssumption DEF TypeOK, Rows, TaskStates, HandlerStates, Docs
  <2>1. ASSUME NEW t \in Tasks, UpdateStatusRead(t) PROVE TypeOK'
    <3>1. PICK target \in OrderStatuses :
            Become(t, [ IdleTask EXCEPT !.pc = "update", !.target = target ])
      BY <2>1, Zenon DEF UpdateStatusRead
    <3>2. [ IdleTask EXCEPT !.pc = "update", !.target = target ] \in TaskStates
      BY IdleTypes DEF TaskStates
    <3>3. task' \in [ Tasks -> TaskStates ]
      BY <2>0, <3>1, <3>2, BecomeType
    <3> QED
      BY <2>0, <2>1, <3>3, OrderSyncAssumption DEF UpdateStatusRead, Request, Input, TypeOK
  <2>2. ASSUME NEW t \in Tasks, UpdateStatusWrite(t) PROVE TypeOK'
    <3>1. [ task[t] EXCEPT !.pc = "push" ] \in TaskStates
      BY <2>0 DEF TaskStates
    <3>2. task' \in [ Tasks -> TaskStates ]
      BY <2>0, <2>2, <3>1, BecomeType DEF UpdateStatusWrite
    <3>3. row' \in Rows
      BY <2>0, <2>2 DEF UpdateStatusWrite, Rows
    <3> QED
      BY <2>0, <2>2, <3>2, <3>3 DEF UpdateStatusWrite, Launch, TypeOK
  <2>3. ASSUME NEW t \in Tasks, PushStatus(t) PROVE TypeOK'
    <3>1. [ doc EXCEPT !.status = toFirebaseStatus(task[t].target) ] \in Docs
      BY <2>0, MappingTypes DEF Docs
    <3>2. doc' \in Docs /\ inbox' \in Seq(Docs)
      BY <2>0, <2>3, <3>1, WriteDocType DEF PushStatus
    <3>3. task' \in [ Tasks -> TaskStates ]
      BY <2>0, <2>3, IdleTypes, BecomeType DEF PushStatus
    <3> QED
      BY <2>0, <2>3, <3>2, <3>3 DEF PushStatus, TypeOK
  <2>4. ASSUME NEW t \in Tasks, CancelOrderRead(t) PROVE TypeOK'
    <3>1. [ IdleTask EXCEPT !.pc = "cancel" ] \in TaskStates
      BY IdleTypes DEF TaskStates
    <3>2. task' \in [ Tasks -> TaskStates ]
      BY <2>0, <2>4, <3>1, BecomeType DEF CancelOrderRead
    <3> QED
      BY <2>0, <2>4, <3>2, OrderSyncAssumption DEF CancelOrderRead, Request, Input, TypeOK
  <2>5. ASSUME NEW t \in Tasks, CancelOrderWrite(t) PROVE TypeOK'
    <3>1. task' \in [ Tasks -> TaskStates ]
      BY <2>0, <2>5, IdleTypes, BecomeType DEF CancelOrderWrite
    <3>2. row' \in Rows
      BY <2>0, <2>5 DEF CancelOrderWrite, Rows, OrderStatuses
    <3> QED
      BY <2>0, <2>5, <3>1, <3>2 DEF CancelOrderWrite, TypeOK
  <2>6. ASSUME NEW t \in Tasks, NEW d \in Drivers, AcceptDelivery(t, d) PROVE TypeOK'
    <3>1. [ IdleTask EXCEPT !.pc = "check", !.driver = d ] \in TaskStates
      BY IdleTypes DEF TaskStates, DriverIds
    <3>2. task' \in [ Tasks -> TaskStates ]
      BY <2>0, <2>6, <3>1, BecomeType DEF AcceptDelivery
    <3> QED
      BY <2>0, <2>6, <3>2, OrderSyncAssumption DEF AcceptDelivery, Request, Input, TypeOK
  <2>7. ASSUME NEW t \in Tasks, AcceptanceCheck(t) PROVE TypeOK'
    <3>1. [ task[t] EXCEPT !.pc = "assign", !.target = row.status ] \in TaskStates
      BY <2>0 DEF TaskStates
    <3>2. task' \in [ Tasks -> TaskStates ]
      BY <2>0, <2>7, <3>1, IdleTypes, BecomeType DEF AcceptanceCheck
    <3> QED
      BY <2>0, <2>7, <3>2 DEF AcceptanceCheck, TypeOK
  <2>8. ASSUME NEW t \in Tasks, AcceptanceAssign(t) PROVE TypeOK'
    <3>1. [ task[t] EXCEPT !.pc = "push", !.target = "CONFIRMED" ] \in TaskStates
      BY <2>0 DEF TaskStates, OrderStatuses
    <3>2. task' \in [ Tasks -> TaskStates ]
      BY <2>0, <2>8, <3>1, BecomeType DEF AcceptanceAssign
    <3>3. row' \in Rows
      BY <2>0, <2>8 DEF AcceptanceAssign, Rows, OrderStatuses
    <3> QED
      BY <2>0, <2>8, <3>2, <3>3 DEF AcceptanceAssign, TypeOK
  <2>9. ASSUME NEW s \in AppStatuses, AppWritesStatus(s) PROVE TypeOK'
    <3>1. [ doc EXCEPT !.status = s ] \in Docs
      BY <2>0, OrderSyncAssumption DEF Docs
    <3>2. doc' \in Docs /\ inbox' \in Seq(Docs)
      BY <2>0, <2>9, <3>1, WriteDocType DEF AppWritesStatus
    <3> QED
      BY <2>0, <2>9, <3>2, OrderSyncAssumption DEF AppWritesStatus, Input, TypeOK
  <2>10. ASSUME NEW d \in Drivers, AppWritesDriver(d) PROVE TypeOK'
    <3>1. [ doc EXCEPT !.driver = d ] \in Docs
      BY <2>0 DEF Docs, DriverIds
    <3>2. doc' \in Docs /\ inbox' \in Seq(Docs)
      BY <2>0, <2>10, <3>1, WriteDocType DEF AppWritesDriver
    <3> QED
      BY <2>0, <2>10, <3>2, OrderSyncAssumption DEF AppWritesDriver, Input, TypeOK
  <2>11. ASSUME NEW l \in Listeners, Snapshot(l) PROVE TypeOK'
    <3>1. Head(inbox) \in Docs /\ Tail(inbox) \in Seq(Docs)
      BY <2>0, <2>11 DEF Snapshot
    <3>2. ASSUME NEW pc \in { "read", "upsert" }
          PROVE  [ IdleHandler EXCEPT !.pc = pc, !.snap = Head(inbox) ] \in HandlerStates
      BY <3>1, IdleTypes DEF HandlerStates
    <3>3. handler' \in [ Listeners -> HandlerStates ]
      BY <2>0, <2>11, <3>2 DEF Snapshot
    <3> QED
      BY <2>0, <2>11, <3>1, <3>3 DEF Snapshot, TypeOK
  <2>12. ASSUME NEW l \in Listeners, SyncOrderUpsert(l) PROVE TypeOK'
    <3>1. row' \in Rows
      BY <2>0, <2>12, MappingTypes DEF SyncOrderUpsert, Rows, OrderStatuses
    <3>2. [ handler[l] EXCEPT !.pc = "mark" ] \in HandlerStates
      BY <2>0 DEF HandlerStates
    <3> QED
      BY <2>0, <2>12, <3>1, <3>2 DEF SyncOrderUpsert, TypeOK
  <2>13. ASSUME NEW l \in Listeners, SyncOrderMark(l) PROVE TypeOK'
    <3>1. [ doc EXCEPT !.synced = TRUE ] \in Docs
      BY <2>0 DEF Docs
    <3>2. doc' \in Docs /\ inbox' \in Seq(Docs)
      BY <2>0, <2>13, <3>1, WriteDocType DEF SyncOrderMark
    <3> QED
      BY <2>0, <2>13, <3>2, IdleTypes DEF SyncOrderMark, TypeOK
  <2>14. ASSUME NEW l \in Listeners, SyncStatusRead(l) PROVE TypeOK'
    <3>1. [ pc |-> "force", snap |-> handler[l].snap, read |-> row ] \in HandlerStates
      BY <2>0 DEF HandlerStates
    <3>2. AfterStatus(handler[l].snap, row) \in HandlerStates
      BY <2>0, AfterStatusType
    <3>3. handler' \in [ Listeners -> HandlerStates ]
      BY <2>0, <2>14, <3>1, <3>2 DEF SyncStatusRead
    <3> QED
      BY <2>0, <2>14, <3>3 DEF SyncStatusRead, TypeOK
  <2>15. ASSUME NEW l \in Listeners, SyncStatusForce(l) PROVE TypeOK'
    <3>1. row' \in Rows
      BY <2>0, <2>15, MappingTypes DEF SyncStatusForce, Rows
    <3>2. AfterStatus(handler[l].snap, handler[l].read) \in HandlerStates
      BY <2>0, AfterStatusType
    <3> QED
      BY <2>0, <2>15, <3>1, <3>2 DEF SyncStatusForce, Launch, TypeOK
  <2>16. ASSUME NEW l \in Listeners, SyncDriver(l) PROVE TypeOK'
    <3>1. row' \in Rows
      BY <2>0, <2>16 DEF SyncDriver, Rows
    <3> QED
      BY <2>0, <2>16, <3>1, IdleTypes DEF SyncDriver, TypeOK
  <2>17. CASE UNCHANGED vars
    BY <2>17 DEF vars, TypeOK
  <2> QED
    BY <2>1, <2>2, <2>3, <2>4, <2>5, <2>6, <2>7, <2>8, <2>9, <2>10, <2>11, <2>12,
       <2>13, <2>14, <2>15, <2>16, <2>17
    DEF Next, Environment, TaskStep, ListenerStep
<1> QED
  BY <1>1, <1>2, PTL DEF Spec

-----------------------------------------------------------------------------
(***************************************************************************)
(* Convergence.  Quiet => Agree is not inductive: it says nothing of the   *)
(* work in progress.  The invariant that is inductive says that whenever   *)
(* the two sides disagree, something that will bring them together is      *)
(* outstanding: a push, a snapshot, or the callback that handles it; and   *)
(* that the last snapshot outstanding shows the document as it is.         *)
(***************************************************************************)
Outstanding == inbox # << >> \/ \E t \in Tasks : task[t].pc = "push"

LastSnapshotIsDoc ==
  /\ inbox # << >> => inbox[Len(inbox)] = doc
  /\ inbox = << >> => \A l \in Listeners : handler[l].pc # "idle" => handler[l].snap = doc

StatusComing ==
  \/ Outstanding
  \/ \E l \in Listeners : handler[l].pc \in { "upsert", "mark", "read", "force" }

DriverComing ==
  \/ Outstanding
  \/ \E l \in Listeners :
       \/ handler[l].pc \in { "upsert", "mark", "read", "driver" }
       \/ handler[l].pc = "force" /\ DriverDiffers(handler[l].snap, handler[l].read)

DriverAgrees == doc.driver # NoDriver => row.driver = doc.driver

ConvergenceInv ==
  /\ \A t \in Tasks : task[t].pc # "cancel"
  /\ LastSnapshotIsDoc
  /\ Agree \/ StatusComing
  /\ DriverAgrees \/ DriverComing

\* The scenario never changes, nor what depends on it.
LEMMA ScenarioStays ==
  ASSUME [Next]_vars
  PROVE  scenario' = scenario /\ Convergent' = Convergent /\ Serial' = Serial
<1>1. scenario' = scenario
  BY Zenon DEF Next, Environment, TaskStep, ListenerStep, UpdateStatusRead, UpdateStatusWrite, PushStatus,
         CancelOrderRead, CancelOrderWrite, AcceptDelivery, AcceptanceCheck, AcceptanceAssign,
         AppWritesStatus, AppWritesDriver, Snapshot, SyncOrderUpsert, SyncOrderMark, SyncStatusRead,
         SyncStatusForce, SyncDriver, vars
<1> QED
  BY <1>1 DEF Convergent, Mirrored, Serial

\* A document written is the last snapshot outstanding.
LEMMA WriteIsOutstanding ==
  ASSUME inbox \in Seq(Docs), NEW d \in Docs, WriteDoc(d)
  PROVE  /\ inbox' # << >>
         /\ doc' = d
         /\ LastSnapshotIsDoc'
         /\ Outstanding'
<1>1. inbox' = Append(inbox, d) /\ doc' = d
  BY DEF WriteDoc
<1>2. Len(inbox') = Len(inbox) + 1 /\ inbox'[Len(inbox) + 1] = d /\ inbox' # << >>
  BY <1>1
<1> QED
  BY <1>1, <1>2 DEF LastSnapshotIsDoc, Outstanding

\* Taking the oldest snapshot leaves the last one last, or is the last one.
LEMMA TakeSnapshot ==
  ASSUME inbox \in Seq(Docs), inbox # << >>
  PROVE  /\ Tail(inbox) = << >> => Head(inbox) = inbox[Len(inbox)]
         /\ Tail(inbox) # << >> => Tail(inbox)[Len(Tail(inbox))] = inbox[Len(inbox)]
<1>1. /\ Len(inbox) \in Nat \ {0}
      /\ Len(Tail(inbox)) = Len(inbox) - 1
      /\ Head(inbox) = inbox[1]
      /\ \A i \in 1..Len(inbox) - 1 : Tail(inbox)[i] = inbox[i + 1]
      /\ Tail(inbox) \in Seq(Docs)
  OBVIOUS
<1>2. Tail(inbox) = << >> <=> Len(Tail(inbox)) = 0
  BY <1>1, EmptySeq
<1> QED
  BY <1>1, <1>2

\* A slot that gets a new state has that state afterwards, and no other changes.
\* One step of the system preserves the invariant.
LEMMA ConvergenceStep ==
  ASSUME Convergent, TypeOK, TypeOK', ConvergenceInv, [Next]_vars
  PROVE  ConvergenceInv'
<1>0. /\ task \in [ Tasks -> TaskStates ] /\ task' \in [ Tasks -> TaskStates ]
      /\ handler \in [ Listeners -> HandlerStates ]
      /\ inbox \in Seq(Docs) /\ doc \in Docs /\ doc' \in Docs /\ row \in Rows
      /\ \A l \in Listeners : handler[l] \in HandlerStates
      /\ \A l \in Listeners : handler[l].snap \in Docs
  BY DEF TypeOK, HandlerStates
<1>00. /\ Mirrored /\ ~scenario.pushMayFail /\ "cancelOrder" \notin scenario.operations
       /\ \A l, m \in Listeners : l = m
       /\ \A t \in Tasks : task[t].pc # "cancel"
       /\ LastSnapshotIsDoc
       /\ Agree \/ StatusComing
       /\ DriverAgrees \/ DriverComing
  BY DEF Convergent, ConvergenceInv
<1>1. ASSUME NEW t \in Tasks, UpdateStatusRead(t) PROVE ConvergenceInv'
  <2>1. PICK target \in OrderStatuses :
          Become(t, [ IdleTask EXCEPT !.pc = "update", !.target = target ])
    BY <1>1, Zenon DEF UpdateStatusRead
  <2>2. task'[t].pc = "update" /\ task[t].pc = "idle" /\ \A u \in Tasks \ { t } : task'[u] = task[u]
    BY <1>0, <1>1, <2>1 DEF UpdateStatusRead, Request, Become, IdleTask
  <2> QED
    BY <1>00, <1>1, <2>2
    DEF UpdateStatusRead, ConvergenceInv, LastSnapshotIsDoc, Agree, StatusComing, DriverAgrees,
        DriverComing, Outstanding
<1>2. ASSUME NEW t \in Tasks, UpdateStatusWrite(t) PROVE ConvergenceInv'
  <2>1. task'[t].pc = "push" /\ \A u \in Tasks \ { t } : task'[u] = task[u]
    BY <1>0, <1>2 DEF UpdateStatusWrite, Become, TaskStates
  <2>2. Outstanding'
    BY <2>1 DEF Outstanding
  <2> QED
    BY <1>00, <1>2, <2>1, <2>2
    DEF UpdateStatusWrite, ConvergenceInv, LastSnapshotIsDoc, StatusComing, DriverComing
<1>3. ASSUME NEW t \in Tasks, PushStatus(t) PROVE ConvergenceInv'
  <2>1. task'[t].pc = "idle" /\ \A u \in Tasks \ { t } : task'[u] = task[u]
    BY <1>0, <1>3 DEF PushStatus, Become, IdleTask
  <2>2. [ doc EXCEPT !.status = toFirebaseStatus(task[t].target) ] \in Docs
    BY <1>0, MappingTypes DEF Docs
  <2>3. LastSnapshotIsDoc' /\ Outstanding'
    BY <1>0, <1>00, <1>3, <2>2, WriteIsOutstanding DEF PushStatus
  <2> QED
    BY <1>00, <1>3, <2>1, <2>3 DEF PushStatus, ConvergenceInv, StatusComing, DriverComing
<1>4. ASSUME NEW t \in Tasks, AcceptanceCheck(t) PROVE ConvergenceInv'
  <2>1. /\ task'[t].pc \in { "assign", "idle" } /\ task[t].pc = "check"
        /\ \A u \in Tasks \ { t } : task'[u] = task[u]
    BY <1>0, <1>4 DEF AcceptanceCheck, Become, IdleTask, TaskStates
  <2> QED
    BY <1>00, <1>4, <2>1
    DEF AcceptanceCheck, ConvergenceInv, LastSnapshotIsDoc, Agree, StatusComing, DriverAgrees,
        DriverComing, Outstanding
<1>5. ASSUME NEW t \in Tasks, AcceptanceAssign(t) PROVE ConvergenceInv'
  <2>1. task'[t].pc = "push" /\ \A u \in Tasks \ { t } : task'[u] = task[u]
    BY <1>0, <1>5 DEF AcceptanceAssign, Become, TaskStates
  <2>2. Outstanding'
    BY <2>1 DEF Outstanding
  <2> QED
    BY <1>00, <1>5, <2>1, <2>2
    DEF AcceptanceAssign, ConvergenceInv, LastSnapshotIsDoc, StatusComing, DriverComing
<1>6. ASSUME NEW t \in Tasks, NEW d \in Drivers, AcceptDelivery(t, d) PROVE ConvergenceInv'
  <2>1. /\ task'[t].pc = "check" /\ task[t].pc = "idle"
        /\ \A u \in Tasks \ { t } : task'[u] = task[u]
    BY <1>0, <1>6 DEF AcceptDelivery, Request, Become, IdleTask
  <2> QED
    BY <1>00, <1>6, <2>1
    DEF AcceptDelivery, ConvergenceInv, LastSnapshotIsDoc, Agree, StatusComing, DriverAgrees,
        DriverComing, Outstanding
<1>7. ASSUME NEW s \in AppStatuses, AppWritesStatus(s) PROVE ConvergenceInv'
  <2>1. [ doc EXCEPT !.status = s ] \in Docs
    BY <1>0, OrderSyncAssumption DEF Docs
  <2>2. LastSnapshotIsDoc' /\ Outstanding'
    BY <1>0, <1>7, <2>1, WriteIsOutstanding DEF AppWritesStatus
  <2> QED
    BY <1>00, <1>7, <2>2 DEF AppWritesStatus, ConvergenceInv, StatusComing, DriverComing
<1>8. ASSUME NEW d \in Drivers, AppWritesDriver(d) PROVE ConvergenceInv'
  <2>1. [ doc EXCEPT !.driver = d ] \in Docs
    BY <1>0 DEF Docs, DriverIds
  <2>2. LastSnapshotIsDoc' /\ Outstanding'
    BY <1>0, <1>8, <2>1, WriteIsOutstanding DEF AppWritesDriver
  <2> QED
    BY <1>00, <1>8, <2>2 DEF AppWritesDriver, ConvergenceInv, StatusComing, DriverComing
<1>9. ASSUME NEW l \in Listeners, Snapshot(l) PROVE ConvergenceInv'
  <2>1. /\ handler'[l].pc \in { "read", "upsert" }
        /\ handler'[l].snap = Head(inbox)
        /\ \A m \in Listeners : m = l
    BY <1>0, <1>00, <1>9 DEF Snapshot, HandlerStates, IdleHandler
  <2>2. LastSnapshotIsDoc'
    BY <1>0, <1>00, <1>9, <2>1, TakeSnapshot DEF Snapshot, LastSnapshotIsDoc
  <2> QED
    BY <1>00, <1>9, <2>1, <2>2 DEF Snapshot, ConvergenceInv, StatusComing, DriverComing
<1>10. ASSUME NEW l \in Listeners, SyncOrderUpsert(l) PROVE ConvergenceInv'
  <2>1. handler'[l].pc = "mark" /\ handler'[l].snap = handler[l].snap /\ \A m \in Listeners : m = l
    BY <1>0, <1>00, <1>10 DEF SyncOrderUpsert, HandlerStates
  <2> QED
    BY <1>00, <1>10, <2>1
    DEF SyncOrderUpsert, ConvergenceInv, LastSnapshotIsDoc, StatusComing, DriverComing
<1>11. ASSUME NEW l \in Listeners, SyncOrderMark(l) PROVE ConvergenceInv'
  <2>1. [ doc EXCEPT !.synced = TRUE ] \in Docs
    BY <1>0 DEF Docs
  <2>2. LastSnapshotIsDoc' /\ Outstanding'
    BY <1>0, <1>00, <1>11, <2>1, WriteIsOutstanding DEF SyncOrderMark
  <2> QED
    BY <1>00, <1>11, <2>2 DEF SyncOrderMark, ConvergenceInv, StatusComing, DriverComing
<1>12. ASSUME NEW l \in Listeners, SyncStatusRead(l) PROVE ConvergenceInv'
  <2> DEFINE snap == handler[l].snap
             target == mapFirebaseToPostgresStatus(snap.status)
  <2>1. handler[l].pc = "read" /\ inbox' = inbox /\ doc' = doc /\ row' = row /\ task' = task
    BY <1>12 DEF SyncStatusRead
  <2>2. \A m \in Listeners : m = l
    BY <1>00
  <2>3. handler'[l] = IF target # NoStatus /\ row.status # target
                      THEN [ pc |-> "force", snap |-> snap, read |-> row ]
                      ELSE AfterStatus(snap, row)
    BY <1>0, <1>12 DEF SyncStatusRead
  <2>4. handler'[l].pc # "idle" => handler'[l].snap = snap
    BY <2>3 DEF AfterStatus, IdleHandler
  <2>5. LastSnapshotIsDoc'
    BY <1>00, <2>1, <2>2, <2>4 DEF LastSnapshotIsDoc
  <2>6. CASE inbox # << >>
    BY <1>00, <2>1, <2>5, <2>6 DEF ConvergenceInv, StatusComing, DriverComing, Outstanding
  <2>7. CASE inbox = << >>
    <3>1. snap = doc
      BY <1>00, <2>1, <2>7 DEF LastSnapshotIsDoc
    <3>2. Agree' \/ StatusComing'
      BY <2>1, <2>3, <3>1 DEF Agree, StatusComing
    <3>3. DriverAgrees' \/ DriverComing'
      <4>1. CASE DriverDiffers(snap, row)
        BY <2>3, <4>1 DEF AfterStatus, DriverComing
      <4>2. CASE ~DriverDiffers(snap, row)
        BY <2>1, <3>1, <4>2 DEF DriverDiffers, DriverAgrees
      <4> QED
        BY <4>1, <4>2
    <3> QED
      BY <1>00, <2>1, <2>5, <3>2, <3>3 DEF ConvergenceInv
  <2> QED
    BY <2>6, <2>7
<1>13. ASSUME NEW l \in Listeners, SyncStatusForce(l) PROVE ConvergenceInv'
  <2> DEFINE snap == handler[l].snap
             read == handler[l].read
  <2>1. /\ handler[l].pc = "force" /\ inbox' = inbox /\ doc' = doc /\ task' = task
        /\ row'.status = mapFirebaseToPostgresStatus(snap.status)
        /\ row'.driver = row.driver
    BY <1>0, <1>13 DEF SyncStatusForce, Rows
  <2>2. \A m \in Listeners : m = l
    BY <1>00
  <2>3. handler'[l] = AfterStatus(snap, read)
    BY <1>0, <1>13 DEF SyncStatusForce
  <2>4. handler'[l].pc # "idle" => handler'[l].snap = snap
    BY <2>3 DEF AfterStatus, IdleHandler
  <2>5. LastSnapshotIsDoc'
    BY <1>00, <2>1, <2>2, <2>4 DEF LastSnapshotIsDoc
  <2>6. CASE inbox # << >>
    BY <1>00, <2>1, <2>5, <2>6 DEF ConvergenceInv, StatusComing, DriverComing, Outstanding
  <2>7. CASE inbox = << >>
    <3>1. snap = doc
      BY <1>00, <2>1, <2>7 DEF LastSnapshotIsDoc
    <3>2. Agree'
      BY <2>1, <3>1 DEF Agree
    <3>3. DriverAgrees' \/ DriverComing'
      <4>1. CASE DriverDiffers(snap, read)
        BY <2>3, <4>1 DEF AfterStatus, DriverComing
      <4>2. CASE ~DriverDiffers(snap, read)
        <5>1. DriverAgrees \/ Outstanding
          BY <1>00, <2>1, <2>2, <4>2 DEF DriverComing
        <5> QED
          BY <2>1, <5>1 DEF DriverAgrees, DriverComing, Outstanding
      <4> QED
        BY <4>1, <4>2
    <3> QED
      BY <1>00, <2>1, <2>5, <3>2, <3>3 DEF ConvergenceInv
  <2> QED
    BY <2>6, <2>7
<1>14. ASSUME NEW l \in Listeners, SyncDriver(l) PROVE ConvergenceInv'
  <2>1. /\ handler[l].pc = "driver" /\ inbox' = inbox /\ doc' = doc /\ task' = task
        /\ row'.driver = handler[l].snap.driver
        /\ row'.status = row.status
        /\ handler'[l].pc = "idle"
    BY <1>0, <1>14 DEF SyncDriver, IdleHandler, Rows
  <2>2. \A m \in Listeners : m = l
    BY <1>00
  <2>3. LastSnapshotIsDoc'
    BY <1>00, <2>1, <2>2 DEF LastSnapshotIsDoc
  <2>4. Agree \/ Outstanding
    BY <1>00, <2>1, <2>2 DEF StatusComing
  <2>5. Agree' \/ StatusComing'
    BY <2>1, <2>4 DEF Agree, StatusComing, Outstanding
  <2>6. DriverAgrees' \/ DriverComing'
    BY <1>00, <2>1 DEF LastSnapshotIsDoc, DriverAgrees, DriverComing, Outstanding
  <2> QED
    BY <1>00, <2>1, <2>3, <2>5, <2>6 DEF ConvergenceInv
<1>15. CASE UNCHANGED vars
  BY <1>00, <1>15
  DEF vars, ConvergenceInv, LastSnapshotIsDoc, Agree, StatusComing, DriverAgrees, DriverComing,
      Outstanding
<1>16. \A t \in Tasks : ~CancelOrderRead(t) /\ ~CancelOrderWrite(t)
  BY <1>00 DEF CancelOrderRead, Request, CancelOrderWrite
<1> QED
  BY <1>1, <1>2, <1>3, <1>4, <1>5, <1>6, <1>7, <1>8, <1>9, <1>10, <1>11, <1>12, <1>13, <1>14,
     <1>15, <1>16
  DEF Next, Environment, TaskStep, ListenerStep

\* The invariant of convergence holds of every behaviour.
LEMMA ConvergenceInvariant ==
  Spec => [](Convergent => ConvergenceInv)
<1>1. Init => (Convergent => ConvergenceInv)
  <2> SUFFICES ASSUME Init PROVE ConvergenceInv
    OBVIOUS
  <2>1. /\ \A t \in Tasks : task[t].pc = "idle"
        /\ \A l \in Listeners : handler[l].pc = "idle"
    BY DEF Init, IdleTask, IdleHandler
  <2>2. CASE scenario.origin = "app"
    <3>1. inbox = << FreshDoc >> /\ doc = FreshDoc
      BY <2>2 DEF Init, FreshDoc
    <3>2. inbox # << >> /\ inbox[Len(inbox)] = doc
      BY <3>1
    <3> QED
      BY <2>1, <3>2
      DEF ConvergenceInv, LastSnapshotIsDoc, StatusComing, DriverComing, Outstanding
  <2>3. CASE scenario.origin # "app"
    <3>1. inbox = << >> /\ doc.driver = NoDriver /\ doc.status = "pending" /\ row.status = "PENDING"
      BY <2>3 DEF Init, FreshDoc
    <3>2. Agree /\ DriverAgrees
      BY <3>1 DEF Agree, DriverAgrees, mapFirebaseToPostgresStatus
    <3> QED
      BY <2>1, <3>1, <3>2 DEF ConvergenceInv, LastSnapshotIsDoc
  <2> QED
    BY <2>2, <2>3
<1>2. TypeOK /\ TypeOK' /\ (Convergent => ConvergenceInv) /\ [Next]_vars => (Convergent => ConvergenceInv)'
  BY ConvergenceStep, ScenarioStays, Zenon
<1> QED
  BY <1>1, <1>2, TypeCorrect, PTL DEF Spec

\* Whatever the calls, the acceptances and the apps did: when nothing is
\* outstanding the row and the document hold the same status.
THEOREM Convergence == Spec => []Converged
<1>1. (Convergent => ConvergenceInv) => Converged
  BY DEF ConvergenceInv, Converged, Quiet, StatusComing, Outstanding
<1> QED
  BY <1>1, ConvergenceInvariant, PTL

\* ... and a driver the document names is the driver of the row.
THEOREM DriverConvergence == Spec => []DriverConverged
<1>1. (Convergent => ConvergenceInv) => DriverConverged
  BY DEF ConvergenceInv, DriverConverged, DriverAgrees, Quiet, DriverComing, Outstanding
<1> QED
  BY <1>1, ConvergenceInvariant, PTL

-----------------------------------------------------------------------------
(***************************************************************************)
(* Refinement.  Where requests do not overlap and the order has no         *)
(* document, what a request has read is still true when it writes: the     *)
(* change it makes is one the state machine lists.                         *)
(***************************************************************************)
ReadingIsCurrent ==
  \A t \in Tasks :
    /\ task[t].pc = "update" => task[t].target \in allowedTransitions[row.status] \cup { row.status }
    /\ task[t].pc = "cancel" => row.status \in { "PENDING", "CONFIRMED" }
    /\ task[t].pc = "assign" => task[t].target = row.status

NothingToCarry == inbox = << >> /\ \A l \in Listeners : handler[l].pc = "idle"

OneRequest == \A t, u \in Tasks : task[t].pc # "idle" /\ task[u].pc # "idle" => t = u

SerialInv == row.status \in OrderStatuses /\ OneRequest /\ ReadingIsCurrent /\ NothingToCarry

\* A change that allowedTransitions lists is a step of OrderLifecycle.
LEMMA ListedChange ==
  ASSUME Serial, Serial', row'.status \in allowedTransitions[row.status] PROVE Lifecycle!Next
<1>1. Lifecycle!allowedTransitions = allowedTransitions
  BY DEF Lifecycle!allowedTransitions, allowedTransitions
<1> QED
  BY <1>1 DEF Lifecycle!Next

\* A step of one request, of a slot that was at work or idle like the others.
LEMMA OneSlot ==
  ASSUME task \in [ Tasks -> TaskStates ], OneRequest, NEW t \in Tasks, NEW state \in TaskStates,
         Become(t, state), task[t].pc # "idle" \/ \A u \in Tasks : task[u].pc = "idle"
  PROVE  /\ OneRequest'
         /\ task'[t] = state
         /\ \A u \in Tasks \ { t } : task'[u].pc = "idle"
<1>1. task'[t] = state /\ \A u \in Tasks \ { t } : task'[u] = task[u]
  BY DEF Become
<1> QED
  BY <1>1 DEF OneRequest

\* One step keeps the invariant and is a step of OrderLifecycle or leaves the
\* status alone.
LEMMA SerialStep ==
  ASSUME Serial, TypeOK, TypeOK', SerialInv, [Next]_vars
  PROVE  SerialInv' /\ [Lifecycle!Next]_(IF Serial THEN row.status ELSE "PENDING")
<1>0. /\ task \in [ Tasks -> TaskStates ] /\ row \in Rows /\ row.status \in OrderStatuses
      /\ OneRequest /\ ReadingIsCurrent /\ NothingToCarry /\ ~Mirrored /\ scenario.serial
      /\ \A t \in Tasks : task[t] \in TaskStates
  BY DEF TypeOK, Serial, SerialInv, Mirrored
<1>s. Serial /\ Serial'
  BY ScenarioStays, Zenon
<1>a. ASSUME NEW t \in Tasks, NEW state, task'[t] = state, OneRequest',
             \A u \in Tasks \ { t } : task'[u].pc = "idle",
             row'.status \in OrderStatuses, UNCHANGED << inbox, handler >>,
             /\ state.pc = "update" => state.target \in allowedTransitions[row'.status] \cup { row'.status }
             /\ state.pc = "cancel" => row'.status \in { "PENDING", "CONFIRMED" }
             /\ state.pc = "assign" => state.target = row'.status
      PROVE  SerialInv'
  <2>1. \A u \in Tasks : u = t \/ task'[u].pc = "idle"
    BY <1>a
  <2>2. ReadingIsCurrent'
    BY <1>a, <2>1 DEF ReadingIsCurrent
  <2> QED
    BY <1>0, <1>a, <2>2 DEF SerialInv, NothingToCarry
<1>1. ASSUME NEW t \in Tasks, UpdateStatusRead(t)
      PROVE  SerialInv' /\ row' = row
  <2>1. PICK target \in OrderStatuses, role \in StaffRoles :
          /\ validateTransition(row.status, target, role)
          /\ Become(t, [ IdleTask EXCEPT !.pc = "update", !.target = target ])
    BY <1>1, Zenon DEF UpdateStatusRead
  <2>2. target \in allowedTransitions[row.status] \cup { row.status }
    BY <2>1 DEF validateTransition, canTransition
  <2> DEFINE state == [ IdleTask EXCEPT !.pc = "update", !.target = target ]
  <2>3. state \in TaskStates /\ state.pc = "update" /\ state.target = target
    BY IdleTypes DEF TaskStates, IdleTask
  <2>4. OneRequest' /\ task'[t] = state /\ \A u \in Tasks \ { t } : task'[u].pc = "idle"
    BY <1>0, <1>1, <2>1, <2>3, OneSlot DEF UpdateStatusRead, Request
  <2> QED
    BY <1>0, <1>1, <1>a, <2>2, <2>3, <2>4 DEF UpdateStatusRead
<1>2. ASSUME NEW t \in Tasks, UpdateStatusWrite(t)
      PROVE  SerialInv' /\ (row'.status = row.status \/ Lifecycle!Next)
  <2>1. /\ task[t].target \in OrderStatuses \cup { NoStatus }
        /\ task[t].target \in allowedTransitions[row.status] \cup { row.status }
        /\ row'.status = task[t].target
    BY <1>0, <1>2 DEF UpdateStatusWrite, ReadingIsCurrent, TaskStates, Rows
  <2>2. task[t].target \in OrderStatuses
    BY <1>0, <2>1 DEF allowedTransitions, OrderStatuses, NoStatus
  <2> DEFINE state == [ task[t] EXCEPT !.pc = "push" ]
  <2>3. state \in TaskStates /\ state.pc = "push"
    BY <1>0 DEF TaskStates
  <2>4. OneRequest' /\ task'[t] = state /\ \A u \in Tasks \ { t } : task'[u].pc = "idle"
    BY <1>0, <1>2, <2>3, OneSlot DEF UpdateStatusWrite
  <2>5. SerialInv'
    BY <1>0, <1>2, <1>a, <2>1, <2>2, <2>3, <2>4 DEF UpdateStatusWrite
  <2> QED
    BY <1>s, <2>1, <2>5, ListedChange
<1>3. ASSUME NEW t \in Tasks, PushStatus(t)
      PROVE  SerialInv' /\ row' = row
  <2>1. IdleTask \in TaskStates /\ IdleTask.pc = "idle"
    BY IdleTypes DEF IdleTask
  <2>2. OneRequest' /\ task'[t] = IdleTask /\ \A u \in Tasks \ { t } : task'[u].pc = "idle"
    BY <1>0, <1>3, <2>1, OneSlot DEF PushStatus
  <2> QED
    BY <1>0, <1>3, <1>a, <2>1, <2>2 DEF PushStatus
<1>4. ASSUME NEW t \in Tasks, CancelOrderRead(t)
      PROVE  SerialInv' /\ row' = row
  <2> DEFINE state == [ IdleTask EXCEPT !.pc = "cancel" ]
  <2>1. state \in TaskStates /\ state.pc = "cancel"
    BY IdleTypes DEF TaskStates, IdleTask
  <2>2. OneRequest' /\ task'[t] = state /\ \A u \in Tasks \ { t } : task'[u].pc = "idle"
    BY <1>0, <1>4, <2>1, OneSlot DEF CancelOrderRead, Request
  <2> QED
    BY <1>0, <1>4, <1>a, <2>1, <2>2 DEF CancelOrderRead
<1>5. ASSUME NEW t \in Tasks, CancelOrderWrite(t)
      PROVE  SerialInv' /\ Lifecycle!Next
  <2>1. row'.status = "CANCELLED" /\ row.status \in { "PENDING", "CONFIRMED" }
    BY <1>0, <1>5 DEF CancelOrderWrite, ReadingIsCurrent, Rows
  <2>2. IdleTask \in TaskStates /\ IdleTask.pc = "idle"
    BY IdleTypes DEF IdleTask
  <2>3. OneRequest' /\ task'[t] = IdleTask /\ \A u \in Tasks \ { t } : task'[u].pc = "idle"
    BY <1>0, <1>5, <2>2, OneSlot DEF CancelOrderWrite
  <2>4. row'.status \in allowedTransitions[row.status] /\ row'.status \in OrderStatuses
    BY <2>1 DEF allowedTransitions, OrderStatuses
  <2>5. SerialInv'
    BY <1>0, <1>5, <1>a, <2>2, <2>3, <2>4 DEF CancelOrderWrite
  <2> QED
    BY <1>s, <2>4, <2>5, ListedChange
<1>6. ASSUME NEW t \in Tasks, NEW d \in Drivers, AcceptDelivery(t, d)
      PROVE  SerialInv' /\ row' = row
  <2> DEFINE state == [ IdleTask EXCEPT !.pc = "check", !.driver = d ]
  <2>1. state \in TaskStates /\ state.pc = "check"
    BY IdleTypes DEF TaskStates, IdleTask, DriverIds
  <2>2. OneRequest' /\ task'[t] = state /\ \A u \in Tasks \ { t } : task'[u].pc = "idle"
    BY <1>0, <1>6, <2>1, OneSlot DEF AcceptDelivery, Request
  <2> QED
    BY <1>0, <1>6, <1>a, <2>1, <2>2 DEF AcceptDelivery
<1>7. ASSUME NEW t \in Tasks, AcceptanceCheck(t)
      PROVE  SerialInv' /\ row' = row
  <2>1. PICK state : /\ Become(t, state)
                     /\ \/ state = [ task[t] EXCEPT !.pc = "assign", !.target = row.status ]
                        \/ state = IdleTask
    BY <1>7 DEF AcceptanceCheck
  <2>2. /\ state \in TaskStates /\ state.pc \in { "assign", "idle" }
        /\ state.pc = "assign" => state.target = row.status
    BY <1>0, <2>1, IdleTypes DEF TaskStates, Rows, IdleTask
  <2>3. OneRequest' /\ task'[t] = state /\ \A u \in Tasks \ { t } : task'[u].pc = "idle"
    BY <1>0, <1>7, <2>1, <2>2, OneSlot DEF AcceptanceCheck
  <2> QED
    BY <1>0, <1>7, <1>a, <2>2, <2>3 DEF AcceptanceCheck
<1>8. ASSUME NEW t \in Tasks, AcceptanceAssign(t)
      PROVE  SerialInv' /\ (row'.status = row.status \/ Lifecycle!Next)
  <2>1. \/ row'.status = row.status
        \/ row.status = "PENDING" /\ row'.status = "CONFIRMED"
    BY <1>0, <1>8 DEF AcceptanceAssign, ReadingIsCurrent
  <2> DEFINE state == [ task[t] EXCEPT !.pc = "push", !.target = "CONFIRMED" ]
  <2>2. state \in TaskStates /\ state.pc = "push"
    BY <1>0 DEF TaskStates, OrderStatuses
  <2>3. OneRequest' /\ task'[t] = state /\ \A u \in Tasks \ { t } : task'[u].pc = "idle"
    BY <1>0, <1>8, <2>2, OneSlot DEF AcceptanceAssign
  <2>4. row'.status \in OrderStatuses
    BY <1>0, <2>1 DEF OrderStatuses
  <2>5. SerialInv'
    BY <1>0, <1>8, <1>a, <2>2, <2>3, <2>4 DEF AcceptanceAssign
  <2>6. row'.status = row.status \/ row'.status \in allowedTransitions[row.status]
    BY <2>1 DEF allowedTransitions
  <2> QED
    BY <1>s, <2>5, <2>6, ListedChange
<1>9. (\A s \in AppStatuses : ~AppWritesStatus(s)) /\ (\A d \in Drivers : ~AppWritesDriver(d))
  BY <1>0 DEF AppWritesStatus, AppWritesDriver
<1>10. \A l \in Listeners : ~ListenerStep(l)
  BY <1>0
  DEF NothingToCarry, ListenerStep, Snapshot, SyncOrderUpsert, SyncOrderMark, SyncStatusRead,
      SyncStatusForce, SyncDriver
<1>11. ASSUME UNCHANGED vars PROVE SerialInv' /\ row' = row
  BY <1>0, <1>11 DEF vars, SerialInv, OneRequest, ReadingIsCurrent, NothingToCarry
<1>12. SerialInv' /\ (row' = row \/ row'.status = row.status \/ Lifecycle!Next)
  BY <1>1, <1>2, <1>3, <1>4, <1>5, <1>6, <1>7, <1>8, <1>9, <1>10, <1>11, Zenon
  DEF Next, Environment, TaskStep
<1> QED
  BY <1>s, <1>12

\* An order placed through the API whose requests do not overlap is an order of
\* OrderLifecycle: every change of its status is a listed one.
THEOREM Refinement == Spec => ImplementsLifecycle
<1>1. Init => (Serial => SerialInv) /\ Lifecycle!Init
  <2>1. Init /\ Serial => row.status = "PENDING"
    BY DEF Serial, Init
  <2>2. Init /\ Serial => SerialInv
    BY <2>1 DEF Serial, Init, IdleTask, IdleHandler, SerialInv, OneRequest, NothingToCarry, ReadingIsCurrent,
         OrderStatuses
  <2> QED
    BY <2>1, <2>2 DEF Lifecycle!Init
<1>2. TypeOK /\ TypeOK' /\ (Serial => SerialInv) /\ [Next]_vars =>
        (Serial => SerialInv)' /\ [Lifecycle!Next]_(IF Serial THEN row.status ELSE "PENDING")
  <2> SUFFICES ASSUME TypeOK, TypeOK', Serial => SerialInv, [Next]_vars
               PROVE  (Serial => SerialInv)' /\ [Lifecycle!Next]_(IF Serial THEN row.status ELSE "PENDING")
    OBVIOUS
  <2>1. CASE Serial
    BY <2>1, SerialStep
  <2>2. CASE ~Serial
    BY <2>2, ScenarioStays
  <2> QED
    BY <2>1, <2>2
<1> QED
  BY <1>1, <1>2, TypeCorrect, PTL DEF Spec, ImplementsLifecycle, Lifecycle!Spec

(***************************************************************************)
(* Settlement                                                              *)
(***************************************************************************)

Pcs == { "idle" } \cup ApiSteps \cup TxSteps

(***************************************************************************)
(* What the helpers do                                                     *)
(***************************************************************************)
Moves(c, to) ==
  /\ call'[c].pc = to /\ call'[c].order = call[c].order
  /\ \A d \in Calls : d # c => call'[d] = call[d]

Ends(c) == call'[c].pc = "idle" /\ \A d \in Calls : d # c => call'[d] = call[d]

LEMMA IdleType == IdleCall \in CallStates /\ IdleCall.pc = "idle"
BY SettlementAssumption DEF IdleCall, CallStates

\* What a step does to the slot it is of.
LEMMA CallSet ==
  ASSUME SettlementTypeOK, NEW c \in Calls, NEW state \in CallStates, call' = [ call EXCEPT ![c] = state ]
  PROVE  /\ call' \in [ Calls -> CallStates ]
         /\ call'[c] = state /\ \A d \in Calls : d # c => call'[d] = call[d]
BY DEF SettlementTypeOK

LEMMA CallEnds ==
  ASSUME SettlementTypeOK, NEW c \in Calls, Finish(c)
  PROVE  call' \in [ Calls -> CallStates ] /\ Ends(c)
BY IdleType, CallSet DEF Finish, Ends

LEMMA CallMoves ==
  ASSUME SettlementTypeOK, NEW c \in Calls, NEW pc \in Pcs, Goto(c, pc)
  PROVE  call' \in [ Calls -> CallStates ] /\ Moves(c, pc)
<1>1. call \in [ Calls -> CallStates ] /\ call[c] \in CallStates
  BY DEF SettlementTypeOK
<1>2. PICK state \in CallStates : state = [ call[c] EXCEPT !.pc = pc ]
  BY <1>1 DEF CallStates, Pcs
<1>3. state.pc = pc /\ state.order = call[c].order
  BY <1>1, <1>2 DEF CallStates
<1>4. call' = [ call EXCEPT ![c] = state ]
  BY <1>1, <1>2 DEF Goto
<1> QED
  BY <1>3, <1>4, CallSet DEF Moves

LEMMA CallReads ==
  ASSUME SettlementTypeOK, NEW c \in Calls, NEW pc \in Pcs, ReadProfile(c, pc)
  PROVE  call' \in [ Calls -> CallStates ] /\ Moves(c, pc)
<1>1. /\ call \in [ Calls -> CallStates ] /\ call[c] \in CallStates
      /\ driver \in [ debt : Int, available : BOOLEAN ]
  BY DEF SettlementTypeOK
<1>2. PICK state \in CallStates : state = [ call[c] EXCEPT !.pc = pc, !.debt = driver.debt,
                                                           !.available = driver.available ]
  BY <1>1 DEF CallStates, Pcs
<1>3. state.pc = pc /\ state.order = call[c].order
  BY <1>1, <1>2 DEF CallStates
<1>4. call' = [ call EXCEPT ![c] = state ]
  BY <1>1, <1>2 DEF ReadProfile
<1> QED
  BY <1>3, <1>4, CallSet DEF Moves

LEMMA CallStarts ==
  ASSUME SettlementTypeOK, NEW c \in Calls, NEW o \in Orders, Start(c, o)
  PROVE  /\ call' \in [ Calls -> CallStates ]
         /\ call'[c].pc \in { "guard", "txGuard" }
         /\ \A d \in Calls : d # c => call'[d] = call[d]
<1>1. PICK pc \in { "guard", "txGuard" } :
        call' = [ call EXCEPT ![c] = [ IdleCall EXCEPT !.pc = pc, !.order = o ] ]
  <2>1. PICK path \in Paths :
          call' = [ call EXCEPT ![c] =
            [ IdleCall EXCEPT !.pc = IF path = "api" THEN "guard" ELSE "txGuard", !.order = o ] ]
    BY DEF Start
  <2> QED
    BY <2>1
<1>2. /\ [ IdleCall EXCEPT !.pc = pc, !.order = o ] \in CallStates
      /\ [ IdleCall EXCEPT !.pc = pc, !.order = o ].pc = pc
  BY IdleType DEF CallStates, ApiSteps, TxSteps, IdleCall
<1> QED
  BY <1>1, <1>2, CallSet

LEMMA Credited ==
  ASSUME SettlementTypeOK, NEW o \in Orders, NEW accounts, Credit(o, accounts)
  PROVE  /\ paid' \in [ Orders -> [ Accounts -> Nat ] ]
         /\ \A p \in Orders, a \in Accounts :
              paid'[p][a] = IF p = o /\ a \in accounts THEN paid[p][a] + 1 ELSE paid[p][a]
BY DEF SettlementTypeOK, Credit

LEMMA Entered ==
  ASSUME SettlementTypeOK, NEW o \in Orders, NEW entries, Enter(o, entries)
  PROVE  /\ ledger' \in [ Orders -> [ Entries -> Nat ] ]
         /\ \A p \in Orders, e \in Entries :
              ledger'[p][e] = IF p = o /\ e \in entries THEN ledger[p][e] + 1 ELSE ledger[p][e]
BY DEF SettlementTypeOK, Enter

(***************************************************************************)
(* Types                                                                   *)
(***************************************************************************)
LEMMA TypeInductive == SettlementTypeOK /\ [SettlementNext]_settlementVars => SettlementTypeOK'
<1> SUFFICES ASSUME SettlementTypeOK, [SettlementNext]_settlementVars PROVE SettlementTypeOK'
  OBVIOUS
<1> USE DEF Pcs, ApiSteps, TxSteps
<1>1. ASSUME NEW c \in Calls, NEW o \in Orders, Start(c, o) PROVE SettlementTypeOK'
  <2>1. starts' \in 0..MaxStarts
    BY <1>1, SettlementAssumption DEF SettlementTypeOK, Start
  <2> QED
    BY <1>1, <2>1, CallStarts DEF SettlementTypeOK, Start
<1>2. ASSUME NEW c \in Calls, Progress(c) PROVE SettlementTypeOK'
  <2>0. call[c].order \in Orders /\ call[c].debt \in Int /\ call[c].available \in BOOLEAN
    BY DEF SettlementTypeOK, CallStates
  <2>d. /\ DebtOf[call[c].order] \in Int /\ driver \in [ debt : Int, available : BOOLEAN ]
        /\ \A debt \in Int : StaysAvailable(c, debt) \in BOOLEAN
    BY <2>0, SettlementAssumption, Zenon DEF SettlementTypeOK, StaysAvailable
  <2>1. CASE ApiGuard(c)
    BY <2>1, CallEnds, CallMoves DEF SettlementTypeOK, ApiGuard
  <2>2. CASE ApiSaveSplit(c)
    BY <2>0, <2>2, CallMoves DEF SettlementTypeOK, ApiSaveSplit
  <2>3. CASE ApiCreditRestaurant(c)
    BY <2>0, <2>3, CallMoves, Credited DEF SettlementTypeOK, ApiCreditRestaurant
  <2>4. CASE ApiCreditOwner(c)
    BY <2>0, <2>4, CallMoves, Credited DEF SettlementTypeOK, ApiCreditOwner
  <2>5. CASE ApiOwnerEntry(c)
    BY <2>0, <2>5, CallMoves, Entered DEF SettlementTypeOK, ApiOwnerEntry
  <2>6. CASE ApiReadDriver(c)
    BY <2>6, CallReads DEF SettlementTypeOK, ApiReadDriver
  <2>7. CASE ApiCreditDriver(c)
    BY <2>0, <2>7, CallMoves, Credited DEF SettlementTypeOK, ApiCreditDriver
  <2>8. CASE ApiUpdateProfile(c)
    <3>1. driver' \in [ debt : Int, available : BOOLEAN ]
      <4> DEFINE debt == call[c].debt + DebtOf[call[c].order]
      <4>1. debt \in Int /\ StaysAvailable(c, debt) \in BOOLEAN
        BY <2>0, <2>d
      <4>2. driver' = [ debt |-> debt, available |-> StaysAvailable(c, debt) ] \/ driver' = driver
        BY <2>8 DEF ApiUpdateProfile
      <4> QED
        BY <2>d, <4>1, <4>2
    <3> QED
      BY <2>0, <2>8, <3>1, CallMoves, Credited DEF SettlementTypeOK, ApiUpdateProfile
  <2>9. CASE ApiDriverEntry(c)
    BY <2>0, <2>9, CallMoves, Entered DEF SettlementTypeOK, ApiDriverEntry
  <2>10. CASE ApiDebtEntry(c)
    BY <2>0, <2>10, CallMoves, Entered DEF SettlementTypeOK, ApiDebtEntry
  <2>11. CASE AwardPoints(c)
    BY <2>0, <2>11, CallEnds DEF SettlementTypeOK, AwardPoints
  <2>12. CASE TxGuard(c)
    BY <2>12, CallEnds, CallMoves DEF SettlementTypeOK, TxGuard
  <2>13. CASE TxLockRows(c)
    <3>1. lock' \in [ Restaurants -> Calls \cup { NoCall } ]
      BY <2>13 DEF SettlementTypeOK, TxLockRows
    <3> QED
      BY <2>13, <3>1, CallMoves DEF SettlementTypeOK, TxLockRows
  <2>14. CASE TxReadDriver(c)
    BY <2>14, CallReads DEF SettlementTypeOK, TxReadDriver
  <2>15. CASE TxCommit(c)
    <3>1. driver' \in [ debt : Int, available : BOOLEAN ]
      <4> DEFINE increase == IF call[c].order \in Cash THEN DebtOf[call[c].order] ELSE 0
      <4>1. /\ increase \in Int /\ driver.debt + increase \in Int
            /\ StaysAvailable(c, call[c].debt + increase) \in BOOLEAN
        BY <2>0, <2>d
      <4>2. \/ driver' = [ debt |-> driver.debt + increase,
                           available |-> StaysAvailable(c, call[c].debt + increase) ]
            \/ driver' = driver
        BY <2>15 DEF TxCommit
      <4> QED
        BY <2>d, <4>1, <4>2
    <3>2. lock' \in [ Restaurants -> Calls \cup { NoCall } ]
      BY <2>15 DEF SettlementTypeOK, TxCommit, Release
    <3>3. /\ Credit(call[c].order, TxAccounts(call[c].order))
          /\ Enter(call[c].order, TxEntries(call[c].order))
          /\ Goto(c, "points") /\ split' = split \cup { call[c].order }
      BY <2>15 DEF TxCommit
    <3>4. paid' \in [ Orders -> [ Accounts -> Nat ] ] /\ ledger' \in [ Orders -> [ Entries -> Nat ] ]
      BY <2>0, <3>3, Credited, Entered
    <3>5. call' \in [ Calls -> CallStates ]
      BY <3>3, CallMoves
    <3> QED
      BY <2>0, <2>15, <3>1, <3>2, <3>3, <3>4, <3>5 DEF SettlementTypeOK, TxCommit
  <2> QED
    BY <1>2, <2>1, <2>2, <2>3, <2>4, <2>5, <2>6, <2>7, <2>8, <2>9, <2>10, <2>11, <2>12, <2>13,
       <2>14, <2>15 DEF Progress
<1>3. ASSUME NEW c \in Calls, ApiFail(c) PROVE SettlementTypeOK'
  BY <1>3, CallEnds DEF SettlementTypeOK, ApiFail
<1>4. ASSUME NEW c \in Calls, TxAbort(c) PROVE SettlementTypeOK'
  <2>1. call' \in [ Calls -> CallStates ]
    BY <1>4, CallEnds, CallMoves DEF TxAbort
  <2>2. lock' \in [ Restaurants -> Calls \cup { NoCall } ]
    BY <1>4 DEF SettlementTypeOK, TxAbort, Release
  <2> QED
    BY <1>4, <2>1, <2>2 DEF SettlementTypeOK, TxAbort
<1>5. CASE UNCHANGED settlementVars
  BY <1>5 DEF SettlementTypeOK, settlementVars
<1> QED
  BY <1>1, <1>2, <1>3, <1>4, <1>5 DEF SettlementNext

LEMMA TypeInit == SettlementInit => SettlementTypeOK
BY IdleType, SettlementAssumption DEF SettlementInit, SettlementTypeOK

\* The type invariant, for any number of orders and overlapping settlements.
THEOREM SettlementTypes == SettlementSpec => []SettlementTypeOK
BY TypeInit, TypeInductive, PTL DEF SettlementSpec

(***************************************************************************)
(* Counting the settlements that have something left to do for an order    *)
(***************************************************************************)
Count(o, pcs) == Cardinality({ c \in Calls : call[c].order = o /\ call[c].pc \in pcs })

\* The steps that lead to: the owner's entry; the restaurant's; the driver's trip; the
\* driver's entry; the award of points.
OwnerDue == { "ownerEntry" }
RestaurantDue == { "owner", "ownerEntry" }
TripDue == { "driver", "driverWallet", "profile" }
EntryDue == TripDue \cup { "driverEntry" }
PointsDue == EntryDue \cup { "debtEntry", "points" }

Weight(pc, pcs) == IF pc \in pcs THEN 1 ELSE 0

\* A step of one settlement changes the count of its own order by what it was and becomes.
LEMMA CountChange ==
  ASSUME NEW c \in Calls, NEW o, NEW pcs, \A d \in Calls : d # c => call'[d] = call[d]
  PROVE  /\ Count(o, pcs) \in Nat
         /\ Count(o, pcs)' = Count(o, pcs)
              - (IF call[c].order = o THEN Weight(call[c].pc, pcs) ELSE 0)
              + (IF call'[c].order = o THEN Weight(call'[c].pc, pcs) ELSE 0)
<1> DEFINE in == { d \in Calls : call[d].order = o /\ call[d].pc \in pcs }
           after == { d \in Calls : call'[d].order = o /\ call'[d].pc \in pcs }
           rest == in \ { c }
<1>1. IsFiniteSet(in) /\ IsFiniteSet(rest)
  <2>1. IsFiniteSet(in)
    BY SettlementAssumption, FS_Subset
  <2> QED
    BY <2>1, FS_RemoveElement
<1>2. Cardinality(in) \in Nat /\ Cardinality(rest) \in Nat
  BY <1>1, FS_CardinalityType
<1>3. Cardinality(rest) = IF c \in in THEN Cardinality(in) - 1 ELSE Cardinality(in)
  BY <1>1, FS_RemoveElement
<1>4. after = IF c \in after THEN rest \cup { c } ELSE rest
  OBVIOUS
<1>5. Cardinality(after) = IF c \in after THEN Cardinality(rest) + 1 ELSE Cardinality(rest)
  <2>1. Cardinality(rest \cup { c }) = Cardinality(rest) + 1
    BY <1>1, FS_AddElement
  <2> QED
    BY <1>4, <2>1
<1>6. /\ c \in in <=> call[c].order = o /\ call[c].pc \in pcs
      /\ c \in after <=> call'[c].order = o /\ call'[c].pc \in pcs
  OBVIOUS
<1>7. Count(o, pcs) = Cardinality(in) /\ Count(o, pcs)' = Cardinality(after)
  BY DEF Count
<1> HIDE DEF in, after, rest
<1> QED
  BY <1>2, <1>3, <1>5, <1>6, <1>7 DEF Weight

LEMMA NotIdle ==
  \A pcs \in { OwnerDue, RestaurantDue, TripDue, EntryDue, PointsDue } : "idle" \notin pcs
BY DEF OwnerDue, RestaurantDue, TripDue, EntryDue, PointsDue

LEMMA CountNone ==
  ASSUME NEW o, NEW pcs, \A c \in Calls : call[c].pc \notin pcs
  PROVE  Count(o, pcs) = 0
BY FS_EmptySet DEF Count

\* The same for a step that stays with its order, or ends the settlement.
LEMMA CountStep ==
  ASSUME NEW c \in Calls, NEW pcs, "idle" \notin pcs, NEW to, Moves(c, to) \/ (to = "idle" /\ Ends(c))
  PROVE  \A o \in Orders :
           /\ Count(o, pcs) \in Nat
           /\ Count(o, pcs)' = IF o = call[c].order
                               THEN Count(o, pcs) + Weight(to, pcs) - Weight(call[c].pc, pcs)
                               ELSE Count(o, pcs)
<1> SUFFICES ASSUME NEW o \in Orders
             PROVE  /\ Count(o, pcs) \in Nat
                    /\ Count(o, pcs)' = IF o = call[c].order
                                        THEN Count(o, pcs) + Weight(to, pcs) - Weight(call[c].pc, pcs)
                                        ELSE Count(o, pcs)
  OBVIOUS
<1>1. \A d \in Calls : d # c => call'[d] = call[d]
  BY DEF Moves, Ends
<1>2. /\ Count(o, pcs) \in Nat
      /\ Count(o, pcs)' = Count(o, pcs)
           - (IF call[c].order = o THEN Weight(call[c].pc, pcs) ELSE 0)
           + (IF call'[c].order = o THEN Weight(call'[c].pc, pcs) ELSE 0)
  BY <1>1, CountChange
<1>3. call'[c].pc = to /\ (call'[c].order = call[c].order \/ Weight(to, pcs) = 0)
  BY DEF Moves, Ends, Weight
<1>4. Weight(to, pcs) \in Nat /\ Weight(call[c].pc, pcs) \in Nat
  BY DEF Weight
<1> QED
  BY <1>2, <1>3, <1>4

(***************************************************************************)
(* The wallet of the owner and the ledger                                  *)
(***************************************************************************)
\* The owner was credited as often as there are entries, but for the settlements that are
\* about to write theirs.
OwnerInv == \A o \in Orders : paid[o]["owner"] = ledger[o]["owner"] + Count(o, OwnerDue)

LEMMA OwnerKept ==
  ASSUME SettlementTypeOK, OwnerInv, NEW c \in Calls, NEW to, Moves(c, to) \/ (to = "idle" /\ Ends(c)),
         \A o \in Orders : /\ paid'[o]["owner"] = paid[o]["owner"]
                           /\ ledger'[o]["owner"] = ledger[o]["owner"],
         call[c].pc # "ownerEntry", to # "ownerEntry"
  PROVE  OwnerInv'
<1>1. \A o \in Orders : Count(o, OwnerDue)' = Count(o, OwnerDue)
  <2>1. Weight(to, OwnerDue) = 0 /\ Weight(call[c].pc, OwnerDue) = 0
    BY DEF OwnerDue, Weight
  <2> QED
    BY <2>1, CountStep, NotIdle
<1> QED
  BY <1>1 DEF OwnerInv

LEMMA OwnerInductive ==
  ASSUME "ownerEntry" \notin FailingSteps, SettlementTypeOK, OwnerInv, [SettlementNext]_settlementVars
  PROVE  OwnerInv'
<1> USE DEF Pcs, ApiSteps, TxSteps
<1>0. \A c \in Calls : call[c].order \in Orders
  BY DEF SettlementTypeOK, CallStates
<1>t. /\ \A o \in Orders, a \in Accounts : paid[o][a] \in Nat
      /\ \A o \in Orders, e \in Entries : ledger[o][e] \in Nat
  BY DEF SettlementTypeOK
<1>1. ASSUME NEW c \in Calls, NEW o \in Orders, Start(c, o) PROVE OwnerInv'
  <2>1. /\ \A d \in Calls : d # c => call'[d] = call[d]
        /\ call[c].pc = "idle" /\ call'[c].pc \in { "guard", "txGuard" }
        /\ UNCHANGED << paid, ledger >>
    BY <1>1, CallStarts DEF Start, At
  <2>2. \A p \in Orders : Count(p, OwnerDue)' = Count(p, OwnerDue)
    <3>1. Weight(call[c].pc, OwnerDue) = 0 /\ Weight(call'[c].pc, OwnerDue) = 0
      BY <2>1 DEF OwnerDue, Weight
    <3> QED
      BY <2>1, <3>1, CountChange
  <2> QED
    BY <2>1, <2>2 DEF OwnerInv
<1>2. ASSUME NEW c \in Calls, ApiCreditOwner(c) PROVE OwnerInv'
  <2>1. /\ Moves(c, "ownerEntry") /\ call[c].pc = "owner" /\ UNCHANGED ledger
        /\ \A o \in Orders : paid'[o]["owner"] =
             IF o = call[c].order THEN paid[o]["owner"] + 1 ELSE paid[o]["owner"]
    BY <1>0, <1>2, CallMoves, Credited DEF ApiCreditOwner, At, Accounts
  <2>2. \A o \in Orders : Count(o, OwnerDue)' =
             IF o = call[c].order THEN Count(o, OwnerDue) + 1 ELSE Count(o, OwnerDue)
    <3>1. Weight("ownerEntry", OwnerDue) = 1 /\ Weight("owner", OwnerDue) = 0
      BY DEF OwnerDue, Weight
    <3> QED
      BY <2>1, <3>1, CountStep, NotIdle
  <2>3. \A o \in Orders : Count(o, OwnerDue) \in Nat
    BY <2>1, CountStep, NotIdle
  <2> QED
    BY <1>t, <2>1, <2>2, <2>3 DEF OwnerInv, Accounts, Entries
<1>3. ASSUME NEW c \in Calls, ApiOwnerEntry(c) PROVE OwnerInv'
  <2>1. PICK to \in { "driver", "points" } : Moves(c, to)
    BY <1>3, CallMoves DEF ApiOwnerEntry
  <2>2. /\ call[c].pc = "ownerEntry" /\ UNCHANGED paid
        /\ \A o \in Orders : ledger'[o]["owner"] =
             IF o = call[c].order THEN ledger[o]["owner"] + 1 ELSE ledger[o]["owner"]
    BY <1>0, <1>3, Entered DEF ApiOwnerEntry, At, Entries
  <2>3. \A o \in Orders : Count(o, OwnerDue)' =
             IF o = call[c].order THEN Count(o, OwnerDue) - 1 ELSE Count(o, OwnerDue)
    <3>1. Weight("ownerEntry", OwnerDue) = 1 /\ Weight(to, OwnerDue) = 0
      BY DEF OwnerDue, Weight
    <3> QED
      BY <2>1, <2>2, <3>1, CountStep, NotIdle
  <2>4. \A o \in Orders : Count(o, OwnerDue) \in Nat
    BY <2>1, CountStep, NotIdle
  <2> QED
    BY <1>t, <2>2, <2>3, <2>4 DEF OwnerInv, Accounts, Entries
<1>4. ASSUME NEW c \in Calls, TxCommit(c) PROVE OwnerInv'
  <2>1. Moves(c, "points") /\ call[c].pc = "txCommit"
    BY <1>4, CallMoves DEF TxCommit, At
  <2>2. \A o \in Orders :
          /\ paid'[o]["owner"] = IF o = call[c].order THEN paid[o]["owner"] + 1 ELSE paid[o]["owner"]
          /\ ledger'[o]["owner"] = IF o = call[c].order THEN ledger[o]["owner"] + 1 ELSE ledger[o]["owner"]
    <3>1. Credit(call[c].order, TxAccounts(call[c].order)) /\ Enter(call[c].order, TxEntries(call[c].order))
      BY <1>4 DEF TxCommit
    <3>2. "owner" \in TxAccounts(call[c].order) /\ "owner" \in TxEntries(call[c].order)
      BY DEF TxAccounts, TxEntries
    <3> QED
      BY <1>0, <3>1, <3>2, Credited, Entered DEF Accounts, Entries
  <2>3. \A o \in Orders : Count(o, OwnerDue)' = Count(o, OwnerDue) /\ Count(o, OwnerDue) \in Nat
    <3>1. Weight("txCommit", OwnerDue) = 0 /\ Weight("points", OwnerDue) = 0
      BY DEF OwnerDue, Weight
    <3> QED
      BY <2>1, <3>1, CountStep, NotIdle
  <2> QED
    BY <1>t, <2>2, <2>3 DEF OwnerInv, Accounts, Entries
\* The other credits and entries are not the owner's.
<1>5. ASSUME NEW c \in Calls,
             \/ ApiCreditRestaurant(c) \/ ApiCreditDriver(c) \/ ApiUpdateProfile(c)
             \/ ApiDriverEntry(c) \/ ApiDebtEntry(c)
      PROVE  OwnerInv'
  <2>1. PICK to \in Pcs : Moves(c, to) /\ to # "ownerEntry"
    BY <1>5, CallMoves DEF ApiCreditRestaurant, ApiCreditDriver, ApiUpdateProfile, ApiDriverEntry, ApiDebtEntry
  <2>2. call[c].pc # "ownerEntry"
    BY <1>5 DEF ApiCreditRestaurant, ApiCreditDriver, ApiUpdateProfile, ApiDriverEntry, ApiDebtEntry, At
  <2>3. \A o \in Orders : paid'[o]["owner"] = paid[o]["owner"] /\ ledger'[o]["owner"] = ledger[o]["owner"]
    <3>1. CASE ApiCreditRestaurant(c) \/ ApiCreditDriver(c) \/ ApiUpdateProfile(c)
      <4>1. PICK account \in Accounts \ { "owner" } : Credit(call[c].order, { account })
        BY <3>1 DEF ApiCreditRestaurant, ApiCreditDriver, ApiUpdateProfile, Accounts
      <4>2. UNCHANGED ledger
        BY <3>1 DEF ApiCreditRestaurant, ApiCreditDriver, ApiUpdateProfile
      <4> QED
        BY <1>0, <4>1, <4>2, Credited DEF Accounts
    <3>2. CASE ApiDriverEntry(c) \/ ApiDebtEntry(c)
      <4>1. PICK entry \in Entries \ { "owner" } : Enter(call[c].order, { entry })
        BY <3>2 DEF ApiDriverEntry, ApiDebtEntry, Entries
      <4>2. UNCHANGED paid
        BY <3>2 DEF ApiDriverEntry, ApiDebtEntry
      <4> QED
        BY <1>0, <4>1, <4>2, Entered DEF Entries
    <3> QED
      BY <1>5, <3>1, <3>2
  <2> QED
    BY <2>1, <2>2, <2>3, OwnerKept
<1>6. ASSUME NEW c \in Calls,
             \/ ApiGuard(c) \/ ApiSaveSplit(c) \/ ApiReadDriver(c) \/ AwardPoints(c)
             \/ TxGuard(c) \/ TxLockRows(c) \/ TxReadDriver(c) \/ ApiFail(c) \/ TxAbort(c)
      PROVE  OwnerInv'
  <2>1. UNCHANGED << paid, ledger >>
    BY <1>6 DEF ApiGuard, ApiSaveSplit, ApiReadDriver, AwardPoints, TxGuard, TxLockRows, TxReadDriver,
       ApiFail, TxAbort
  <2>2. call[c].pc # "ownerEntry"
    BY <1>6 DEF ApiGuard, ApiSaveSplit, ApiReadDriver, AwardPoints, TxGuard, TxLockRows, TxReadDriver,
       ApiFail, TxAbort, At
  <2>3. PICK to \in Pcs : (Moves(c, to) \/ (to = "idle" /\ Ends(c))) /\ to # "ownerEntry"
    <3>1. CASE ApiReadDriver(c) \/ TxReadDriver(c)
      BY <3>1, CallReads DEF ApiReadDriver, TxReadDriver
    <3>2. CASE ~ (ApiReadDriver(c) \/ TxReadDriver(c))
      <4>1. PICK to \in { "idle", "split", "restaurant", "txRows", "txDriver", "txCommit", "points" } :
              Goto(c, to) \/ (to = "idle" /\ Finish(c))
        BY <1>6, <3>2 DEF ApiGuard, ApiSaveSplit, AwardPoints, TxGuard, TxLockRows, ApiFail, TxAbort
      <4> QED
        BY <4>1, CallMoves, CallEnds
    <3> QED
      BY <3>1, <3>2
  <2> QED
    BY <2>1, <2>2, <2>3, OwnerKept
<1>7. CASE UNCHANGED settlementVars
  BY <1>7 DEF OwnerInv, Count, settlementVars
<1> QED
  BY <1>1, <1>2, <1>3, <1>4, <1>5, <1>6, <1>7 DEF SettlementNext, Progress

LEMMA OwnerInit == SettlementInit => OwnerInv
<1> SUFFICES ASSUME SettlementInit PROVE OwnerInv
  OBVIOUS
<1>1. \A o \in Orders : Count(o, OwnerDue) = 0
  BY IdleType, CountNone DEF SettlementInit, OwnerDue
<1> QED
  BY <1>1 DEF SettlementInit, OwnerInv, Accounts, Entries

\* The wallet of the owner and the ledger tell the same story at every moment, however many
\* settlements overlap through either path and whatever fails but the entry itself: a credit
\* without an entry belongs to a settlement that is about to write it.
THEOREM OwnerCredits == "ownerEntry" \notin FailingSteps => (SettlementSpec => []OwnerEntriesBackCredits)
<1> SUFFICES ASSUME "ownerEntry" \notin FailingSteps PROVE SettlementSpec => []OwnerEntriesBackCredits
  OBVIOUS
<1>1. SettlementTypeOK /\ OwnerInv /\ [SettlementNext]_settlementVars => (SettlementTypeOK /\ OwnerInv)'
  BY TypeInductive, OwnerInductive
<1>2. OwnerInv => OwnerEntriesBackCredits
  <2>1. ASSUME NEW o \in Orders
        PROVE  Count(o, OwnerDue) = Cardinality({ c \in Calls : At(c, "ownerEntry") /\ call[c].order = o })
    <3>1. { c \in Calls : call[c].order = o /\ call[c].pc \in OwnerDue }
            = { c \in Calls : At(c, "ownerEntry") /\ call[c].order = o }
      BY DEF OwnerDue, At
    <3> QED
      BY <3>1 DEF Count
  <2> QED
    BY <2>1 DEF OwnerInv, OwnerEntriesBackCredits
<1> QED
  BY <1>1, <1>2, TypeInit, OwnerInit, PTL DEF SettlementSpec

(***************************************************************************)
(* What the guard takes for settled                                        *)
(***************************************************************************)
\* No settlement stops between its first credit and its last step.
HalfwaySteps == RestaurantDue \cup PointsDue \cup { "txCommit" }
HarmlessFailures == FailingSteps \cap HalfwaySteps = {}

\* Credits, entries and awards of an order, each with the settlements that owe it one.
Books(o) ==
  /\ paid[o]["restaurant"] = ledger[o]["owner"] + Count(o, RestaurantDue)
  /\ ledger[o]["owner"] = points[o] + Count(o, PointsDue)
  /\ o \in Driven => /\ ledger[o]["owner"] = DriverEntries(o) + Count(o, EntryDue)
                     /\ ledger[o]["owner"] = paid[o]["trips"] + Count(o, TripDue)

AllBooks == \A o \in Orders : Books(o)

\* What an order gains by a step of c.
Gain(o, c, n) == IF o = call[c].order THEN n ELSE 0

\* A step keeps the books if what it adds is what it and its settlement owed before.
LEMMA BooksStep ==
  ASSUME SettlementTypeOK, AllBooks, NEW c \in Calls, NEW to, Moves(c, to) \/ (to = "idle" /\ Ends(c)),
         NEW restaurant \in 0..1, NEW entry \in 0..1, NEW award \in 0..1,
         NEW driverEntry \in 0..1, NEW trip \in 0..1,
         \A o \in Orders :
           /\ paid'[o]["restaurant"] = paid[o]["restaurant"] + Gain(o, c, restaurant)
           /\ ledger'[o]["owner"] = ledger[o]["owner"] + Gain(o, c, entry)
           /\ points'[o] = points[o] + Gain(o, c, award)
           /\ DriverEntries(o)' = DriverEntries(o) + Gain(o, c, driverEntry)
           /\ paid'[o]["trips"] = paid[o]["trips"] + Gain(o, c, trip),
         restaurant = entry + Weight(to, RestaurantDue) - Weight(call[c].pc, RestaurantDue),
         entry = award + Weight(to, PointsDue) - Weight(call[c].pc, PointsDue),
         call[c].order \in Driven =>
           /\ entry = driverEntry + Weight(to, EntryDue) - Weight(call[c].pc, EntryDue)
           /\ entry = trip + Weight(to, TripDue) - Weight(call[c].pc, TripDue)
  PROVE  AllBooks'
<1> SUFFICES ASSUME NEW o \in Orders PROVE Books(o)'
  BY DEF AllBooks
<1>1. /\ paid[o]["restaurant"] \in Nat /\ paid[o]["trips"] \in Nat /\ points[o] \in Nat
      /\ ledger[o]["owner"] \in Nat /\ DriverEntries(o) \in Nat
  BY DEF SettlementTypeOK, Accounts, Entries, DriverEntries
<1>2. ASSUME NEW pcs \in { RestaurantDue, TripDue, EntryDue, PointsDue }
      PROVE  /\ Count(o, pcs) \in Nat
             /\ Count(o, pcs)' = Count(o, pcs) + Gain(o, c, Weight(to, pcs) - Weight(call[c].pc, pcs))
             /\ Weight(to, pcs) \in 0..1 /\ Weight(call[c].pc, pcs) \in 0..1
  <2>1. Weight(to, pcs) \in 0..1 /\ Weight(call[c].pc, pcs) \in 0..1
    BY DEF Weight
  <2> QED
    BY <2>1, CountStep, NotIdle DEF Gain
<1>3. /\ Count(o, RestaurantDue)' = Count(o, RestaurantDue)
           + Gain(o, c, Weight(to, RestaurantDue) - Weight(call[c].pc, RestaurantDue))
      /\ Count(o, PointsDue)' = Count(o, PointsDue)
           + Gain(o, c, Weight(to, PointsDue) - Weight(call[c].pc, PointsDue))
      /\ Count(o, EntryDue)' = Count(o, EntryDue)
           + Gain(o, c, Weight(to, EntryDue) - Weight(call[c].pc, EntryDue))
      /\ Count(o, TripDue)' = Count(o, TripDue)
           + Gain(o, c, Weight(to, TripDue) - Weight(call[c].pc, TripDue))
      /\ Count(o, RestaurantDue) \in Nat /\ Count(o, PointsDue) \in Nat
      /\ Count(o, EntryDue) \in Nat /\ Count(o, TripDue) \in Nat
  BY <1>2
<1>4. /\ paid'[o]["restaurant"] = ledger'[o]["owner"] + Count(o, RestaurantDue)'
      /\ ledger'[o]["owner"] = points'[o] + Count(o, PointsDue)'
  BY <1>1, <1>2, <1>3 DEF AllBooks, Books, Gain
<1>5. o \in Driven => /\ ledger'[o]["owner"] = DriverEntries(o)' + Count(o, EntryDue)'
                      /\ ledger'[o]["owner"] = paid'[o]["trips"] + Count(o, TripDue)'
  BY <1>1, <1>2, <1>3 DEF AllBooks, Books, Gain
<1> QED
  BY <1>4, <1>5 DEF Books

Dues == { RestaurantDue, TripDue, EntryDue, PointsDue }

LEMMA BooksKept ==
  ASSUME SettlementTypeOK, AllBooks, NEW c \in Calls, NEW to, Moves(c, to) \/ (to = "idle" /\ Ends(c)),
         \A o \in Orders : /\ paid'[o]["restaurant"] = paid[o]["restaurant"] /\ paid'[o]["trips"] = paid[o]["trips"]
                           /\ ledger'[o]["owner"] = ledger[o]["owner"] /\ points'[o] = points[o]
                           /\ DriverEntries(o)' = DriverEntries(o),
         \A pcs \in Dues : Weight(to, pcs) = Weight(call[c].pc, pcs)
  PROVE  AllBooks'
<1>1. \A o \in Orders :
        /\ paid'[o]["restaurant"] = paid[o]["restaurant"] + Gain(o, c, 0)
        /\ ledger'[o]["owner"] = ledger[o]["owner"] + Gain(o, c, 0)
        /\ points'[o] = points[o] + Gain(o, c, 0)
        /\ DriverEntries(o)' = DriverEntries(o) + Gain(o, c, 0)
        /\ paid'[o]["trips"] = paid[o]["trips"] + Gain(o, c, 0)
  BY DEF Gain, SettlementTypeOK, Accounts, Entries, DriverEntries
<1>2. \A pcs \in Dues : 0 = 0 + Weight(to, pcs) - Weight(call[c].pc, pcs)
  BY DEF Weight
<1>3. 0 \in 0..1
  OBVIOUS
<1> QED
  BY <1>1, <1>2, <1>3, BooksStep DEF Dues

LEMMA BooksInductive ==
  ASSUME HarmlessFailures, SettlementTypeOK, AllBooks, [SettlementNext]_settlementVars
  PROVE  AllBooks'
<1> USE DEF Pcs, ApiSteps, TxSteps
<1>0. \A c \in Calls : call[c].order \in Orders
  BY DEF SettlementTypeOK, CallStates
<1>t. /\ \A o \in Orders, a \in Accounts : paid[o][a] \in Nat
      /\ \A o \in Orders, e \in Entries : ledger[o][e] \in Nat
      /\ \A o \in Orders : points[o] \in Nat /\ DriverEntries(o) \in Nat
  BY DEF SettlementTypeOK, DriverEntries, Entries
<1>01. 0 \in 0..1 /\ 1 \in 0..1
  OBVIOUS
<1>1. ASSUME NEW c \in Calls, NEW o \in Orders, Start(c, o) PROVE AllBooks'
  <2>1. /\ \A d \in Calls : d # c => call'[d] = call[d]
        /\ call[c].pc = "idle" /\ call'[c].pc \in { "guard", "txGuard" }
        /\ UNCHANGED << paid, ledger, points >>
    BY <1>1, CallStarts DEF Start, At
  <2>2. ASSUME NEW p \in Orders, NEW pcs \in Dues PROVE Count(p, pcs)' = Count(p, pcs)
    <3>1. Weight(call[c].pc, pcs) = 0 /\ Weight(call'[c].pc, pcs) = 0
      BY <2>1 DEF Dues, RestaurantDue, TripDue, EntryDue, PointsDue, Weight
    <3> QED
      BY <2>1, <3>1, CountChange
  <2> QED
    BY <2>1, <2>2 DEF AllBooks, Books, DriverEntries, Dues
<1>2. ASSUME NEW c \in Calls, ApiCreditRestaurant(c) PROVE AllBooks'
  <2>1. Moves(c, "owner") /\ call[c].pc = "restaurant" /\ UNCHANGED << ledger, points >>
    BY <1>2, CallMoves DEF ApiCreditRestaurant, At
  <2>2. \A o \in Orders :
          /\ paid'[o]["restaurant"] = paid[o]["restaurant"] + Gain(o, c, 1)
          /\ paid'[o]["trips"] = paid[o]["trips"] + Gain(o, c, 0)
    BY <1>0, <1>2, <1>t, Credited DEF ApiCreditRestaurant, Accounts, Gain
  <2>3. \A o \in Orders :
          /\ ledger'[o]["owner"] = ledger[o]["owner"] + Gain(o, c, 0)
          /\ points'[o] = points[o] + Gain(o, c, 0)
          /\ DriverEntries(o)' = DriverEntries(o) + Gain(o, c, 0)
    BY <1>t, <2>1 DEF Gain, Entries, DriverEntries
  <2>4. /\ 1 = 0 + Weight("owner", RestaurantDue) - Weight("restaurant", RestaurantDue)
        /\ \A pcs \in { TripDue, EntryDue, PointsDue } : 0 = 0 + Weight("owner", pcs) - Weight("restaurant", pcs)
    BY DEF RestaurantDue, TripDue, EntryDue, PointsDue, Weight
  <2> QED
    BY <1>01, <2>1, <2>2, <2>3, <2>4, BooksStep
<1>3. ASSUME NEW c \in Calls, ApiOwnerEntry(c) PROVE AllBooks'
  <2>1. PICK to : /\ Moves(c, to) /\ call[c].pc = "ownerEntry" /\ UNCHANGED << paid, points >>
                  /\ to = IF call[c].order \in Driven THEN "driver" ELSE "points"
    BY <1>3, CallMoves DEF ApiOwnerEntry, At
  <2>2. \A o \in Orders :
          /\ ledger'[o]["owner"] = ledger[o]["owner"] + Gain(o, c, 1)
          /\ DriverEntries(o)' = DriverEntries(o) + Gain(o, c, 0)
    BY <1>0, <1>3, <1>t, Entered DEF ApiOwnerEntry, Entries, DriverEntries, Gain
  <2>3. \A o \in Orders :
          /\ paid'[o]["restaurant"] = paid[o]["restaurant"] + Gain(o, c, 0)
          /\ paid'[o]["trips"] = paid[o]["trips"] + Gain(o, c, 0)
          /\ points'[o] = points[o] + Gain(o, c, 0)
    BY <1>t, <2>1 DEF Gain, Accounts
  <2>4. /\ 0 = 1 + Weight(to, RestaurantDue) - Weight("ownerEntry", RestaurantDue)
        /\ 1 = 0 + Weight(to, PointsDue) - Weight("ownerEntry", PointsDue)
        /\ call[c].order \in Driven =>
             /\ 1 = 0 + Weight(to, EntryDue) - Weight("ownerEntry", EntryDue)
             /\ 1 = 0 + Weight(to, TripDue) - Weight("ownerEntry", TripDue)
    BY <2>1, SMTT(30) DEF RestaurantDue, TripDue, EntryDue, PointsDue, Weight
  <2> QED
    BY <1>01, <2>1, <2>2, <2>3, <2>4, BooksStep
<1>4. ASSUME NEW c \in Calls, ApiUpdateProfile(c) PROVE AllBooks'
  <2>1. Moves(c, "driverEntry") /\ call[c].pc = "profile" /\ UNCHANGED << ledger, points >>
    BY <1>4, CallMoves DEF ApiUpdateProfile, At
  <2>2. \A o \in Orders :
          /\ paid'[o]["restaurant"] = paid[o]["restaurant"] + Gain(o, c, 0)
          /\ paid'[o]["trips"] = paid[o]["trips"] + Gain(o, c, 1)
    BY <1>0, <1>4, <1>t, Credited DEF ApiUpdateProfile, Accounts, Gain
  <2>3. \A o \in Orders :
          /\ ledger'[o]["owner"] = ledger[o]["owner"] + Gain(o, c, 0)
          /\ points'[o] = points[o] + Gain(o, c, 0)
          /\ DriverEntries(o)' = DriverEntries(o) + Gain(o, c, 0)
    BY <1>t, <2>1 DEF Gain, Entries, DriverEntries
  <2>4. /\ \A pcs \in { RestaurantDue, EntryDue, PointsDue } :
             0 = 0 + Weight("driverEntry", pcs) - Weight("profile", pcs)
        /\ 0 = 1 + Weight("driverEntry", TripDue) - Weight("profile", TripDue)
    BY DEF RestaurantDue, TripDue, EntryDue, PointsDue, Weight
  <2> QED
    BY <1>01, <2>1, <2>2, <2>3, <2>4, BooksStep
<1>5. ASSUME NEW c \in Calls, ApiDriverEntry(c) PROVE AllBooks'
  <2>1. PICK to \in { "debtEntry", "points" } : Moves(c, to)
    BY <1>5, CallMoves DEF ApiDriverEntry
  <2>2. call[c].pc = "driverEntry" /\ UNCHANGED << paid, points >>
    BY <1>5 DEF ApiDriverEntry, At
  <2>3. \A o \in Orders :
          /\ ledger'[o]["owner"] = ledger[o]["owner"] + Gain(o, c, 0)
          /\ DriverEntries(o)' = DriverEntries(o) + Gain(o, c, 1)
    <3>1. Enter(call[c].order, { "driver" })
      BY <1>5 DEF ApiDriverEntry
    <3>2. \A o \in Orders, e \in Entries :
            ledger'[o][e] = IF o = call[c].order /\ e \in { "driver" } THEN ledger[o][e] + 1 ELSE ledger[o][e]
      BY <1>0, <3>1, Entered
    <3> QED
      BY <1>t, <3>2 DEF Entries, DriverEntries, Gain
  <2>4. \A o \in Orders :
          /\ paid'[o]["restaurant"] = paid[o]["restaurant"] + Gain(o, c, 0)
          /\ paid'[o]["trips"] = paid[o]["trips"] + Gain(o, c, 0)
          /\ points'[o] = points[o] + Gain(o, c, 0)
    BY <1>t, <2>2 DEF Gain, Accounts
  <2>5. /\ \A pcs \in { RestaurantDue, TripDue, PointsDue } :
             0 = 0 + Weight(to, pcs) - Weight("driverEntry", pcs)
        /\ 0 = 1 + Weight(to, EntryDue) - Weight("driverEntry", EntryDue)
    BY <2>1 DEF RestaurantDue, TripDue, EntryDue, PointsDue, Weight
  <2> QED
    BY <1>01, <2>1, <2>2, <2>3, <2>4, <2>5, BooksStep
<1>6. ASSUME NEW c \in Calls, AwardPoints(c) PROVE AllBooks'
  <2>1. Ends(c) /\ call[c].pc = "points" /\ UNCHANGED << paid, ledger >>
    BY <1>6, CallEnds DEF AwardPoints, At
  <2>2. \A o \in Orders :
          /\ paid'[o]["restaurant"] = paid[o]["restaurant"] + Gain(o, c, 0)
          /\ paid'[o]["trips"] = paid[o]["trips"] + Gain(o, c, 0)
          /\ ledger'[o]["owner"] = ledger[o]["owner"] + Gain(o, c, 0)
          /\ DriverEntries(o)' = DriverEntries(o) + Gain(o, c, 0)
    BY <1>t, <2>1 DEF Gain, Accounts, Entries, DriverEntries
  <2>3. \A o \in Orders : points'[o] = points[o] + Gain(o, c, 1)
    BY <1>0, <1>6, <1>t DEF AwardPoints, SettlementTypeOK, Gain
  <2>4. /\ 0 = 1 + Weight("idle", PointsDue) - Weight("points", PointsDue)
        /\ \A pcs \in { RestaurantDue, TripDue, EntryDue } : 0 = 0 + Weight("idle", pcs) - Weight("points", pcs)
    BY DEF RestaurantDue, TripDue, EntryDue, PointsDue, Weight
  <2> QED
    BY <1>01, <2>1, <2>2, <2>3, <2>4, BooksStep
<1>7. ASSUME NEW c \in Calls, TxCommit(c) PROVE AllBooks'
  <2> DEFINE o == call[c].order
             share == IF o \in Driven THEN 1 ELSE 0
  <2>1. /\ Moves(c, "points") /\ call[c].pc = "txCommit" /\ UNCHANGED points
        /\ Credit(o, TxAccounts(o)) /\ Enter(o, TxEntries(o))
    BY <1>7, CallMoves DEF TxCommit, At
  <2>2. /\ \A p \in Orders, a \in Accounts :
             paid'[p][a] = IF p = o /\ a \in TxAccounts(o) THEN paid[p][a] + 1 ELSE paid[p][a]
        /\ \A p \in Orders, e \in Entries :
             ledger'[p][e] = IF p = o /\ e \in TxEntries(o) THEN ledger[p][e] + 1 ELSE ledger[p][e]
    BY <1>0, <2>1, Credited, Entered
  <2>3. /\ "restaurant" \in TxAccounts(o) /\ "owner" \in TxEntries(o) /\ "driver" \notin TxEntries(o)
        /\ "trips" \in TxAccounts(o) <=> o \in Driven
        /\ "driverPending" \in TxEntries(o) <=> o \in Driven
    BY DEF TxAccounts, TxEntries
  <2>4. \A p \in Orders :
          /\ paid'[p]["restaurant"] = paid[p]["restaurant"] + Gain(p, c, 1)
          /\ paid'[p]["trips"] = paid[p]["trips"] + Gain(p, c, share)
          /\ ledger'[p]["owner"] = ledger[p]["owner"] + Gain(p, c, 1)
          /\ points'[p] = points[p] + Gain(p, c, 0)
    BY <1>t, <2>1, <2>2, <2>3 DEF Gain, Accounts, Entries
  <2>5. \A p \in Orders : DriverEntries(p)' = DriverEntries(p) + Gain(p, c, share)
    BY <1>t, <2>2, <2>3 DEF Gain, Entries, DriverEntries
  <2>6. /\ Weight("points", PointsDue) = 1
        /\ \A pcs \in { RestaurantDue, EntryDue, TripDue } : Weight("points", pcs) = 0
        /\ \A pcs \in Dues : Weight("txCommit", pcs) = 0
    BY DEF Dues, RestaurantDue, TripDue, EntryDue, PointsDue, Weight
  <2>7. /\ 1 = 1 + Weight("points", RestaurantDue) - Weight("txCommit", RestaurantDue)
        /\ 1 = 0 + Weight("points", PointsDue) - Weight("txCommit", PointsDue)
        /\ o \in Driven => /\ 1 = share + Weight("points", EntryDue) - Weight("txCommit", EntryDue)
                           /\ 1 = share + Weight("points", TripDue) - Weight("txCommit", TripDue)
        /\ share \in 0..1
    BY <2>6 DEF Dues
  <2> QED
    BY <1>01, <2>1, <2>4, <2>5, <2>7, BooksStep
\* The driver's wallet and the DEBT entry are not in the books.
<1>8. ASSUME NEW c \in Calls, ApiCreditDriver(c) \/ ApiDebtEntry(c) PROVE AllBooks'
  <2>1. CASE ApiCreditDriver(c)
    <3>1. Moves(c, "profile") /\ call[c].pc = "driverWallet" /\ UNCHANGED << ledger, points >>
      BY <2>1, CallMoves DEF ApiCreditDriver, At
    <3>2. \A o \in Orders : paid'[o]["restaurant"] = paid[o]["restaurant"] /\ paid'[o]["trips"] = paid[o]["trips"]
      BY <1>0, <2>1, Credited DEF ApiCreditDriver, Accounts
    <3>3. \A pcs \in Dues : Weight("profile", pcs) = Weight("driverWallet", pcs)
      BY DEF Dues, RestaurantDue, TripDue, EntryDue, PointsDue, Weight
    <3> QED
      BY <3>1, <3>2, <3>3, BooksKept DEF DriverEntries
  <2>2. CASE ApiDebtEntry(c)
    <3>1. Moves(c, "points") /\ call[c].pc = "debtEntry" /\ UNCHANGED << paid, points >>
      BY <2>2, CallMoves DEF ApiDebtEntry, At
    <3>2. \A o \in Orders : ledger'[o]["owner"] = ledger[o]["owner"] /\ DriverEntries(o)' = DriverEntries(o)
      <4>1. Enter(call[c].order, { "debt" })
        BY <2>2 DEF ApiDebtEntry
      <4>2. \A o \in Orders, e \in Entries :
              ledger'[o][e] = IF o = call[c].order /\ e \in { "debt" } THEN ledger[o][e] + 1 ELSE ledger[o][e]
        BY <1>0, <4>1, Entered
      <4> QED
        BY <4>2 DEF Entries, DriverEntries
    <3>3. \A pcs \in Dues : Weight("points", pcs) = Weight("debtEntry", pcs)
      BY DEF Dues, RestaurantDue, TripDue, EntryDue, PointsDue, Weight
    <3> QED
      BY <3>1, <3>2, <3>3, BooksKept
  <2> QED
    BY <1>8, <2>1, <2>2
\* The owner's own wallet is in OwnerInv.
<1>12. ASSUME NEW c \in Calls, ApiCreditOwner(c) PROVE AllBooks'
  <2>1. Moves(c, "ownerEntry") /\ call[c].pc = "owner" /\ UNCHANGED << ledger, points >>
    BY <1>12, CallMoves DEF ApiCreditOwner, At
  <2>2. \A o \in Orders : paid'[o]["restaurant"] = paid[o]["restaurant"] /\ paid'[o]["trips"] = paid[o]["trips"]
    BY <1>0, <1>12, Credited DEF ApiCreditOwner, Accounts
  <2>3. \A pcs \in Dues : Weight("ownerEntry", pcs) = Weight("owner", pcs)
    BY DEF Dues, RestaurantDue, TripDue, EntryDue, PointsDue, Weight
  <2> QED
    BY <2>1, <2>2, <2>3, BooksKept DEF DriverEntries
\* A driver profile that is read, on the way to the trip.
<1>9. ASSUME NEW c \in Calls, ApiReadDriver(c) PROVE AllBooks'
  <2>1. PICK to \in { "profile", "driverWallet" } : Moves(c, to)
    BY <1>9, CallReads DEF ApiReadDriver
  <2>2. call[c].pc = "driver" /\ UNCHANGED << paid, ledger, points >>
    BY <1>9 DEF ApiReadDriver, At
  <2>3. \A pcs \in Dues : Weight(to, pcs) = Weight("driver", pcs)
    BY <2>1 DEF Dues, RestaurantDue, TripDue, EntryDue, PointsDue, Weight
  <2> QED
    BY <2>1, <2>2, <2>3, BooksKept DEF DriverEntries
\* Nothing is owed before the first credit.
<1>10. ASSUME NEW c \in Calls,
              \/ ApiGuard(c) \/ ApiSaveSplit(c) \/ TxGuard(c) \/ TxLockRows(c) \/ TxReadDriver(c)
              \/ ApiFail(c) \/ TxAbort(c)
       PROVE  AllBooks'
  <2>1. UNCHANGED << paid, ledger, points >>
    BY <1>10 DEF ApiGuard, ApiSaveSplit, TxGuard, TxLockRows, TxReadDriver, ApiFail, TxAbort
  <2>2. call[c].pc \in { "guard", "split", "restaurant", "txGuard", "txRows", "txDriver" }
    BY <1>10 DEF ApiGuard, ApiSaveSplit, TxGuard, TxLockRows, TxReadDriver, ApiFail, TxAbort, At,
       HarmlessFailures, HalfwaySteps, RestaurantDue, PointsDue, EntryDue, TripDue
  <2>3. PICK to \in { "idle", "split", "restaurant", "txRows", "txDriver", "txCommit" } :
          Moves(c, to) \/ (to = "idle" /\ Ends(c))
    <3>1. CASE TxReadDriver(c)
      BY <3>1, CallReads DEF TxReadDriver
    <3>2. CASE ~ TxReadDriver(c)
      <4>1. PICK to \in { "idle", "split", "restaurant", "txRows", "txDriver", "txCommit" } :
              Goto(c, to) \/ (to = "idle" /\ Finish(c))
        BY <1>10, <2>2, <3>2 DEF ApiGuard, ApiSaveSplit, TxGuard, TxLockRows, ApiFail, TxAbort, At
      <4> QED
        BY <4>1, CallMoves, CallEnds
    <3> QED
      BY <3>1, <3>2
  <2>4. \A pcs \in Dues : Weight(to, pcs) = 0 /\ Weight(call[c].pc, pcs) = 0
    BY <2>2, <2>3 DEF Dues, RestaurantDue, TripDue, EntryDue, PointsDue, Weight
  <2> QED
    BY <2>1, <2>3, <2>4, BooksKept DEF DriverEntries
<1>11. CASE UNCHANGED settlementVars
  <2>1. \A o \in Orders, pcs \in Dues : Count(o, pcs)' = Count(o, pcs)
    BY <1>11 DEF Count, settlementVars
  <2> QED
    BY <1>11, <2>1 DEF AllBooks, Books, DriverEntries, Dues, settlementVars
<1> QED
  BY <1>1, <1>2, <1>3, <1>4, <1>5, <1>6, <1>7, <1>8, <1>9, <1>10, <1>11, <1>12 DEF SettlementNext, Progress

\* The shares of an order are saved before anybody is credited for it.
SplitInv ==
  /\ \A o \in Orders : existingSettlement(o) => o \in split
  /\ \A c \in Calls : call[c].pc \in { "restaurant" } \cup RestaurantDue \cup PointsDue => call[c].order \in split

\* Only a settlement of an order whose shares are saved writes entries for it.
LEMMA SplitStep ==
  ASSUME SettlementTypeOK, SplitInv, NEW c \in Calls, NEW to, Moves(c, to) \/ (to = "idle" /\ Ends(c)),
         split \subseteq split',
         \A o \in Orders : existingSettlement(o)' => existingSettlement(o) \/ o \in split',
         to \in { "restaurant" } \cup RestaurantDue \cup PointsDue => call[c].order \in split'
  PROVE  SplitInv'
<1>1. \A o \in Orders : existingSettlement(o)' => o \in split'
  BY DEF SplitInv
<1>2. ASSUME NEW d \in Calls, call'[d].pc \in { "restaurant" } \cup RestaurantDue \cup PointsDue
      PROVE  call'[d].order \in split'
  BY <1>2 DEF SplitInv, Moves, Ends, RestaurantDue, PointsDue, EntryDue, TripDue
<1> QED
  BY <1>1, <1>2 DEF SplitInv

LEMMA SplitInductive ==
  ASSUME HarmlessFailures, SettlementTypeOK, SplitInv, [SettlementNext]_settlementVars
  PROVE  SplitInv'
<1> USE DEF Pcs, ApiSteps, TxSteps
<1> DEFINE Late == { "restaurant" } \cup RestaurantDue \cup PointsDue
<1>0. \A c \in Calls : call[c].order \in Orders /\ (call[c].pc \in Late => call[c].order \in split)
  BY DEF SettlementTypeOK, CallStates, SplitInv
<1>l. Late = { "restaurant", "owner", "ownerEntry", "driver", "driverWallet", "profile", "driverEntry",
               "debtEntry", "points" }
  BY DEF RestaurantDue, PointsDue, EntryDue, TripDue
<1>1. ASSUME NEW c \in Calls, NEW o \in Orders, Start(c, o) PROVE SplitInv'
  <2>1. /\ \A d \in Calls : d # c => call'[d] = call[d]
        /\ call'[c].pc \in { "guard", "txGuard" } /\ UNCHANGED << split, ledger >>
    BY <1>1, CallStarts DEF Start
  <2> QED
    BY <2>1 DEF SplitInv, existingSettlement, RestaurantDue, PointsDue, EntryDue, TripDue
\* Steps that write entries.
<1>2. ASSUME NEW c \in Calls, ApiOwnerEntry(c) \/ ApiDriverEntry(c) \/ ApiDebtEntry(c) PROVE SplitInv'
  <2>1. PICK to \in Pcs : Moves(c, to)
    BY <1>2, CallMoves DEF ApiOwnerEntry, ApiDriverEntry, ApiDebtEntry
  <2>2. /\ call[c].order \in split /\ UNCHANGED split
        /\ \E entries : Enter(call[c].order, entries)
    BY <1>0, <1>2, <1>l DEF ApiOwnerEntry, ApiDriverEntry, ApiDebtEntry, At
  <2>3. \A o \in Orders, e \in Entries : o # call[c].order => ledger'[o][e] = ledger[o][e]
    BY <1>0, <2>2, Entered
  <2>4. \A o \in Orders : existingSettlement(o)' => existingSettlement(o) \/ o \in split'
    BY <2>2, <2>3 DEF existingSettlement, Entries
  <2> QED
    BY <2>1, <2>2, <2>4, SplitStep
<1>3. ASSUME NEW c \in Calls, TxCommit(c) PROVE SplitInv'
  <2>1. /\ Moves(c, "points") /\ split' = split \cup { call[c].order }
        /\ \E entries : Enter(call[c].order, entries)
    BY <1>3, CallMoves DEF TxCommit
  <2>2. \A o \in Orders, e \in Entries : o # call[c].order => ledger'[o][e] = ledger[o][e]
    BY <1>0, <2>1, Entered
  <2>3. \A o \in Orders : existingSettlement(o)' => existingSettlement(o) \/ o \in split'
    BY <2>1, <2>2 DEF existingSettlement, Entries
  <2> QED
    BY <2>1, <2>3, SplitStep
<1>4. ASSUME NEW c \in Calls, ApiSaveSplit(c) PROVE SplitInv'
  <2>1. Moves(c, "restaurant") /\ split' = split \cup { call[c].order } /\ UNCHANGED ledger
    BY <1>4, CallMoves DEF ApiSaveSplit
  <2> QED
    BY <2>1, SplitStep DEF existingSettlement
\* Steps that go on, or do not get so far.
<1>5. ASSUME NEW c \in Calls,
             \/ ApiCreditRestaurant(c) \/ ApiCreditOwner(c) \/ ApiReadDriver(c) \/ ApiCreditDriver(c)
             \/ ApiUpdateProfile(c) \/ AwardPoints(c)
      PROVE  SplitInv'
  <2>1. UNCHANGED << split, ledger >> /\ call[c].order \in split
    BY <1>0, <1>5, <1>l DEF ApiCreditRestaurant, ApiCreditOwner, ApiReadDriver, ApiCreditDriver,
       ApiUpdateProfile, AwardPoints, At
  <2>2. \E to : Moves(c, to) \/ (to = "idle" /\ Ends(c))
    BY <1>5, CallMoves, CallReads, CallEnds DEF ApiCreditRestaurant, ApiCreditOwner, ApiReadDriver,
       ApiCreditDriver, ApiUpdateProfile, AwardPoints
  <2> QED
    BY <2>1, <2>2, SplitStep DEF existingSettlement
<1>6. ASSUME NEW c \in Calls,
             \/ ApiGuard(c) \/ TxGuard(c) \/ TxLockRows(c) \/ TxReadDriver(c) \/ ApiFail(c) \/ TxAbort(c)
      PROVE  SplitInv'
  <2>1. UNCHANGED << split, ledger >>
    BY <1>6 DEF ApiGuard, TxGuard, TxLockRows, TxReadDriver, ApiFail, TxAbort
  <2>2. PICK to \in { "idle", "split", "txRows", "txDriver", "txCommit" } : Moves(c, to) \/ (to = "idle" /\ Ends(c))
    <3>1. CASE TxReadDriver(c)
      BY <3>1, CallReads DEF TxReadDriver
    <3>2. CASE ~ TxReadDriver(c)
      <4>1. "txCommit" \notin FailingSteps
        BY DEF HarmlessFailures, HalfwaySteps
      <4>2. PICK to \in { "idle", "split", "txRows", "txDriver", "txCommit" } :
              Goto(c, to) \/ (to = "idle" /\ Finish(c))
        BY <1>6, <3>2, <4>1 DEF ApiGuard, TxGuard, TxLockRows, ApiFail, TxAbort, At
      <4> QED
        BY <4>2, CallMoves, CallEnds
    <3> QED
      BY <3>1, <3>2
  <2>3. to \notin Late
    BY <1>l, <2>2
  <2> QED
    BY <2>1, <2>2, <2>3, SplitStep DEF existingSettlement
<1>7. CASE UNCHANGED settlementVars
  BY <1>7 DEF SplitInv, existingSettlement, settlementVars
<1> QED
  BY <1>1, <1>2, <1>3, <1>4, <1>5, <1>6, <1>7 DEF SettlementNext, Progress

LEMMA BooksInit == SettlementInit => AllBooks /\ SplitInv
<1> SUFFICES ASSUME SettlementInit PROVE AllBooks /\ SplitInv
  OBVIOUS
<1>1. \A c \in Calls : call[c].pc = "idle"
  BY IdleType DEF SettlementInit
<1>2. \A o \in Orders, pcs \in Dues : Count(o, pcs) = 0
  BY <1>1, CountNone, NotIdle DEF Dues
<1>3. \A o \in Orders : /\ paid[o]["restaurant"] = 0 /\ paid[o]["trips"] = 0 /\ points[o] = 0
                        /\ ledger[o]["owner"] = 0 /\ DriverEntries(o) = 0 /\ ~ existingSettlement(o)
  BY DEF SettlementInit, Accounts, Entries, DriverEntries, existingSettlement
<1> QED
  BY <1>1, <1>2, <1>3 DEF AllBooks, Books, Dues, SplitInv, RestaurantDue, PointsDue, EntryDue, TripDue

\* Between settlements, also ones that overlapped, an order the guard takes for settled has
\* paid everyone it owes and was awarded its points as often as it was settled, for any number
\* of orders and settlements, if none fails halfway.
THEOREM SettlementSafe == HarmlessFailures => (SettlementSpec => []SettlementInv)
<1> SUFFICES ASSUME HarmlessFailures PROVE SettlementSpec => []SettlementInv
  OBVIOUS
<1>1. SettlementTypeOK /\ AllBooks /\ SplitInv /\ [SettlementNext]_settlementVars => (SettlementTypeOK /\ AllBooks /\ SplitInv)'
  BY TypeInductive, BooksInductive, SplitInductive
<1>2. ASSUME SettlementTypeOK, AllBooks, SplitInv PROVE SettlementInv
  <2>1. ASSUME NoneUnderWay, NEW o \in Orders
        PROVE  /\ paid[o]["restaurant"] = ledger[o]["owner"] /\ points[o] = ledger[o]["owner"]
               /\ o \in Driven => /\ DriverEntries(o) = ledger[o]["owner"]
                                  /\ paid[o]["trips"] = ledger[o]["owner"]
    <3>1. \A pcs \in Dues : Count(o, pcs) = 0
      BY <2>1, CountNone, NotIdle DEF Dues, NoneUnderWay, At
    <3>2. /\ paid[o]["restaurant"] \in Nat /\ paid[o]["trips"] \in Nat /\ points[o] \in Nat
          /\ ledger[o]["owner"] \in Nat /\ DriverEntries(o) \in Nat
      BY <1>2 DEF SettlementTypeOK, Accounts, Entries, DriverEntries
    <3> QED
      BY <1>2, <3>1, <3>2 DEF AllBooks, Books, Dues
  <2> QED
    BY <1>2, <2>1 DEF SettlementInv, GuardMeansSettled, PointsForSettlements, SplitInv
<1> QED
  BY <1>1, <1>2, TypeInit, BooksInit, PTL DEF SettlementSpec

(***************************************************************************)
(* One settlement at a time                                                *)
(***************************************************************************)
OneCall == \A c, d \in Calls : c = d

\* Between these statements the order is credited and the guard cannot see it.
UnseenSteps == { "owner", "ownerEntry" }

\* Where the guard was passed and nothing is written yet.
FirstSteps == { "split", "restaurant", "txRows", "txDriver", "txCommit" }

Blank(o) ==
  /\ paid[o]["restaurant"] = 0 /\ paid[o]["owner"] = 0 /\ paid[o]["driver"] = 0 /\ paid[o]["trips"] = 0
  /\ ledger[o]["owner"] = 0 /\ DriverEntries(o) = 0

\* What a settlement has still to write was not written before; what the guard looks for was.
Stage(o, pc) ==
  /\ pc \in FirstSteps => Blank(o)
  /\ pc = "owner" => paid[o]["owner"] = 0
  /\ pc \in UnseenSteps => ledger[o]["owner"] = 0
  /\ pc \in UnseenSteps \cup { "driver", "driverWallet" } => paid[o]["driver"] = 0
  /\ pc \in UnseenSteps \cup TripDue => paid[o]["trips"] = 0
  /\ pc \in UnseenSteps \cup EntryDue => DriverEntries(o) = 0
  /\ pc \in EntryDue \cup { "debtEntry" } => existingSettlement(o)

\* An order has entries or nothing, but for the settlement at one of the unseen steps.
OnceInv ==
  /\ SettledOnce
  /\ \A c \in Calls : Stage(call[c].order, call[c].pc)
  /\ \A o \in Orders : \/ existingSettlement(o) \/ Blank(o)
                       \/ \E c \in Calls : call[c].order = o /\ call[c].pc \in UnseenSteps

\* Steps that write no credit and no entry.
LEMMA OnceKept ==
  ASSUME SettlementTypeOK, OneCall, OnceInv, UNCHANGED << paid, ledger >>,
         NEW c \in Calls, NEW to, Moves(c, to) \/ (to = "idle" /\ Ends(c)),
         call[c].pc \notin UnseenSteps,
         to \in { "idle", "points", "guard", "txGuard" } \/ Stage(call[c].order, to)
  PROVE  OnceInv'
<1>0. \A d \in Calls : d = c
  BY DEF OneCall
<1>1. SettledOnce' /\ \A o \in Orders : existingSettlement(o) \/ Blank(o)
  BY <1>0 DEF OnceInv, SettledOnce, DriverEntries
<1>2. \A o \in Orders : existingSettlement(o)' \/ Blank(o)'
  BY <1>1 DEF existingSettlement, Blank, DriverEntries
<1>3. Stage(call[c].order, to)' \/ to \in { "idle", "points", "guard", "txGuard" }
  BY DEF Stage, Blank, DriverEntries, existingSettlement, Moves
<1>4. ASSUME NEW d \in Calls PROVE Stage(call[d].order, call[d].pc)'
  <2>1. CASE to \in { "idle", "points", "guard", "txGuard" }
    BY <1>0, <2>1 DEF Stage, Moves, Ends, FirstSteps, UnseenSteps, TripDue, EntryDue
  <2>2. CASE to \notin { "idle", "points", "guard", "txGuard" }
    BY <1>0, <2>2 DEF Stage, Moves, Ends, Blank, DriverEntries, existingSettlement
  <2> QED
    BY <2>1, <2>2
<1> QED
  BY <1>1, <1>2, <1>4 DEF OnceInv

\* A credit or an entry of one settlement: what is left to show is about its own order.
LEMMA OnceWritten ==
  ASSUME SettlementTypeOK, OneCall, OnceInv, NEW c \in Calls, NEW to, Moves(c, to),
         NEW o \in Orders, o = call[c].order,
         \A p \in Orders : p # o =>
           (\A a \in Accounts : paid'[p][a] = paid[p][a]) /\ (\A e \in Entries : ledger'[p][e] = ledger[p][e]),
         \A a \in Accounts : paid'[o][a] <= 1,
         ledger'[o]["owner"] <= 1, DriverEntries(o)' <= 1,
         Stage(o, to)',
         existingSettlement(o)' \/ to \in UnseenSteps
  PROVE  OnceInv'
<1>0. /\ \A d \in Calls : d = c
      /\ call'[c].pc = to /\ call'[c].order = o
  BY DEF OneCall, Moves
<1>1. ASSUME NEW p \in Orders, p # o
      PROVE  /\ ledger'[p]["owner"] <= 1 /\ DriverEntries(p)' <= 1 /\ \A a \in Accounts : paid'[p][a] <= 1
             /\ existingSettlement(p)' \/ Blank(p)'
  <2>1. existingSettlement(p) \/ Blank(p)
    BY <1>0, <1>1 DEF OnceInv
  <2> QED
    BY <1>1, <2>1 DEF OnceInv, SettledOnce, existingSettlement, Blank, DriverEntries, Accounts, Entries
<1>2. SettledOnce'
  BY <1>1 DEF SettledOnce
<1>3. ASSUME NEW d \in Calls PROVE Stage(call[d].order, call[d].pc)'
  BY <1>0, <1>3 DEF Stage, Blank, DriverEntries, existingSettlement
<1>4. \A p \in Orders : \/ existingSettlement(p)' \/ Blank(p)'
                        \/ \E d \in Calls : call'[d].order = p /\ call'[d].pc \in UnseenSteps
  BY <1>0, <1>1
<1> QED
  BY <1>2, <1>3, <1>4 DEF OnceInv

LEMMA OnceInductive ==
  ASSUME OneCall, FailingSteps \cap UnseenSteps = {}, SettlementTypeOK, OnceInv, [SettlementNext]_settlementVars
  PROVE  OnceInv'
<1> USE DEF Pcs, ApiSteps, TxSteps
<1>0. \A c \in Calls : call[c].order \in Orders /\ Stage(call[c].order, call[c].pc)
  BY DEF SettlementTypeOK, CallStates, OnceInv
<1>t. /\ \A o \in Orders, a \in Accounts : paid[o][a] \in Nat /\ paid[o][a] <= 1
      /\ \A o \in Orders, e \in Entries : ledger[o][e] \in Nat
      /\ \A o \in Orders : ledger[o]["owner"] <= 1 /\ DriverEntries(o) <= 1
  BY DEF SettlementTypeOK, OnceInv, SettledOnce
<1>1. ASSUME NEW c \in Calls, NEW o \in Orders, Start(c, o) PROVE OnceInv'
  <2>1. /\ call'[c].pc \in { "guard", "txGuard" } /\ call[c].pc = "idle"
        /\ UNCHANGED << paid, ledger >> /\ \A d \in Calls : d = c
    BY <1>1, CallStarts DEF Start, At, OneCall
  <2>2. ASSUME NEW d \in Calls PROVE Stage(call[d].order, call[d].pc)'
    BY <2>1 DEF Stage, FirstSteps, UnseenSteps, TripDue, EntryDue
  <2>3. \A p \in Orders : existingSettlement(p) \/ Blank(p)
    BY <2>1 DEF OnceInv, UnseenSteps
  <2>4. \A p \in Orders : existingSettlement(p)' \/ Blank(p)'
    BY <2>1, <2>3 DEF existingSettlement, Blank, DriverEntries
  <2> QED
    BY <2>1, <2>2, <2>4 DEF OnceInv, SettledOnce, DriverEntries
<1>2. ASSUME NEW c \in Calls, NEW o \in Orders, o = call[c].order, ApiCreditRestaurant(c) \/ ApiCreditOwner(c)
      PROVE  OnceInv'
  <2>1. PICK a \in { "restaurant", "owner" }, to \in UnseenSteps :
          /\ Moves(c, to) /\ UNCHANGED ledger /\ Credit(o, { a })
          /\ \/ a = "restaurant" /\ call[c].pc = "restaurant" /\ to = "owner"
             \/ a = "owner" /\ call[c].pc = "owner" /\ to = "ownerEntry"
    BY <1>2, CallMoves DEF ApiCreditRestaurant, ApiCreditOwner, At, UnseenSteps
  <2>2. \A p \in Orders, b \in Accounts :
          paid'[p][b] = IF p = o /\ b = a THEN paid[p][b] + 1 ELSE paid[p][b]
    BY <2>1, Credited
  <2>3. Stage(o, call[c].pc)
    BY <1>0, <1>2
  <2>4. paid[o][a] = 0
    BY <2>1, <2>3 DEF Stage, FirstSteps, Blank
  <2>5. \A b \in Accounts : paid'[o][b] <= 1
    BY <1>t, <2>1, <2>2, <2>4 DEF Accounts
  <2>6. Stage(o, to)'
    BY <2>1, <2>2, <2>3 DEF Stage, Blank, DriverEntries, Accounts, FirstSteps, UnseenSteps, EntryDue, TripDue
  <2>7. ledger'[o]["owner"] <= 1 /\ DriverEntries(o)' <= 1
    BY <1>t, <2>1 DEF DriverEntries
  <2> QED
    BY <1>2, <2>1, <2>2, <2>5, <2>6, <2>7, OnceWritten
<1>3. ASSUME NEW c \in Calls, NEW o \in Orders, o = call[c].order, ApiOwnerEntry(c) PROVE OnceInv'
  <2>1. PICK to \in { "driver", "points" } : Moves(c, to)
    BY <1>3, CallMoves DEF ApiOwnerEntry
  <2>2. /\ call[c].pc = "ownerEntry" /\ UNCHANGED paid
        /\ \A p \in Orders, e \in Entries :
             ledger'[p][e] = IF p = o /\ e = "owner" THEN ledger[p][e] + 1 ELSE ledger[p][e]
    BY <1>3, Entered DEF ApiOwnerEntry, At
  <2>3. Stage(o, "ownerEntry")
    BY <1>0, <1>3, <2>2
  <2>4. ledger'[o]["owner"] = 1 /\ existingSettlement(o)' /\ DriverEntries(o)' = 0
    BY <1>t, <2>2, <2>3 DEF Stage, UnseenSteps, Entries, DriverEntries, existingSettlement
  <2>5. Stage(o, to)'
    BY <2>1, <2>2, <2>3, <2>4 DEF Stage, FirstSteps, UnseenSteps, EntryDue, TripDue
  <2> QED
    BY <1>3, <1>t, <2>1, <2>2, <2>4, <2>5, OnceWritten
<1>4. ASSUME NEW c \in Calls, NEW o \in Orders, o = call[c].order, ApiCreditDriver(c) \/ ApiUpdateProfile(c)
      PROVE  OnceInv'
  <2>1. PICK a \in { "driver", "trips" }, to \in { "profile", "driverEntry" } :
          /\ Moves(c, to) /\ UNCHANGED ledger /\ Credit(o, { a })
          /\ \/ a = "driver" /\ call[c].pc = "driverWallet" /\ to = "profile"
             \/ a = "trips" /\ call[c].pc = "profile" /\ to = "driverEntry"
    BY <1>4, CallMoves DEF ApiCreditDriver, ApiUpdateProfile, At
  <2>2. \A p \in Orders, b \in Accounts :
          paid'[p][b] = IF p = o /\ b = a THEN paid[p][b] + 1 ELSE paid[p][b]
    BY <2>1, Credited
  <2>3. Stage(o, call[c].pc)
    BY <1>0, <1>4
  <2>4. paid[o][a] = 0 /\ existingSettlement(o) /\ DriverEntries(o) = 0
    BY <2>1, <2>3 DEF Stage, TripDue, EntryDue
  <2>5. \A b \in Accounts : paid'[o][b] <= 1
    BY <1>t, <2>1, <2>2, <2>4 DEF Accounts
  <2>6. existingSettlement(o)' /\ DriverEntries(o)' = 0 /\ ledger'[o]["owner"] <= 1
    BY <1>t, <2>1, <2>4 DEF existingSettlement, DriverEntries
  <2>7. Stage(o, to)'
    BY <2>1, <2>2, <2>3, <2>6 DEF Stage, FirstSteps, UnseenSteps, EntryDue, TripDue, Accounts
  <2> QED
    BY <1>4, <2>1, <2>2, <2>5, <2>6, <2>7, OnceWritten
<1>5. ASSUME NEW c \in Calls, NEW o \in Orders, o = call[c].order, ApiDriverEntry(c) PROVE OnceInv'
  <2>1. PICK to \in { "debtEntry", "points" } : Moves(c, to)
    BY <1>5, CallMoves DEF ApiDriverEntry
  <2>2. /\ call[c].pc = "driverEntry" /\ UNCHANGED paid /\ Enter(o, { "driver" })
        /\ Stage(o, "driverEntry")
    BY <1>0, <1>5 DEF ApiDriverEntry, At
  <2>3. \A p \in Orders, e \in Entries :
          ledger'[p][e] = IF p = o /\ e = "driver" THEN ledger[p][e] + 1 ELSE ledger[p][e]
    BY <2>2, Entered
  <2>4. existingSettlement(o)' /\ DriverEntries(o)' <= 1 /\ ledger'[o]["owner"] <= 1
    BY <1>t, <2>2, <2>3 DEF Stage, EntryDue, Entries, DriverEntries, existingSettlement
  <2>5. Stage(o, to)'
    BY <2>1, <2>4 DEF Stage, FirstSteps, UnseenSteps, EntryDue, TripDue
  <2> QED
    BY <1>5, <1>t, <2>1, <2>2, <2>3, <2>4, <2>5, OnceWritten
<1>6. ASSUME NEW c \in Calls, NEW o \in Orders, o = call[c].order, TxCommit(c) PROVE OnceInv'
  <2>1. /\ Moves(c, "points") /\ call[c].pc = "txCommit"
        /\ Credit(o, TxAccounts(o)) /\ Enter(o, TxEntries(o)) /\ Stage(o, "txCommit")
    BY <1>0, <1>6, CallMoves DEF TxCommit, At
  <2>2. /\ \A p \in Orders, a \in Accounts :
             paid'[p][a] = IF p = o /\ a \in TxAccounts(o) THEN paid[p][a] + 1 ELSE paid[p][a]
        /\ \A p \in Orders, e \in Entries :
             ledger'[p][e] = IF p = o /\ e \in TxEntries(o) THEN ledger[p][e] + 1 ELSE ledger[p][e]
    BY <2>1, Credited, Entered
  <2>3. "owner" \in TxEntries(o) /\ "driver" \notin TxEntries(o)
    BY DEF TxEntries
  <2>4. Blank(o)
    BY <2>1 DEF Stage, FirstSteps
  <2>5. \A a \in Accounts : paid'[o][a] <= 1
    BY <2>2, <2>4 DEF Blank, Accounts
  <2>6. ledger[o]["driver"] = 0 /\ ledger[o]["driverPending"] = 0 /\ ledger[o]["owner"] = 0
    BY <1>t, <2>4 DEF Blank, DriverEntries, Entries
  <2>7. existingSettlement(o)' /\ DriverEntries(o)' <= 1 /\ ledger'[o]["owner"] <= 1
    BY <2>2, <2>3, <2>6 DEF Entries, DriverEntries, existingSettlement
  <2>8. Stage(o, "points")'
    BY DEF Stage, FirstSteps, UnseenSteps, EntryDue, TripDue
  <2> QED
    BY <1>6, <2>1, <2>2, <2>5, <2>7, <2>8, OnceWritten
<1>7. ASSUME NEW c \in Calls, NEW o \in Orders, o = call[c].order, ApiDebtEntry(c) PROVE OnceInv'
  <2>1. /\ Moves(c, "points") /\ call[c].pc = "debtEntry" /\ UNCHANGED paid /\ Enter(o, { "debt" })
        /\ Stage(o, "debtEntry")
    BY <1>0, <1>7, CallMoves DEF ApiDebtEntry, At
  <2>2. \A p \in Orders, e \in Entries :
          ledger'[p][e] = IF p = o /\ e = "debt" THEN ledger[p][e] + 1 ELSE ledger[p][e]
    BY <2>1, Entered
  <2>3. existingSettlement(o)' /\ DriverEntries(o)' <= 1 /\ ledger'[o]["owner"] <= 1
    BY <1>t, <2>1, <2>2 DEF Stage, Entries, DriverEntries, existingSettlement
  <2>4. Stage(o, "points")'
    BY DEF Stage, FirstSteps, UnseenSteps, EntryDue, TripDue
  <2> QED
    BY <1>7, <1>t, <2>1, <2>2, <2>3, <2>4, OnceWritten
\* The guards: an order without entries is blank.
<1>8. ASSUME NEW c \in Calls, ApiGuard(c) \/ TxGuard(c) PROVE OnceInv'
  <2>1. /\ call[c].pc \in { "guard", "txGuard" } /\ UNCHANGED << paid, ledger >>
        /\ existingSettlement(call[c].order) \/ Blank(call[c].order)
    BY <1>0, <1>8 DEF ApiGuard, TxGuard, At, OnceInv, OneCall, UnseenSteps
  <2>2. PICK to \in { "idle", "split", "txRows" } :
          /\ Moves(c, to) \/ (to = "idle" /\ Ends(c))
          /\ to # "idle" => ~ existingSettlement(call[c].order)
    BY <1>8, CallMoves, CallEnds DEF ApiGuard, TxGuard
  <2>3. to = "idle" \/ Stage(call[c].order, to)
    BY <2>1, <2>2 DEF Stage, FirstSteps, UnseenSteps, EntryDue, TripDue
  <2>4. call[c].pc \notin UnseenSteps
    BY <2>1 DEF UnseenSteps
  <2> QED
    BY <2>1, <2>2, <2>3, <2>4, OnceKept
<1>9. ASSUME NEW c \in Calls,
             \/ ApiSaveSplit(c) \/ ApiReadDriver(c) \/ TxLockRows(c) \/ TxReadDriver(c)
             \/ AwardPoints(c) \/ ApiFail(c) \/ TxAbort(c)
      PROVE  OnceInv'
  <2>1. UNCHANGED << paid, ledger >> /\ call[c].pc \notin UnseenSteps
    BY <1>9 DEF ApiSaveSplit, ApiReadDriver, TxLockRows, TxReadDriver, AwardPoints, ApiFail, TxAbort, At,
       UnseenSteps
  <2>2. PICK to \in Pcs :
          /\ Moves(c, to) \/ (to = "idle" /\ Ends(c))
          /\ \/ to \in { "idle", "points" }
             \/ call[c].pc \in FirstSteps /\ to \in FirstSteps
             \/ call[c].pc = "driver" /\ to \in { "driverWallet", "profile" }
    <3>1. CASE ApiReadDriver(c) \/ TxReadDriver(c)
      BY <3>1, CallReads DEF ApiReadDriver, TxReadDriver, At, FirstSteps
    <3>2. CASE ApiSaveSplit(c) \/ TxLockRows(c)
      BY <3>2, CallMoves DEF ApiSaveSplit, TxLockRows, At, FirstSteps
    <3>3. CASE AwardPoints(c) \/ ApiFail(c) \/ TxAbort(c)
      BY <3>3, CallMoves, CallEnds DEF AwardPoints, ApiFail, TxAbort
    <3> QED
      BY <1>9, <3>1, <3>2, <3>3
  <2>3. to \in { "idle", "points" } \/ Stage(call[c].order, to)
    BY <1>0, <2>2 DEF Stage, FirstSteps, UnseenSteps, EntryDue, TripDue
  <2> QED
    BY <2>1, <2>2, <2>3, OnceKept
<1>10. CASE UNCHANGED settlementVars
  <2>1. UNCHANGED << paid, ledger, call >>
    BY <1>10 DEF settlementVars
  <2>2. SettledOnce'
    BY <2>1 DEF OnceInv, SettledOnce, DriverEntries
  <2>3. ASSUME NEW d \in Calls PROVE Stage(call[d].order, call[d].pc)'
    BY <1>0, <2>1 DEF Stage, Blank, DriverEntries, existingSettlement
  <2>4. ASSUME NEW p \in Orders
        PROVE  \/ existingSettlement(p)' \/ Blank(p)'
               \/ \E d \in Calls : call'[d].order = p /\ call'[d].pc \in UnseenSteps
    BY <2>1 DEF OnceInv, Blank, DriverEntries, existingSettlement
  <2> QED
    BY <2>2, <2>3, <2>4 DEF OnceInv
<1> QED
  BY <1>0, <1>1, <1>2, <1>3, <1>4, <1>5, <1>6, <1>7, <1>8, <1>9, <1>10 DEF SettlementNext, Progress

LEMMA OnceInit == SettlementInit => OnceInv
<1> SUFFICES ASSUME SettlementInit PROVE OnceInv
  OBVIOUS
<1>1. \A c \in Calls : call[c].pc = "idle"
  BY IdleType DEF SettlementInit
<1>2. \A o \in Orders : Blank(o) /\ \A a \in Accounts : paid[o][a] = 0
  BY DEF SettlementInit, Blank, DriverEntries, Accounts, Entries
<1> QED
  BY <1>1, <1>2 DEF OnceInv, SettledOnce, Stage, Blank, FirstSteps, UnseenSteps, TripDue, EntryDue

\* When settlements follow one another no order is settled twice through either path, whatever
\* fails but the two statements after which an order is credited and the guard cannot see it.
THEOREM SettledAtMostOnce ==
  OneCall /\ FailingSteps \cap UnseenSteps = {} => (SettlementSpec => []SettledOnce)
<1> SUFFICES ASSUME OneCall, FailingSteps \cap UnseenSteps = {} PROVE SettlementSpec => []SettledOnce
  OBVIOUS
<1>1. SettlementTypeOK /\ OnceInv /\ [SettlementNext]_settlementVars => (SettlementTypeOK /\ OnceInv)'
  BY TypeInductive, OnceInductive
<1>2. OnceInv => SettledOnce
  BY DEF OnceInv
<1> QED
  BY <1>1, <1>2, TypeInit, OnceInit, PTL DEF SettlementSpec
(***************************************************************************)
(* The driver's debt                                                       *)
(***************************************************************************)

\* What the entries of an order say the driver owes, and the sum of that.
DebtEntries == [ o \in Orders |-> DebtOf[o] * (ledger[o]["debt"] + ledger[o]["debtPending"]) ]
DebtEntered == SumFunctionOnSet(DebtEntries, Orders)

LEMMA DebtType == ASSUME SettlementTypeOK PROVE \A o \in Orders : DebtEntries[o] \in Int
BY SettlementAssumption DEF SettlementTypeOK, DebtEntries, Entries

LEMMA DebtEnteredKept ==
  ASSUME \A o \in Orders : /\ ledger'[o]["debt"] = ledger[o]["debt"]
                           /\ ledger'[o]["debtPending"] = ledger[o]["debtPending"]
  PROVE  DebtEntered' = DebtEntered
<1>1. DebtEntries' = DebtEntries
  BY DEF DebtEntries
<1> QED
  BY <1>1 DEF DebtEntered

\* One entry more, of either kind, adds the debt of its order.
LEMMA DebtEnteredMore ==
  ASSUME SettlementTypeOK, NEW o \in Orders, NEW entries, Enter(o, entries),
         ("debt" \in entries) # ("debtPending" \in entries)
  PROVE  DebtEntered' = DebtEntered + DebtOf[o]
<1>1. /\ ledger'[o]["debt"] + ledger'[o]["debtPending"] = ledger[o]["debt"] + ledger[o]["debtPending"] + 1
      /\ \A p \in Orders \ { o } : /\ ledger'[p]["debt"] = ledger[p]["debt"]
                                   /\ ledger'[p]["debtPending"] = ledger[p]["debtPending"]
      /\ ledger[o]["debt"] + ledger[o]["debtPending"] \in Int
  <2>1. /\ ledger[o]["debt"] \in Nat /\ ledger[o]["debtPending"] \in Nat
        /\ \A p \in Orders, e \in Entries :
             ledger'[p][e] = IF p = o /\ e \in entries THEN ledger[p][e] + 1 ELSE ledger[p][e]
    BY Entered DEF Entries, SettlementTypeOK
  <2>2. CASE "debt" \in entries /\ "debtPending" \notin entries
    BY <2>1, <2>2 DEF Entries
  <2>3. CASE "debt" \notin entries /\ "debtPending" \in entries
    BY <2>1, <2>3 DEF Entries
  <2> QED
    BY <2>2, <2>3
<1>2. DebtEntries'[o] = DebtEntries[o] + DebtOf[o]
  <2>1. \A n \in Int : DebtOf[o] * (n + 1) = DebtOf[o] * n + DebtOf[o]
    BY SettlementAssumption
  <2> QED
    BY <1>1, <2>1 DEF DebtEntries
<1>3. \A p \in Orders \ { o } : DebtEntries'[p] = DebtEntries[p]
  BY <1>1 DEF DebtEntries
<1>4. DebtOf[o] \in Int /\ IsFiniteSet(Orders)
  BY SettlementAssumption
<1>5. DebtEntered' = DebtEntered + DebtEntries'[o] - DebtEntries[o]
  <2> DEFINE f == DebtEntries
             g == DebtEntries'
  <2>1. /\ \A p \in Orders : f[p] \in Int
        /\ \A p \in Orders \ { o } : g[p] = f[p]
        /\ g[o] \in Int
    BY <1>2, <1>3, <1>4, DebtType
  <2>2. DebtEntered = SumFunctionOnSet(f, Orders) /\ DebtEntered' = SumFunctionOnSet(g, Orders)
    BY DEF DebtEntered
  <2> HIDE DEF f, g
  <2>3. SumFunctionOnSet(g, Orders) = SumFunctionOnSet(f, Orders) + g[o] - f[o]
    BY <1>4, <2>1, SumChange
  <2> QED
    BY <2>2, <2>3 DEF f, g
<1>6. DebtEntered \in Int
  BY <1>4, DebtType, SumType DEF DebtEntered
<1> QED
  BY <1>2, <1>4, <1>5, <1>6, DebtType

\* Settlements that write the debt they have read do not overlap with another.
Apart == OneCall \/ "api" \notin Paths

NaturalDebts == \A o \in Driven \cap Cash : DebtOf[o] >= 0

\* The debt was raised and its entry is not written yet.
DebtDue == { "driverEntry", "debtEntry" }

Owes(c) == call[c].pc \in DebtDue /\ call[c].order \in Cash

\* Where a call of handleDelivered is, before its award of points.
StatementSteps == ApiSteps \ { "points" }

\* A call that is about to write the debt has read the present one.
DebtStage(c) ==
  /\ "api" \notin Paths => call[c].pc \notin StatementSteps
  /\ At(c, "profile") /\ call[c].order \in Cash => call[c].debt = driver.debt
  /\ At(c, "driverWallet") => call[c].order \notin Cash
  /\ At(c, "debtEntry") => call[c].order \in Cash

\* The debt is what the entries say, and what the settlement in between adds.
DebtInv ==
  /\ \A c \in Calls : DebtStage(c)
  /\ (\A c \in Calls : ~Owes(c)) => driver.debt = DebtEntered
  /\ \A c \in Calls : Owes(c) => driver.debt = DebtEntered + DebtOf[call[c].order]

\* What one settlement does to the debt is a matter of that settlement only.
LEMMA DebtStep ==
  ASSUME SettlementTypeOK, Apart, DebtInv, NEW c \in Calls,
         \A d \in Calls : d # c => call'[d] = call[d],
         DebtStage(c)',
         driver.debt = DebtEntered + (IF Owes(c) THEN DebtOf[call[c].order] ELSE 0)
           => driver'.debt = DebtEntered' + (IF Owes(c)' THEN DebtOf[call'[c].order] ELSE 0),
         DebtEntered' \in Int
  PROVE  DebtInv'
<1>1. \A d \in Calls : d # c => call[d].pc \notin StatementSteps
  BY DEF Apart, OneCall, DebtInv, DebtStage
<1>2. \A d \in Calls : d # c => ~Owes(d) /\ ~Owes(d)' /\ DebtStage(d)'
  BY <1>1 DEF Owes, DebtStage, DebtDue, StatementSteps, ApiSteps, At
<1>3. DebtEntered \in Int
  BY SettlementAssumption, DebtType, SumType DEF DebtEntered
<1>4. driver.debt = DebtEntered + (IF Owes(c) THEN DebtOf[call[c].order] ELSE 0)
  BY <1>2, <1>3 DEF DebtInv
<1>5. driver'.debt = DebtEntered' + (IF Owes(c)' THEN DebtOf[call'[c].order] ELSE 0)
  BY <1>4
<1>6. \A d \in Calls : DebtStage(d)'
  BY <1>2
<1>7. CASE Owes(c)'
  BY <1>2, <1>5, <1>6, <1>7 DEF DebtInv
<1>8. CASE ~Owes(c)'
  <2>1. driver'.debt = DebtEntered' /\ \A d \in Calls : ~Owes(d)'
    BY <1>2, <1>5, <1>8
  <2> QED
    BY <1>6, <2>1 DEF DebtInv
<1> QED
  BY <1>7, <1>8

\* Steps of which the debt and its entries know nothing.
LEMMA DebtKept ==
  ASSUME SettlementTypeOK, Apart, DebtInv, NEW c \in Calls,
         \A d \in Calls : d # c => call'[d] = call[d],
         call[c].pc \notin DebtDue,
         call'[c].pc \in StatementSteps => "api" \in Paths,
         call'[c].pc \notin DebtDue \cup { "profile", "driverWallet" },
         driver'.debt = driver.debt,
         \A o \in Orders : /\ ledger'[o]["debt"] = ledger[o]["debt"]
                           /\ ledger'[o]["debtPending"] = ledger[o]["debtPending"]
  PROVE  DebtInv'
<1>1. DebtEntered' = DebtEntered /\ DebtEntered \in Int
  BY SettlementAssumption, DebtType, SumType, DebtEnteredKept DEF DebtEntered
<1>2. ~Owes(c) /\ ~Owes(c)' /\ DebtStage(c)'
  BY DEF Owes, DebtStage, At, DebtDue
<1> QED
  BY <1>1, <1>2, DebtStep

LEMMA DebtInductive ==
  ASSUME Apart, NaturalDebts, FailingSteps \cap DebtDue = {}, SettlementTypeOK, DebtInv, [SettlementNext]_settlementVars
  PROVE  DebtInv'
<1> USE DEF Pcs, ApiSteps, TxSteps, DebtDue, StatementSteps
<1>0. /\ \A c \in Calls : call[c].order \in Orders /\ DebtStage(c)
      /\ \A c \in Calls : call[c].pc \in StatementSteps => "api" \in Paths
      /\ \A o \in Orders : DebtOf[o] \in Int
      /\ DebtEntered \in Int
      /\ driver.debt \in Int
  BY SettlementAssumption, DebtType, SumType DEF SettlementTypeOK, CallStates, DebtInv, DebtStage, DebtEntered
<1>1. ASSUME NEW c \in Calls, NEW o \in Orders, Start(c, o) PROVE DebtInv'
  <2>1. call'[c].pc \in { "guard", "txGuard" } /\ \A d \in Calls : d # c => call'[d] = call[d]
    BY <1>1, CallStarts
  <2>2. call'[c].pc = "guard" => "api" \in Paths
    <3>1. PICK path \in Paths : call' = [ call EXCEPT ![c] =
            [ IdleCall EXCEPT !.pc = IF path = "api" THEN "guard" ELSE "txGuard", !.order = o ] ]
      BY <1>1 DEF Start
    <3>2. call'[c].pc = IF path = "api" THEN "guard" ELSE "txGuard"
      BY <3>1 DEF SettlementTypeOK, IdleCall
    <3> QED
      BY <3>2
  <2> QED
    BY <1>1, <2>1, <2>2, DebtKept DEF Start, At
\* Statements and phases that neither write a debt nor lead to one that does.
<1>2. ASSUME NEW c \in Calls,
             \/ ApiGuard(c) \/ ApiSaveSplit(c) \/ ApiCreditRestaurant(c) \/ ApiCreditOwner(c)
             \/ ApiOwnerEntry(c) \/ AwardPoints(c)
             \/ TxGuard(c) \/ TxLockRows(c) \/ TxReadDriver(c)
             \/ ApiFail(c) \/ TxAbort(c)
      PROVE  DebtInv'
  <2>1. /\ driver' = driver
        /\ \A o \in Orders : /\ ledger'[o]["debt"] = ledger[o]["debt"]
                             /\ ledger'[o]["debtPending"] = ledger[o]["debtPending"]
    BY <1>0, <1>2, Entered
    DEF ApiGuard, ApiSaveSplit, ApiCreditRestaurant, ApiCreditOwner, ApiOwnerEntry, AwardPoints,
        TxGuard, TxLockRows, TxReadDriver, ApiFail, TxAbort, Entries
  <2>2. call[c].pc \notin DebtDue
    BY <1>2 DEF ApiGuard, ApiSaveSplit, ApiCreditRestaurant, ApiCreditOwner, ApiOwnerEntry,
        AwardPoints, TxGuard, TxLockRows, TxReadDriver, ApiFail, TxAbort, At
  <2>3. PICK to \in { "idle", "split", "restaurant", "owner", "ownerEntry", "driver", "points",
                      "txRows", "txDriver", "txCommit" } :
          /\ Moves(c, to) \/ (to = "idle" /\ Ends(c))
          /\ to \in StatementSteps => call[c].pc \in StatementSteps
    <3>1. CASE ApiGuard(c) \/ ApiSaveSplit(c) \/ ApiCreditRestaurant(c) \/ ApiCreditOwner(c)
      BY <3>1, CallEnds, CallMoves
      DEF ApiGuard, ApiSaveSplit, ApiCreditRestaurant, ApiCreditOwner, At
    <3>2. CASE ApiOwnerEntry(c)
      BY <3>2, CallMoves DEF ApiOwnerEntry, At
    <3>3. CASE AwardPoints(c) \/ ApiFail(c)
      BY <3>3, CallEnds DEF AwardPoints, ApiFail
    <3>4. CASE TxGuard(c) \/ TxLockRows(c) \/ TxReadDriver(c) \/ TxAbort(c)
      BY <3>4, CallEnds, CallMoves, CallReads DEF TxGuard, TxLockRows, TxReadDriver, TxAbort
    <3> QED
      BY <1>2, <3>1, <3>2, <3>3, <3>4
  <2>4. call'[c].pc = to /\ \A d \in Calls : d # c => call'[d] = call[d]
    BY <2>3 DEF Moves, Ends
  <2> QED
    BY <1>0, <2>1, <2>2, <2>3, <2>4, DebtKept
<1>3. ASSUME NEW c \in Calls, ApiReadDriver(c) PROVE DebtInv'
  <2> DEFINE to == IF call[c].order \in Cash THEN "profile" ELSE "driverWallet"
  <2>1. Moves(c, to) /\ call'[c].debt = driver.debt /\ UNCHANGED << driver, ledger >>
    BY <1>3, CallReads DEF ApiReadDriver, ReadProfile, SettlementTypeOK, CallStates
  <2>2. DebtEntered' = DebtEntered
    BY <2>1, DebtEnteredKept
  <2>3. DebtStage(c)' /\ ~Owes(c) /\ ~Owes(c)'
    BY <1>0, <1>3, <2>1 DEF Moves, DebtStage, Owes, ApiReadDriver, At
  <2> QED
    BY <1>0, <2>1, <2>2, <2>3, DebtStep DEF Moves
<1>4. ASSUME NEW c \in Calls, ApiCreditDriver(c) PROVE DebtInv'
  <2>1. Moves(c, "profile") /\ UNCHANGED << driver, ledger >> /\ call[c].pc = "driverWallet"
    BY <1>4, CallMoves DEF ApiCreditDriver, At
  <2>2. DebtEntered' = DebtEntered
    BY <2>1, DebtEnteredKept
  <2>3. DebtStage(c)' /\ ~Owes(c) /\ ~Owes(c)'
    BY <1>0, <2>1 DEF Moves, DebtStage, Owes, At
  <2> QED
    BY <1>0, <2>1, <2>2, <2>3, DebtStep DEF Moves
<1>5. ASSUME NEW c \in Calls, ApiUpdateProfile(c) PROVE DebtInv'
  <2> DEFINE o == call[c].order
  <2>1. Moves(c, "driverEntry") /\ UNCHANGED ledger /\ call[c].pc = "profile"
    BY <1>5, CallMoves DEF ApiUpdateProfile, At
  <2>2. driver'.debt = IF o \in Cash THEN driver.debt + DebtOf[o] ELSE driver.debt
    <3>1. o \in Cash => call[c].debt = driver.debt
      BY <1>0, <2>1 DEF DebtStage, At
    <3> QED
      BY <1>5, <3>1 DEF ApiUpdateProfile
  <2>3. DebtEntered' = DebtEntered
    BY <2>1, DebtEnteredKept
  <2>4. DebtStage(c)' /\ ~Owes(c) /\ (Owes(c)' <=> o \in Cash) /\ call'[c].order = o /\ o \in Orders
    BY <1>0, <2>1 DEF Moves, DebtStage, Owes, At
  <2> QED
    BY <1>0, <2>1, <2>2, <2>3, <2>4, DebtStep DEF Moves
<1>6. ASSUME NEW c \in Calls, ApiDriverEntry(c) PROVE DebtInv'
  <2> DEFINE o == call[c].order
             to == IF o \in Cash THEN "debtEntry" ELSE "points"
  <2>1. Moves(c, to) /\ UNCHANGED driver /\ call[c].pc = "driverEntry" /\ Enter(o, { "driver" })
    BY <1>6, CallMoves DEF ApiDriverEntry, At
  <2>2. DebtEntered' = DebtEntered
    BY <1>0, <2>1, Entered, DebtEnteredKept DEF Entries
  <2>3. DebtStage(c)' /\ (Owes(c) <=> o \in Cash) /\ (Owes(c)' <=> o \in Cash) /\ call'[c].order = o
    BY <1>0, <2>1 DEF Moves, DebtStage, Owes, At
  <2> QED
    BY <1>0, <2>1, <2>2, <2>3, DebtStep DEF Moves
<1>7. ASSUME NEW c \in Calls, ApiDebtEntry(c) PROVE DebtInv'
  <2> DEFINE o == call[c].order
  <2>1. Moves(c, "points") /\ UNCHANGED driver /\ call[c].pc = "debtEntry" /\ Enter(o, { "debt" })
    BY <1>7, CallMoves DEF ApiDebtEntry, At
  <2>2. DebtEntered' = DebtEntered + DebtOf[o]
    BY <1>0, <2>1, DebtEnteredMore
  <2>3. DebtStage(c)' /\ Owes(c) /\ ~Owes(c)' /\ o \in Orders
    BY <1>0, <2>1 DEF Moves, DebtStage, Owes, At
  <2> QED
    BY <1>0, <2>1, <2>2, <2>3, DebtStep DEF Moves
\* Increase and entry are written together; an increase of nothing has no entry.
<1>8. ASSUME NEW c \in Calls, TxCommit(c) PROVE DebtInv'
  <2> DEFINE o == call[c].order
             increase == IF o \in Driven \cap Cash THEN DebtOf[o] ELSE 0
  <2>1. /\ Moves(c, "points") /\ call[c].pc = "txCommit" /\ Enter(o, TxEntries(o))
    BY <1>8, CallMoves DEF TxCommit, At
  <2>2. driver'.debt = driver.debt + increase
    BY <1>0, <1>8 DEF TxCommit
  <2>3. DebtEntered' = DebtEntered + increase
    <3>1. CASE o \in Driven \cap Cash /\ DebtOf[o] > 0
      <4>1. "debtPending" \in TxEntries(o) /\ "debt" \notin TxEntries(o)
        BY <3>1 DEF TxEntries
      <4> QED
        BY <1>0, <2>1, <3>1, <4>1, DebtEnteredMore
    <3>2. CASE ~(o \in Driven \cap Cash /\ DebtOf[o] > 0)
      <4>1. "debtPending" \notin TxEntries(o) /\ "debt" \notin TxEntries(o)
        BY <3>2 DEF TxEntries
      <4>2. DebtEntered' = DebtEntered
        BY <1>0, <2>1, <4>1, Entered, DebtEnteredKept DEF Entries
      <4>3. increase = 0
        BY <1>0, <3>2 DEF NaturalDebts
      <4> QED
        BY <1>0, <4>2, <4>3
    <3> QED
      BY <3>1, <3>2
  <2>4. DebtStage(c)' /\ ~Owes(c) /\ ~Owes(c)' /\ increase \in Int
    BY <1>0, <2>1 DEF Moves, DebtStage, Owes, At
  <2> QED
    BY <1>0, <2>1, <2>2, <2>3, <2>4, DebtStep DEF Moves
<1>9. CASE UNCHANGED settlementVars
  <2>1. DebtEntered' = DebtEntered
    BY <1>9, DebtEnteredKept DEF settlementVars
  <2> QED
    BY <1>9, <2>1 DEF settlementVars, DebtInv, DebtStage, Owes, At
<1> QED
  BY <1>1, <1>2, <1>3, <1>4, <1>5, <1>6, <1>7, <1>8, <1>9 DEF SettlementNext, Progress

LEMMA DebtInit == SettlementInit => DebtInv
<1> SUFFICES ASSUME SettlementInit PROVE DebtInv
  OBVIOUS
<1>1. \A c \in Calls : call[c].pc = "idle"
  BY IdleType DEF SettlementInit
<1>2. \A o \in Orders : DebtEntries[o] = 0
  BY SettlementAssumption DEF SettlementInit, DebtEntries, Entries
<1>3. DebtEntered = 0
  BY <1>2, SettlementAssumption, SumZero DEF DebtEntered
<1> QED
  BY <1>1, <1>3 DEF SettlementInit, DebtInv, DebtStage, Owes, DebtDue, StatementSteps, ApiSteps, At

\* Between settlements the debt of the driver is the sum of the DEBT entries: when they
\* follow one another, or all of them are transactions, which may overlap. Any step may fail
\* but the two after which the debt is raised and its entry is missing.
THEOREM DebtBacked ==
  Apart /\ NaturalDebts /\ FailingSteps \cap DebtDue = {} => (SettlementSpec => []DebtIsInLedger)
<1> SUFFICES ASSUME Apart, NaturalDebts, FailingSteps \cap DebtDue = {}
             PROVE  SettlementSpec => []DebtIsInLedger
  OBVIOUS
<1>1. SettlementTypeOK /\ DebtInv /\ [SettlementNext]_settlementVars => (SettlementTypeOK /\ DebtInv)'
  BY TypeInductive, DebtInductive
<1>2. DebtInv => DebtIsInLedger
  BY DEF DebtInv, DebtIsInLedger, NoneUnderWay, Owes, DebtDue, At, DebtEntered, DebtEntries
<1> QED
  BY <1>1, <1>2, TypeInit, DebtInit, PTL DEF SettlementSpec

(***************************************************************************)
(* The debt limit                                                          *)
(***************************************************************************)

\* Transactions, which compare the debt they have read and not the one they leave, do not
\* overlap with another settlement.
ReadsCurrent == OneCall \/ "firebase" \notin Paths

\* A transaction about to commit has read the present debt.
LimitInv ==
  \A c \in Calls :
    /\ "firebase" \notin Paths => call[c].pc \notin TxSteps
    /\ At(c, "txCommit") /\ call[c].order \in Driven => call[c].debt = driver.debt

LEMMA LimitInductive ==
  ASSUME ReadsCurrent, SettlementTypeOK, LimitInv, [SettlementNext]_settlementVars
  PROVE  LimitInv'
<1> USE DEF Pcs, ApiSteps, TxSteps
<1>1. ASSUME NEW c \in Calls, \A d \in Calls : d # c => call'[d] = call[d],
             call'[c].pc \in TxSteps => "firebase" \in Paths,
             \/ call'[c].pc # "txCommit"
             \/ call'[c].order \notin Driven
             \/ call'[c].debt = driver'.debt
      PROVE  LimitInv'
  <2>1. ASSUME NEW d \in Calls, d # c
        PROVE  call'[d].pc \notin TxSteps
    BY <1>1, <2>1 DEF ReadsCurrent, OneCall, LimitInv
  <2> QED
    BY <1>1, <2>1 DEF LimitInv, At
<1>2. ASSUME NEW c \in Calls, NEW o \in Orders, Start(c, o) PROVE LimitInv'
  <2>1. PICK path \in Paths : call' = [ call EXCEPT ![c] =
          [ IdleCall EXCEPT !.pc = IF path = "api" THEN "guard" ELSE "txGuard", !.order = o ] ]
    BY <1>2 DEF Start
  <2>2. call'[c].pc = IF path = "api" THEN "guard" ELSE "txGuard"
    BY <2>1 DEF SettlementTypeOK, IdleCall
  <2>3. path = "api" \/ path = "firebase"
    BY SettlementAssumption
  <2> QED
    BY <1>1, <1>2, <2>2, <2>3, CallStarts
<1>3. ASSUME NEW c \in Calls,
             \/ ApiGuard(c) \/ ApiSaveSplit(c) \/ ApiCreditRestaurant(c) \/ ApiCreditOwner(c)
             \/ ApiOwnerEntry(c) \/ ApiReadDriver(c) \/ ApiCreditDriver(c) \/ ApiUpdateProfile(c)
             \/ ApiDriverEntry(c) \/ ApiDebtEntry(c) \/ AwardPoints(c) \/ ApiFail(c)
      PROVE  LimitInv'
  <2>1. PICK to \in { "idle", "split", "restaurant", "owner", "ownerEntry", "driver", "profile",
                      "driverWallet", "driverEntry", "debtEntry", "points" } :
          Moves(c, to) \/ (to = "idle" /\ Ends(c))
    <3>1. CASE ApiGuard(c) \/ ApiSaveSplit(c) \/ ApiCreditRestaurant(c) \/ ApiCreditOwner(c)
      BY <3>1, CallEnds, CallMoves DEF ApiGuard, ApiSaveSplit, ApiCreditRestaurant, ApiCreditOwner
    <3>2. CASE ApiOwnerEntry(c) \/ ApiReadDriver(c) \/ ApiCreditDriver(c)
      BY <3>2, CallReads, CallMoves DEF ApiOwnerEntry, ApiReadDriver, ApiCreditDriver
    <3>3. CASE ApiUpdateProfile(c) \/ ApiDriverEntry(c) \/ ApiDebtEntry(c)
      BY <3>3, CallMoves DEF ApiUpdateProfile, ApiDriverEntry, ApiDebtEntry
    <3>4. CASE AwardPoints(c) \/ ApiFail(c)
      BY <3>4, CallEnds DEF AwardPoints, ApiFail
    <3> QED
      BY <1>3, <3>1, <3>2, <3>3, <3>4
  <2>2. call'[c].pc = to /\ \A d \in Calls : d # c => call'[d] = call[d]
    BY <2>1 DEF Moves, Ends
  <2> QED
    BY <1>1, <2>1, <2>2
<1>4. ASSUME NEW c \in Calls, call[c].pc \in TxSteps PROVE "firebase" \in Paths
  BY <1>4 DEF LimitInv
<1>5. ASSUME NEW c \in Calls, TxGuard(c) \/ TxCommit(c) \/ TxAbort(c) PROVE LimitInv'
  <2>1. PICK to \in { "idle", "txRows", "points" } : Moves(c, to) \/ (to = "idle" /\ Ends(c))
    BY <1>5, CallEnds, CallMoves DEF TxGuard, TxCommit, TxAbort
  <2>2. call'[c].pc = to /\ \A d \in Calls : d # c => call'[d] = call[d]
    BY <2>1 DEF Moves, Ends
  <2> QED
    BY <1>1, <1>4, <1>5, <2>1, <2>2 DEF TxGuard, TxCommit, TxAbort, At
<1>6. ASSUME NEW c \in Calls, TxLockRows(c) PROVE LimitInv'
  <2>1. PICK to \in { "txDriver", "txCommit" } :
          Moves(c, to) /\ (to = "txDriver" <=> call[c].order \in Driven)
    BY <1>6, CallMoves DEF TxLockRows
  <2> QED
    BY <1>1, <1>4, <1>6, <2>1 DEF Moves, TxLockRows, At
<1>7. ASSUME NEW c \in Calls, TxReadDriver(c) PROVE LimitInv'
  <2>1. Moves(c, "txCommit") /\ call'[c].debt = driver.debt /\ driver' = driver
    BY <1>7, CallReads DEF TxReadDriver, ReadProfile, SettlementTypeOK, CallStates
  <2> QED
    BY <1>1, <1>4, <1>7, <2>1 DEF Moves, TxReadDriver, At
<1>8. CASE UNCHANGED settlementVars
  BY <1>8 DEF settlementVars, LimitInv, At
<1> QED
  BY <1>2, <1>3, <1>5, <1>6, <1>7, <1>8 DEF SettlementNext, Progress

LEMMA LimitStep ==
  ASSUME SettlementTypeOK, LimitInv, [SettlementNext]_settlementVars
  PROVE  driver'.debt > driver.debt /\ driver'.debt >= DebtLimit => ~driver'.available
<1>0. /\ driver.debt \in Int /\ DebtLimit \in Int
      /\ \A c \in Calls : call[c].order \in Orders
      /\ \A o \in Orders : DebtOf[o] \in Int
  BY SettlementAssumption DEF SettlementTypeOK, CallStates
<1>1. CASE driver' = driver
  BY <1>0, <1>1
<1>2. ASSUME NEW c \in Calls, ApiUpdateProfile(c), call[c].order \in Cash
      PROVE  driver'.debt >= DebtLimit => ~driver'.available
  BY <1>2 DEF ApiUpdateProfile, StaysAvailable
<1>3. ASSUME NEW c \in Calls, TxCommit(c), call[c].order \in Driven
      PROVE  driver'.debt >= DebtLimit => ~driver'.available
  <2> DEFINE increase == IF call[c].order \in Cash THEN DebtOf[call[c].order] ELSE 0
  <2>1. call[c].debt = driver.debt
    BY <1>3 DEF LimitInv, TxCommit
  <2>2. /\ driver'.debt = driver.debt + increase
        /\ driver'.available = StaysAvailable(c, call[c].debt + increase)
    BY <1>3 DEF TxCommit
  <2> QED
    BY <2>1, <2>2 DEF StaysAvailable
<1>4. \/ driver' = driver
      \/ \E c \in Calls : ApiUpdateProfile(c) /\ call[c].order \in Cash
      \/ \E c \in Calls : TxCommit(c) /\ call[c].order \in Driven
  BY DEF SettlementNext, Progress, Start, ApiGuard, ApiSaveSplit, ApiCreditRestaurant, ApiCreditOwner,
         ApiOwnerEntry, ApiReadDriver, ApiCreditDriver, ApiUpdateProfile, ApiDriverEntry,
         ApiDebtEntry, AwardPoints, TxGuard, TxLockRows, TxReadDriver, TxCommit, ApiFail, TxAbort,
         settlementVars
<1> QED
  BY <1>1, <1>2, <1>3, <1>4

\* A settlement that takes the debt to the limit leaves the driver suspended, whatever fails:
\* when settlements follow one another, and also when they overlap but are all calls of
\* handleDelivered, which write the debt they have compared.
THEOREM LimitSuspends == ReadsCurrent => (SettlementSpec => SuspendedAtLimit)
<1> SUFFICES ASSUME ReadsCurrent PROVE SettlementSpec => SuspendedAtLimit
  OBVIOUS
<1>1. SettlementInit => LimitInv
  BY IdleType DEF SettlementInit, LimitInv, TxSteps, At
<1>2. SettlementTypeOK /\ LimitInv /\ [SettlementNext]_settlementVars => (SettlementTypeOK /\ LimitInv)'
  BY TypeInductive, LimitInductive
<1>3. SettlementTypeOK /\ LimitInv /\ [SettlementNext]_settlementVars =>
        [ driver'.debt > driver.debt /\ driver'.debt >= DebtLimit => ~driver'.available ]_settlementVars
  BY LimitStep
<1> QED
  BY <1>1, <1>2, <1>3, TypeInit, PTL DEF SettlementSpec, SuspendedAtLimit
=============================================================================

--------------------------- MODULE DispatchProofs ---------------------------
(***************************************************************************)
(* Theorems about Dispatch, for any number of drivers, requests and calls, *)
(* whichever answers are given and however they overlap.                   *)
(***************************************************************************)
EXTENDS Dispatch, TLAPS

AnswerSteps == { "accept", "assign", "others", "count", "reject", "countReject", "rate" }
FirebaseSteps == { "fbAssign", "fbOwn", "fbOthers" }

(***************************************************************************)
(* Types                                                                   *)
(***************************************************************************)

\* A row has its driver from the moment it is created, an answer the driver of its row.
RowsFit ==
  \A q \in Requests :
    /\ request[q].status = "NONE" => request[q].driver = NoDriver
    /\ request[q].status # "NONE" => request[q].driver \in Drivers

TasksFit ==
  \A t \in Tasks :
    /\ ~At(t, "idle") => task[t].driver \in Drivers
    /\ task[t].pc \in AnswerSteps =>
         /\ request[task[t].request].status # "NONE"
         /\ request[task[t].request].driver = task[t].driver

TypeInv == TypeOK /\ RowsFit /\ TasksFit

LEMMA IdleType == IdleTask \in TaskStates /\ IdleTask.pc = "idle"
BY DispatchAssumption DEF IdleTask, TaskStates

\* What SetStatus does to each row.
LEMMA StatusSet ==
  ASSUME TypeOK, NEW rows, NEW status \in Statuses, SetStatus(rows, status)
  PROVE  /\ request' \in [ Requests -> [ driver : Drivers \cup { NoDriver }, status : Statuses, late : BOOLEAN ] ]
         /\ \A q \in Requests :
              /\ request'[q].driver = request[q].driver
              /\ request'[q].status = IF q \in rows THEN status ELSE request[q].status
BY DEF TypeOK, SetStatus

\* What a step does to the slot it is of.
LEMMA TaskSet ==
  ASSUME TypeOK, NEW t \in Tasks, NEW state \in TaskStates, task' = [ task EXCEPT ![t] = state ]
  PROVE  /\ task' \in [ Tasks -> TaskStates ]
         /\ task'[t] = state /\ \A u \in Tasks : u # t => task'[u] = task[u]
BY DEF TypeOK

LEMMA TaskFinish ==
  ASSUME TypeOK, NEW t \in Tasks, Finish(t)
  PROVE  /\ task' \in [ Tasks -> TaskStates ]
         /\ task'[t].pc = "idle" /\ \A u \in Tasks : u # t => task'[u] = task[u]
BY IdleType, TaskSet DEF Finish

LEMMA TaskGoto ==
  ASSUME TypeOK, NEW t \in Tasks, NEW pc \in AnswerSteps \cup FirebaseSteps, Goto(t, pc)
  PROVE  /\ task' \in [ Tasks -> TaskStates ]
         /\ task'[t].pc = pc /\ task'[t].driver = task[t].driver
         /\ task'[t].request = task[t].request /\ task'[t].totals = task[t].totals
         /\ \A u \in Tasks : u # t => task'[u] = task[u]
<1>1. task \in [ Tasks -> TaskStates ] /\ task[t] \in TaskStates
  BY DEF TypeOK
<1>2. PICK state \in TaskStates : state = [ task[t] EXCEPT !.pc = pc ]
  BY <1>1 DEF TaskStates, AnswerSteps, FirebaseSteps
<1>3. task' = [ task EXCEPT ![t] = state ]
  BY <1>1, <1>2 DEF Goto
<1>4. /\ state.pc = pc /\ state.driver = task[t].driver
      /\ state.request = task[t].request /\ state.totals = task[t].totals
  BY <1>1, <1>2 DEF TaskStates
<1> QED
  BY <1>3, <1>4, TaskSet

\* A call that begins works for a driver.
LEMMA AnswerBegins ==
  ASSUME TypeOK, NEW t \in Tasks, NEW pc \in AnswerSteps, NEW d \in Drivers, NEW q \in Requests,
         task' = [ task EXCEPT ![t] = [ IdleTask EXCEPT !.pc = pc, !.driver = d, !.request = q ] ]
  PROVE  /\ task' \in [ Tasks -> TaskStates ]
         /\ task'[t].pc = pc /\ task'[t].driver = d /\ task'[t].request = q
         /\ \A u \in Tasks : u # t => task'[u] = task[u]
<1>1. [ IdleTask EXCEPT !.pc = pc, !.driver = d, !.request = q ] \in TaskStates
  BY IdleType DEF TaskStates, AnswerSteps
<1>2. /\ [ IdleTask EXCEPT !.pc = pc, !.driver = d, !.request = q ].pc = pc
      /\ [ IdleTask EXCEPT !.pc = pc, !.driver = d, !.request = q ].driver = d
      /\ [ IdleTask EXCEPT !.pc = pc, !.driver = d, !.request = q ].request = q
  BY DEF IdleTask
<1> QED
  BY <1>1, <1>2, TaskSet

LEMMA FirebaseBegins ==
  ASSUME TypeOK, NEW t \in Tasks, NEW d \in Drivers,
         task' = [ task EXCEPT ![t] = [ IdleTask EXCEPT !.pc = "fbAssign", !.driver = d ] ]
  PROVE  /\ task' \in [ Tasks -> TaskStates ]
         /\ task'[t].pc = "fbAssign" /\ task'[t].driver = d
         /\ \A u \in Tasks : u # t => task'[u] = task[u]
<1>1. [ IdleTask EXCEPT !.pc = "fbAssign", !.driver = d ] \in TaskStates
  BY IdleType DEF TaskStates
<1>2. /\ [ IdleTask EXCEPT !.pc = "fbAssign", !.driver = d ].pc = "fbAssign"
      /\ [ IdleTask EXCEPT !.pc = "fbAssign", !.driver = d ].driver = d
  BY DEF IdleTask
<1> QED
  BY <1>1, <1>2, TaskSet

\* A step that creates no row and leaves the driver of each: what is left to show is that
\* its own slot fits.
LEMMA TypeStep ==
  ASSUME TypeInv, NEW t \in Tasks, TypeOK',
         \A q \in Requests : /\ request'[q].driver = request[q].driver
                             /\ request'[q].status = "NONE" <=> request[q].status = "NONE",
         \A u \in Tasks : u # t => task'[u] = task[u],
         \/ task'[t].pc = "idle"
         \/ /\ task'[t].driver \in Drivers
            /\ task'[t].pc \in AnswerSteps =>
                 /\ request[task'[t].request].status # "NONE"
                 /\ request[task'[t].request].driver = task'[t].driver
  PROVE  TypeInv'
<1>1. \A u \in Tasks : task'[u].request \in Requests
  BY DEF TypeOK, TaskStates
<1>2. RowsFit'
  BY DEF TypeInv, RowsFit
<1>3. TasksFit'
  BY <1>1 DEF TypeInv, TasksFit, At, AnswerSteps
<1> QED
  BY <1>2, <1>3 DEF TypeInv

\* The status of the rows that an answer changes is one they can have only after "NONE".
LEMMA AnswerRows ==
  ASSUME TypeInv, NEW t \in Tasks, task[t].pc \in AnswerSteps, NEW status \in { "ACCEPTED", "REJECTED", "EXPIRED" },
         SetStatus({ task[t].request }, status) \/ SetStatus(Pending \ { task[t].request }, status)
  PROVE  /\ request' \in [ Requests -> [ driver : Drivers \cup { NoDriver }, status : Statuses, late : BOOLEAN ] ]
         /\ \A q \in Requests : /\ request'[q].driver = request[q].driver
                                /\ request'[q].status = "NONE" <=> request[q].status = "NONE"
<1>1. task[t].request \in Requests /\ request[task[t].request].status # "NONE"
  BY DEF TypeInv, TypeOK, TasksFit, TaskStates
<1> QED
  BY <1>1, StatusSet DEF TypeInv, Pending, Statuses

LEMMA TypeInductive == TypeInv /\ [Next]_vars => TypeInv'
<1> SUFFICES ASSUME TypeInv, [Next]_vars PROVE TypeInv'
  OBVIOUS
<1>0. TypeOK /\ RowsFit /\ TasksFit
  BY DEF TypeInv
<1>t. ASSUME NEW t \in Tasks
      PROVE  /\ task[t].driver \in Drivers \cup { NoDriver } /\ task[t].request \in Requests
             /\ task[t].totals \in Nat \X Nat
             /\ task[t].pc # "idle" => task[t].driver \in Drivers
             /\ task[t].pc \in AnswerSteps =>
                  /\ request[task[t].request].status # "NONE"
                  /\ request[task[t].request].driver = task[t].driver
  BY <1>0 DEF TypeOK, TaskStates, TasksFit, At
<1>1. ASSUME NEW q \in Requests, NEW d \in Drivers, RequestDriver(q, d) PROVE TypeInv'
  <2>1. TypeOK'
    BY <1>0, <1>1 DEF TypeOK, RequestDriver, Statuses
  <2>2. /\ request'[q].driver = d /\ request'[q].status = "PENDING" /\ request[q].status = "NONE"
        /\ \A r \in Requests : r # q => request'[r] = request[r]
    BY <1>0, <1>1 DEF TypeOK, RequestDriver
  <2>3. RowsFit'
    BY <1>0, <2>2 DEF RowsFit
  <2>4. TasksFit'
    BY <1>0, <1>1, <1>t, <2>2 DEF TasksFit, RequestDriver, At
  <2> QED
    BY <2>1, <2>3, <2>4 DEF TypeInv
<1>2. ASSUME NEW t \in Tasks, NEW q \in Requests, AcceptRead(t, q) PROVE TypeInv'
  <2>1. request[q].driver \in Drivers /\ request[q].status # "NONE"
    BY <1>0, <1>2 DEF AcceptRead, RowsFit
  <2>2. /\ task' \in [ Tasks -> TaskStates ]
        /\ task'[t].pc = "accept" /\ task'[t].driver = request[q].driver /\ task'[t].request = q
        /\ \A u \in Tasks : u # t => task'[u] = task[u]
    BY <1>0, <1>2, <2>1, AnswerBegins DEF AcceptRead, AnswerSteps
  <2>3. TypeOK'
    BY <1>0, <1>2, <2>2 DEF TypeOK, AcceptRead
  <2> QED
    BY <1>2, <2>1, <2>2, <2>3, TypeStep DEF AcceptRead
<1>3. ASSUME NEW t \in Tasks, NEW q \in Requests, RejectRead(t, q) PROVE TypeInv'
  <2>1. request[q].driver \in Drivers /\ request[q].status # "NONE"
    BY <1>0, <1>3 DEF RejectRead, RowsFit
  <2>2. /\ task' \in [ Tasks -> TaskStates ]
        /\ task'[t].pc = "reject" /\ task'[t].driver = request[q].driver /\ task'[t].request = q
        /\ \A u \in Tasks : u # t => task'[u] = task[u]
    BY <1>0, <1>3, <2>1, AnswerBegins DEF RejectRead, AnswerSteps
  <2>3. TypeOK'
    BY <1>0, <1>3, <2>2 DEF TypeOK, RejectRead
  <2> QED
    BY <1>3, <2>1, <2>2, <2>3, TypeStep DEF RejectRead
\* Steps that leave rows and calls alone.
<1>4. ASSUME (\E d \in Drivers : CreateDeliveryRequestInFirebase(d) \/ AppAccepts(d)) \/ OrderMovesOn
      PROVE  TypeInv'
  <2>1. UNCHANGED << request, task >>
    BY <1>4 DEF CreateDeliveryRequestInFirebase, AppAccepts, OrderMovesOn
  <2>2. TypeOK'
    <3>1. ASSUME NEW d \in Drivers, CreateDeliveryRequestInFirebase(d) PROVE TypeOK'
      BY <1>0, <3>1 DEF TypeOK, CreateDeliveryRequestInFirebase
    <3>2. ASSUME NEW d \in Drivers, AppAccepts(d) PROVE TypeOK'
      BY <1>0, <3>2 DEF TypeOK, AppAccepts
    <3>3. ASSUME OrderMovesOn PROVE TypeOK'
      BY <1>0, <3>3 DEF TypeOK, OrderMovesOn
    <3> QED
      BY <1>4, <3>1, <3>2, <3>3
  <2> QED
    BY <1>0, <2>1, <2>2 DEF TypeInv, RowsFit, TasksFit, At
<1>5. ASSUME NEW t \in Tasks, AcceptWrite(t) PROVE TypeInv'
  <2>1. /\ task' \in [ Tasks -> TaskStates ]
        /\ task'[t].pc = "assign" /\ task'[t].driver = task[t].driver /\ task'[t].request = task[t].request
        /\ \A u \in Tasks : u # t => task'[u] = task[u]
    BY <1>0, <1>5, TaskGoto DEF AcceptWrite, AnswerSteps
  <2>2. /\ request' \in [ Requests -> [ driver : Drivers \cup { NoDriver }, status : Statuses, late : BOOLEAN ] ]
        /\ \A q \in Requests : /\ request'[q].driver = request[q].driver
                               /\ request'[q].status = "NONE" <=> request[q].status = "NONE"
    BY <1>5, AnswerRows DEF AcceptWrite, At, AnswerSteps
  <2>3. TypeOK'
    BY <1>0, <1>5, <2>1, <2>2 DEF TypeOK, AcceptWrite
  <2> QED
    BY <1>5, <1>t, <2>1, <2>2, <2>3, TypeStep DEF AcceptWrite, At, AnswerSteps
<1>6. ASSUME NEW t \in Tasks, AcceptAssign(t) PROVE TypeInv'
  <2>1. /\ task' \in [ Tasks -> TaskStates ]
        /\ task'[t].pc = "others" /\ task'[t].driver = task[t].driver /\ task'[t].request = task[t].request
        /\ \A u \in Tasks : u # t => task'[u] = task[u]
    BY <1>0, <1>6, TaskGoto DEF AcceptAssign, AnswerSteps
  <2>2. TypeOK'
    BY <1>0, <1>6, <1>t, <2>1 DEF TypeOK, AcceptAssign
  <2> QED
    BY <1>6, <1>t, <2>1, <2>2, TypeStep DEF AcceptAssign, At, AnswerSteps
<1>7. ASSUME NEW t \in Tasks, AcceptOthers(t) PROVE TypeInv'
  <2>1. /\ task' \in [ Tasks -> TaskStates ]
        /\ task'[t].pc = "count" /\ task'[t].driver = task[t].driver /\ task'[t].request = task[t].request
        /\ \A u \in Tasks : u # t => task'[u] = task[u]
    BY <1>0, <1>7, TaskGoto DEF AcceptOthers, AnswerSteps
  <2>2. /\ request' \in [ Requests -> [ driver : Drivers \cup { NoDriver }, status : Statuses, late : BOOLEAN ] ]
        /\ \A q \in Requests : /\ request'[q].driver = request[q].driver
                               /\ request'[q].status = "NONE" <=> request[q].status = "NONE"
    BY <1>7, AnswerRows DEF AcceptOthers, At, AnswerSteps
  <2>3. TypeOK'
    BY <1>0, <1>7, <2>1, <2>2 DEF TypeOK, AcceptOthers
  <2> QED
    BY <1>7, <1>t, <2>1, <2>2, <2>3, TypeStep DEF AcceptOthers, At, AnswerSteps
<1>8. ASSUME NEW t \in Tasks, AcceptCount(t) PROVE TypeInv'
  <2>1. /\ task' \in [ Tasks -> TaskStates ]
        /\ task'[t].pc = "idle" /\ \A u \in Tasks : u # t => task'[u] = task[u]
    BY <1>0, <1>8, TaskFinish DEF AcceptCount
  <2>2. task[t].driver \in Drivers /\ stats[task[t].driver] \in Stats
    BY <1>0, <1>8, <1>t DEF TypeOK, AcceptCount, At
  <2>3. stats' \in [ Drivers -> Stats ]
    BY <1>0, <1>8, <2>2 DEF TypeOK, AcceptCount, Stats
  <2>4. TypeOK'
    BY <1>0, <1>8, <2>1, <2>3 DEF TypeOK, AcceptCount
  <2> QED
    BY <1>8, <2>1, <2>4, TypeStep DEF AcceptCount
<1>9. ASSUME NEW t \in Tasks, RejectWrite(t) PROVE TypeInv'
  <2>1. /\ task' \in [ Tasks -> TaskStates ]
        /\ task'[t].pc = "countReject" /\ task'[t].driver = task[t].driver /\ task'[t].request = task[t].request
        /\ \A u \in Tasks : u # t => task'[u] = task[u]
    BY <1>0, <1>9, TaskGoto DEF RejectWrite, AnswerSteps
  <2>2. /\ request' \in [ Requests -> [ driver : Drivers \cup { NoDriver }, status : Statuses, late : BOOLEAN ] ]
        /\ \A q \in Requests : /\ request'[q].driver = request[q].driver
                               /\ request'[q].status = "NONE" <=> request[q].status = "NONE"
    BY <1>9, AnswerRows DEF RejectWrite, At, AnswerSteps
  <2>3. TypeOK'
    BY <1>0, <1>9, <2>1, <2>2 DEF TypeOK, RejectWrite
  <2> QED
    BY <1>9, <1>t, <2>1, <2>2, <2>3, TypeStep DEF RejectWrite, At, AnswerSteps
<1>10. ASSUME NEW t \in Tasks, RejectCount(t) PROVE TypeInv'
  <2> DEFINE s == stats[task[t].driver]
  <2>1. s \in Stats /\ task[t].driver \in Drivers
    BY <1>0, <1>10, <1>t DEF TypeOK, RejectCount, At
  <2>2. /\ task' \in [ Tasks -> TaskStates ]
        /\ task'[t].pc = "rate" /\ task'[t].driver = task[t].driver /\ task'[t].request = task[t].request
        /\ \A u \in Tasks : u # t => task'[u] = task[u]
    <3>1. s.accepted \in Nat /\ s.rejected \in Nat
      BY <2>1 DEF Stats
    <3>2. << s.accepted, s.rejected + 1 >> \in Nat \X Nat
      BY <3>1
    <3>3. PICK totals \in Nat \X Nat : totals = << s.accepted, s.rejected + 1 >>
      BY <3>2, Zenon
    <3>4. task' = [ task EXCEPT ![t].pc = "rate", ![t].totals = totals ]
      BY <1>10, <3>3 DEF RejectCount
    <3>5. task[t] \in TaskStates /\ task \in [ Tasks -> TaskStates ]
      BY <1>0 DEF TypeOK
    <3>6. PICK state \in TaskStates : state = [ task[t] EXCEPT !.pc = "rate", !.totals = totals ]
      BY <3>5 DEF TaskStates
    <3>7. state.pc = "rate" /\ state.driver = task[t].driver /\ state.request = task[t].request
      BY <3>5, <3>6 DEF TaskStates
    <3>8. task' = [ task EXCEPT ![t] = state ]
      BY <3>4, <3>5, <3>6
    <3> QED
      BY <1>0, <3>7, <3>8, TaskSet
  <2>3. stats' \in [ Drivers -> Stats ]
    <3>1. stats \in [ Drivers -> Stats ]
      BY <1>0 DEF TypeOK
    <3>2. stats' = [ stats EXCEPT ![task[t].driver].rejected = @ + 1 ]
      BY <1>10 DEF RejectCount
    <3> QED
      BY <2>1, <3>1, <3>2 DEF Stats
  <2>4. TypeOK'
    BY <1>0, <1>10, <2>2, <2>3 DEF TypeOK, RejectCount
  <2>5. task[t].pc \in AnswerSteps /\ UNCHANGED request
    BY <1>10 DEF RejectCount, At, AnswerSteps
  <2> QED
    BY <1>t, <2>2, <2>4, <2>5, TypeStep DEF AnswerSteps
<1>11. ASSUME NEW t \in Tasks, RejectRate(t) PROVE TypeInv'
  <2>1. /\ task' \in [ Tasks -> TaskStates ]
        /\ task'[t].pc = "idle" /\ \A u \in Tasks : u # t => task'[u] = task[u]
    BY <1>0, <1>11, TaskFinish DEF RejectRate
  <2>2. stats' \in [ Drivers -> Stats ]
    <3>1. stats \in [ Drivers -> Stats ] /\ task[t].totals \in Nat \X Nat
      BY <1>0, <1>t DEF TypeOK
    <3>2. PICK totals \in Nat \X Nat : totals = task[t].totals
      BY <3>1
    <3>3. stats' = [ stats EXCEPT ![task[t].driver].rate = totals ]
      BY <1>11, <3>2 DEF RejectRate
    <3> QED
      BY <3>1, <3>3 DEF Stats
  <2>3. TypeOK'
    BY <1>0, <1>11, <2>1, <2>2 DEF TypeOK, RejectRate
  <2> QED
    BY <1>11, <2>1, <2>3, TypeStep DEF RejectRate
<1>12. ASSUME NEW t \in Tasks, NEW d \in Drivers, FirebaseAcceptRead(t, d) PROVE TypeInv'
  <2>1. CASE UNCHANGED task
    BY <1>0, <1>12, <2>1 DEF TypeInv, TypeOK, RowsFit, TasksFit, At, FirebaseAcceptRead
  <2>2. CASE task' = [ task EXCEPT ![t] = [ IdleTask EXCEPT !.pc = "fbAssign", !.driver = d ] ]
    <3>1. /\ task' \in [ Tasks -> TaskStates ]
          /\ task'[t].pc = "fbAssign" /\ task'[t].driver = d
          /\ \A u \in Tasks : u # t => task'[u] = task[u]
      BY <1>0, <2>2, FirebaseBegins
    <3>2. TypeOK'
      BY <1>0, <1>12, <3>1 DEF TypeOK, FirebaseAcceptRead
    <3> QED
      BY <1>12, <3>1, <3>2, TypeStep DEF FirebaseAcceptRead, AnswerSteps
  <2> QED
    BY <1>12, <2>1, <2>2 DEF FirebaseAcceptRead
<1>13. ASSUME NEW t \in Tasks, FirebaseAssign(t) PROVE TypeInv'
  <2>1. /\ task' \in [ Tasks -> TaskStates ]
        /\ task'[t].pc = "fbOwn" /\ task'[t].driver = task[t].driver
        /\ \A u \in Tasks : u # t => task'[u] = task[u]
    BY <1>0, <1>13, TaskGoto DEF FirebaseAssign, FirebaseSteps
  <2>2. TypeOK'
    BY <1>0, <1>13, <1>t, <2>1 DEF TypeOK, FirebaseAssign
  <2> QED
    BY <1>13, <1>t, <2>1, <2>2, TypeStep DEF FirebaseAssign, At, AnswerSteps
<1>14. ASSUME NEW t \in Tasks, FirebaseOwn(t) PROVE TypeInv'
  <2>1. /\ task' \in [ Tasks -> TaskStates ]
        /\ task'[t].pc = "fbOthers" /\ task'[t].driver = task[t].driver
        /\ \A u \in Tasks : u # t => task'[u] = task[u]
    BY <1>0, <1>14, TaskGoto DEF FirebaseOwn, FirebaseSteps
  <2>2. /\ request' \in [ Requests -> [ driver : Drivers \cup { NoDriver }, status : Statuses, late : BOOLEAN ] ]
        /\ \A q \in Requests :
             /\ request'[q].driver = request[q].driver
             /\ request'[q].status = IF q \in RowsOf(task[t].driver) THEN "ACCEPTED" ELSE request[q].status
    BY <1>0, <1>14, StatusSet DEF FirebaseOwn, Statuses
  <2>3. \A q \in RowsOf(task[t].driver) : request[q].status # "NONE"
    BY <1>0, <1>14, <1>t, DispatchAssumption DEF RowsOf, RowsFit, FirebaseOwn, At
  <2>4. TypeOK'
    BY <1>0, <1>14, <2>1, <2>2 DEF TypeOK, FirebaseOwn
  <2> QED
    BY <1>14, <1>t, <2>1, <2>2, <2>3, <2>4, TypeStep DEF FirebaseOwn, At, AnswerSteps
<1>15. ASSUME NEW t \in Tasks, FirebaseOthers(t) PROVE TypeInv'
  <2>1. /\ task' \in [ Tasks -> TaskStates ]
        /\ task'[t].pc = "idle" /\ \A u \in Tasks : u # t => task'[u] = task[u]
    BY <1>0, <1>15, TaskFinish DEF FirebaseOthers
  <2>2. /\ request' \in [ Requests -> [ driver : Drivers \cup { NoDriver }, status : Statuses, late : BOOLEAN ] ]
        /\ \A q \in Requests : /\ request'[q].driver = request[q].driver
                               /\ request'[q].status = "NONE" <=> request[q].status = "NONE"
    BY <1>0, <1>15, StatusSet DEF FirebaseOthers, Pending, Statuses
  <2>3. TypeOK'
    BY <1>0, <1>15, <2>1, <2>2 DEF TypeOK, FirebaseOthers
  <2> QED
    BY <1>15, <2>1, <2>2, <2>3, TypeStep DEF FirebaseOthers
<1>16. ASSUME NEW q \in Requests, TimePasses(q) PROVE TypeInv'
  <2>1. /\ request' \in [ Requests -> [ driver : Drivers \cup { NoDriver }, status : Statuses, late : BOOLEAN ] ]
        /\ \A r \in Requests : /\ request'[r].driver = request[r].driver
                               /\ request'[r].status = request[r].status
    BY <1>0, <1>16 DEF TypeOK, TimePasses
  <2> QED
    BY <1>0, <1>16, <1>t, <2>1 DEF TypeInv, TypeOK, RowsFit, TasksFit, At, TimePasses
<1>17. ASSUME expireDeliveryRequests PROVE TypeInv'
  <2>1. /\ request' \in [ Requests -> [ driver : Drivers \cup { NoDriver }, status : Statuses, late : BOOLEAN ] ]
        /\ \A r \in Requests : /\ request'[r].driver = request[r].driver
                               /\ request'[r].status = "NONE" <=> request[r].status = "NONE"
    BY <1>0, <1>17, StatusSet DEF expireDeliveryRequests, Pending, Statuses
  <2> QED
    BY <1>0, <1>17, <1>t, <2>1 DEF TypeInv, TypeOK, RowsFit, TasksFit, At, expireDeliveryRequests
<1>18. CASE UNCHANGED vars
  BY <1>0, <1>18 DEF TypeInv, TypeOK, RowsFit, TasksFit, At, vars
<1> QED
  BY <1>1, <1>2, <1>3, <1>4, <1>5, <1>6, <1>7, <1>8, <1>9, <1>10, <1>11, <1>12, <1>13, <1>14,
     <1>15, <1>16, <1>17, <1>18 DEF Next, TaskStep

LEMMA TypeInit == Init => TypeInv
<1> SUFFICES ASSUME Init PROVE TypeInv
  OBVIOUS
<1>1. TypeOK
  BY IdleType DEF Init, TypeOK, Statuses, Stats
<1>2. \A t \in Tasks : task[t].pc = "idle"
  BY IdleType DEF Init
<1>3. RowsFit /\ TasksFit
  BY <1>2 DEF Init, RowsFit, TasksFit, At, AnswerSteps
<1> QED
  BY <1>1, <1>3 DEF TypeInv

\* The type invariant, whatever is answered and in whichever order.
THEOREM TypeCorrect == Spec => []TypeOK
<1>1. TypeInv => TypeOK
  BY DEF TypeInv
<1> QED
  BY <1>1, TypeInit, TypeInductive, PTL DEF Spec

(***************************************************************************)
(* The steps in plain terms: where a slot goes, and the rows               *)
(***************************************************************************)
Moves(t, from, to) ==
  /\ task[t].pc = from /\ task'[t].pc = to
  /\ task'[t].driver = task[t].driver /\ task'[t].request = task[t].request
  /\ \A u \in Tasks : u # t => task'[u] = task[u]

Ends(t, from) ==
  /\ task[t].pc = from /\ task'[t].pc = "idle"
  /\ \A u \in Tasks : u # t => task'[u] = task[u]

Becomes(q, status) == request'[q].driver = request[q].driver /\ request'[q].status = status

Stays(q) == Becomes(q, request[q].status)

LEMMA AcceptSteps ==
  ASSUME TypeInv, NEW t \in Tasks
  PROVE  /\ AcceptWrite(t) => /\ Moves(t, "accept", "assign")
                              /\ task[t].request \in Requests /\ Becomes(task[t].request, "ACCEPTED")
                              /\ \A q \in Requests \ { task[t].request } : Stays(q)
         /\ AcceptAssign(t) => Moves(t, "assign", "others") /\ orderDriver' = task[t].driver
         /\ AcceptOthers(t) => /\ Moves(t, "others", "count")
                               /\ \A q \in Requests : Stays(q) \/ (request[q].status = "PENDING" /\ Becomes(q, "EXPIRED"))
         /\ AcceptCount(t) => Ends(t, "count")
<1>0. TypeOK /\ task[t].request \in Requests
  BY DEF TypeInv, TypeOK, TaskStates
<1>1. ASSUME AcceptWrite(t)
      PROVE  /\ Moves(t, "accept", "assign") /\ Becomes(task[t].request, "ACCEPTED")
             /\ \A q \in Requests \ { task[t].request } : Stays(q)
  <2>1. Moves(t, "accept", "assign")
    BY <1>0, <1>1, TaskGoto DEF AcceptWrite, Moves, At, AnswerSteps
  <2> QED
    BY <1>0, <1>1, <2>1, StatusSet DEF AcceptWrite, Becomes, Stays, Statuses
<1>2. ASSUME AcceptAssign(t) PROVE Moves(t, "assign", "others")
  BY <1>0, <1>2, TaskGoto DEF AcceptAssign, Moves, At, AnswerSteps
<1>3. ASSUME AcceptOthers(t)
      PROVE  /\ Moves(t, "others", "count")
             /\ \A q \in Requests : Stays(q) \/ (request[q].status = "PENDING" /\ Becomes(q, "EXPIRED"))
  <2>1. Moves(t, "others", "count")
    BY <1>0, <1>3, TaskGoto DEF AcceptOthers, Moves, At, AnswerSteps
  <2>2. SetStatus(Pending \ { task[t].request }, "EXPIRED") /\ "EXPIRED" \in Statuses
    BY <1>3 DEF AcceptOthers, Statuses
  <2>3. \A q \in Requests :
          /\ request'[q].driver = request[q].driver
          /\ request'[q].status = IF q \in Pending \ { task[t].request } THEN "EXPIRED" ELSE request[q].status
    BY <1>0, <2>2, StatusSet
  <2> QED
    BY <2>1, <2>3 DEF Becomes, Stays, Pending
<1>4. ASSUME AcceptCount(t) PROVE Ends(t, "count")
  BY <1>0, <1>4, TaskFinish DEF AcceptCount, Ends, At
<1> QED
  BY <1>0, <1>1, <1>2, <1>3, <1>4 DEF AcceptAssign

LEMMA RejectSteps ==
  ASSUME TypeInv, NEW t \in Tasks
  PROVE  /\ RejectWrite(t) => /\ Moves(t, "reject", "countReject")
                              /\ task[t].request \in Requests /\ Becomes(task[t].request, "REJECTED")
                              /\ \A q \in Requests \ { task[t].request } : Stays(q)
         /\ RejectCount(t) => /\ Moves(t, "countReject", "rate")
                              /\ task'[t].totals = << stats[task[t].driver].accepted, stats[task[t].driver].rejected + 1 >>
         /\ RejectRate(t) => Ends(t, "rate")
<1>0. TypeOK /\ task[t].request \in Requests /\ task \in [ Tasks -> TaskStates ]
  BY DEF TypeInv, TypeOK, TaskStates
<1>1. ASSUME RejectWrite(t)
      PROVE  /\ Moves(t, "reject", "countReject") /\ Becomes(task[t].request, "REJECTED")
             /\ \A q \in Requests \ { task[t].request } : Stays(q)
  <2>1. Moves(t, "reject", "countReject")
    BY <1>0, <1>1, TaskGoto DEF RejectWrite, Moves, At, AnswerSteps
  <2> QED
    BY <1>0, <1>1, <2>1, StatusSet DEF RejectWrite, Becomes, Stays, Statuses
<1>2. ASSUME RejectCount(t)
      PROVE  /\ Moves(t, "countReject", "rate")
             /\ task'[t].totals = << stats[task[t].driver].accepted, stats[task[t].driver].rejected + 1 >>
  <2>1. PICK totals : totals = << stats[task[t].driver].accepted, stats[task[t].driver].rejected + 1 >>
    OBVIOUS
  <2>2. task' = [ task EXCEPT ![t].pc = "rate", ![t].totals = totals ] /\ task[t].pc = "countReject"
    BY <1>2, <2>1 DEF RejectCount, At
  <2>3. /\ task'[t].pc = "rate" /\ task'[t].totals = totals
        /\ task'[t].driver = task[t].driver /\ task'[t].request = task[t].request
        /\ \A u \in Tasks : u # t => task'[u] = task[u]
    BY <1>0, <2>2 DEF TaskStates
  <2> QED
    BY <2>1, <2>2, <2>3 DEF Moves
<1>3. ASSUME RejectRate(t) PROVE Ends(t, "rate")
  BY <1>0, <1>3, TaskFinish DEF RejectRate, Ends, At
<1> QED
  BY <1>0, <1>1, <1>2, <1>3

LEMMA FirebaseStepsTaken ==
  ASSUME TypeInv, NEW t \in Tasks
  PROVE  /\ FirebaseAssign(t) => /\ Moves(t, "fbAssign", "fbOwn") /\ orderDriver' = task[t].driver
         /\ FirebaseOwn(t) => /\ Moves(t, "fbOwn", "fbOthers")
                              /\ \A q \in Requests : IF request[q].driver = task[t].driver
                                                     THEN Becomes(q, "ACCEPTED") ELSE Stays(q)
         /\ FirebaseOthers(t) => /\ Ends(t, "fbOthers")
                                 /\ \A q \in Requests : Stays(q) \/ (request[q].status = "PENDING" /\ Becomes(q, "EXPIRED"))
<1>0. TypeOK
  BY DEF TypeInv
<1>1. ASSUME FirebaseAssign(t) PROVE Moves(t, "fbAssign", "fbOwn")
  BY <1>0, <1>1, TaskGoto DEF FirebaseAssign, Moves, At, FirebaseSteps
<1>2. ASSUME FirebaseOwn(t)
      PROVE  /\ Moves(t, "fbOwn", "fbOthers")
             /\ \A q \in Requests : IF request[q].driver = task[t].driver THEN Becomes(q, "ACCEPTED") ELSE Stays(q)
  <2>1. Moves(t, "fbOwn", "fbOthers")
    BY <1>0, <1>2, TaskGoto DEF FirebaseOwn, Moves, At, FirebaseSteps
  <2> QED
    BY <1>0, <1>2, <2>1, StatusSet DEF FirebaseOwn, Becomes, Stays, Statuses, RowsOf
<1>3. ASSUME FirebaseOthers(t)
      PROVE  /\ Ends(t, "fbOthers")
             /\ \A q \in Requests : Stays(q) \/ (request[q].status = "PENDING" /\ Becomes(q, "EXPIRED"))
  <2>1. Ends(t, "fbOthers")
    BY <1>0, <1>3, TaskFinish DEF FirebaseOthers, Ends, At
  <2>2. SetStatus(Pending \ RowsOf(task[t].driver), "EXPIRED") /\ "EXPIRED" \in Statuses
    BY <1>3 DEF FirebaseOthers, Statuses
  <2>3. \A q \in Requests :
          /\ request'[q].driver = request[q].driver
          /\ request'[q].status = IF q \in Pending \ RowsOf(task[t].driver) THEN "EXPIRED" ELSE request[q].status
    BY <1>0, <2>2, StatusSet
  <2> QED
    BY <2>1, <2>3 DEF Becomes, Stays, Pending
<1> QED
  BY <1>1, <1>2, <1>3 DEF FirebaseAssign

(***************************************************************************)
(* Acceptances and the driver of the order                                 *)
(***************************************************************************)
HasRow(d) == \E q \in Requests : request[q].driver = d

Accepted(d) == \E q \in Requests : request[q].driver = d /\ request[q].status = "ACCEPTED"

\* Whoever is offered the order in Firestore, or answers there, has a row; nobody is accepted
\* but for a call that is about to make it the driver of the order; and the driver of the
\* order is accepted but for a call that is about to write it.
AcceptInv ==
  /\ \A d \in Drivers : offer[d] # "none" \/ d \in outbox \/ d \in notices => HasRow(d)
  /\ \A t \in Tasks : /\ task[t].pc \in { "fbAssign", "fbOwn" } => HasRow(task[t].driver)
                      /\ task[t].pc = "fbOwn" => orderDriver # NoDriver
  /\ (\E q \in Requests : request[q].status = "ACCEPTED") =>
       orderDriver # NoDriver \/ \E t \in Tasks : task[t].pc = "assign"
  /\ "rejectRequest" \notin scenario.answers =>
       /\ \A t \in Tasks : /\ task[t].pc \notin { "reject", "countReject", "rate" }
                           /\ task[t].pc = "assign" => Accepted(task[t].driver)
       /\ orderDriver # NoDriver =>
            \/ Accepted(orderDriver)
            \/ \E t \in Tasks : task[t].pc = "fbOwn" /\ task[t].driver = orderDriver

LEMMA AcceptInductive == TypeInv /\ AcceptInv /\ [Next]_vars => AcceptInv'
<1> SUFFICES ASSUME TypeInv, AcceptInv, [Next]_vars PROVE AcceptInv'
  OBVIOUS
<1>0. /\ TypeOK /\ RowsFit /\ TasksFit
      /\ \A t \in Tasks : /\ task[t].driver \in Drivers \cup { NoDriver }
                          /\ task[t].pc # "idle" => task[t].driver \in Drivers
      /\ orderDriver \in Drivers \cup { NoDriver } /\ NoDriver \notin Drivers
  BY DispatchAssumption DEF TypeInv, TypeOK, TaskStates, TasksFit, At
\* Steps that accept or create no row and leave the drivers of rows and order alone.
<1>q. ASSUME UNCHANGED << scenario, offer, outbox, notices, orderDriver >>,
             \A q \in Requests :
               Stays(q) \/ (request[q].status # "ACCEPTED" /\ Becomes(q, "EXPIRED")),
             NEW t \in Tasks, \A u \in Tasks : u # t => task'[u] = task[u],
             \/ task'[t] = task[t]
             \/ /\ task[t].pc \notin { "assign", "fbOwn" }
                /\ task'[t].pc \notin { "assign", "fbOwn", "fbAssign", "reject", "countReject", "rate" }
      PROVE  AcceptInv'
  <2>1. \A d \in Drivers : (HasRow(d) => HasRow(d)') /\ (Accepted(d) => Accepted(d)')
    BY <1>q DEF HasRow, Accepted, Stays, Becomes
  <2>2. \A q \in Requests : request'[q].status = "ACCEPTED" => request[q].status = "ACCEPTED"
    BY <1>q DEF Stays, Becomes
  <2> QED
    BY <1>0, <1>q, <2>1, <2>2 DEF AcceptInv
<1>1. ASSUME NEW q \in Requests, NEW d \in Drivers, RequestDriver(q, d) PROVE AcceptInv'
  <2>1. /\ request'[q].driver = d /\ request'[q].status = "PENDING" /\ request[q].status = "NONE"
        /\ \A r \in Requests : r # q => request'[r] = request[r]
        /\ outbox' = outbox \cup { d } /\ UNCHANGED << scenario, offer, notices, orderDriver, task >>
    BY <1>0, <1>1 DEF TypeOK, RequestDriver
  <2>2. HasRow(d)' /\ \A e \in Drivers : (HasRow(e) => HasRow(e)') /\ (Accepted(e) => Accepted(e)')
    <3>1. \A r \in Requests : \/ request'[r].driver = request[r].driver
                              \/ request[r].status = "NONE" /\ request'[r].status # "ACCEPTED"
      BY <2>1
    <3>2. \A r \in Requests : request[r].status = "ACCEPTED" => request'[r].status = "ACCEPTED"
      BY <2>1
    <3> QED
      BY <1>0, <2>1, <3>1, <3>2 DEF HasRow, Accepted, RowsFit
  <2>3. \A r \in Requests : request'[r].status = "ACCEPTED" => request[r].status = "ACCEPTED"
    BY <2>1
  <2> QED
    BY <1>0, <2>1, <2>2, <2>3 DEF AcceptInv
<1>2. ASSUME NEW t \in Tasks, NEW q \in Requests, AcceptRead(t, q) PROVE AcceptInv'
  <2>1. task'[t].pc = "accept" /\ \A u \in Tasks : u # t => task'[u] = task[u]
    BY <1>0, <1>2, AnswerBegins DEF AcceptRead, RowsFit, AnswerSteps
  <2> QED
    BY <1>2, <1>q, <2>1 DEF AcceptRead, MayStart, At, Stays, Becomes
<1>3. ASSUME NEW t \in Tasks, NEW q \in Requests, RejectRead(t, q) PROVE AcceptInv'
  <2>1. /\ task'[t].pc = "reject" /\ \A u \in Tasks : u # t => task'[u] = task[u]
        /\ task[t].pc = "idle" /\ "rejectRequest" \in scenario.answers
        /\ UNCHANGED << scenario, request, offer, outbox, notices, orderDriver >>
    BY <1>0, <1>3, AnswerBegins DEF RejectRead, RowsFit, AnswerSteps, MayStart, At
  <2> QED
    BY <2>1 DEF AcceptInv, HasRow
<1>4. ASSUME NEW d \in Drivers, CreateDeliveryRequestInFirebase(d) \/ AppAccepts(d) PROVE AcceptInv'
  <2>1. /\ UNCHANGED << scenario, request, orderDriver, task >>
        /\ \A e \in Drivers :
             (offer'[e] # "none" \/ e \in outbox' \/ e \in notices')
               => (offer[e] # "none" \/ e \in outbox \/ e \in notices)
    BY <1>0, <1>4 DEF TypeOK, CreateDeliveryRequestInFirebase, AppAccepts
  <2> QED
    BY <2>1 DEF AcceptInv, HasRow, Accepted
<1>5. ASSUME NEW t \in Tasks, AcceptWrite(t) PROVE AcceptInv'
  <2>1. /\ Moves(t, "accept", "assign")
        /\ task[t].request \in Requests /\ Becomes(task[t].request, "ACCEPTED")
        /\ \A q \in Requests \ { task[t].request } : Stays(q)
    BY <1>5, AcceptSteps
  <2>2. \A d \in Drivers : (HasRow(d) => HasRow(d)') /\ (Accepted(d) => Accepted(d)')
    BY <2>1 DEF HasRow, Accepted, Stays, Becomes
  <2>3. Accepted(task[t].driver)'
    BY <1>0, <2>1 DEF TasksFit, AnswerSteps, Moves, Becomes, Accepted
  <2> QED
    BY <1>0, <1>5, <2>1, <2>2, <2>3 DEF AcceptInv, Moves, AcceptWrite
<1>6. ASSUME NEW t \in Tasks, AcceptAssign(t) PROVE AcceptInv'
  <2>1. Moves(t, "assign", "others") /\ orderDriver' = task[t].driver
    BY <1>6, AcceptSteps
  <2>2. UNCHANGED << scenario, request, offer, outbox, notices >>
    BY <1>6 DEF AcceptAssign
  <2> QED
    BY <1>0, <2>1, <2>2 DEF AcceptInv, Moves, HasRow, Accepted
<1>7. ASSUME NEW t \in Tasks, AcceptOthers(t) \/ AcceptCount(t) \/ FirebaseOthers(t) PROVE AcceptInv'
  <2>1. \A q \in Requests : Stays(q) \/ (request[q].status # "ACCEPTED" /\ Becomes(q, "EXPIRED"))
    <3>1. CASE AcceptOthers(t) \/ FirebaseOthers(t)
      BY <3>1, AcceptSteps, FirebaseStepsTaken
    <3>2. CASE AcceptCount(t)
      BY <3>2 DEF AcceptCount, Stays, Becomes
    <3> QED
      BY <1>7, <3>1, <3>2
  <2>2. /\ \A u \in Tasks : u # t => task'[u] = task[u]
        /\ task[t].pc \in { "others", "count", "fbOthers" } /\ task'[t].pc \in { "count", "idle" }
    BY <1>7, AcceptSteps, FirebaseStepsTaken DEF Moves, Ends
  <2>3. UNCHANGED << scenario, offer, outbox, notices, orderDriver >>
    BY <1>7 DEF AcceptOthers, AcceptCount, FirebaseOthers
  <2> QED
    BY <1>q, <2>1, <2>2, <2>3
<1>8. ASSUME NEW t \in Tasks, RejectWrite(t) \/ RejectCount(t) \/ RejectRate(t) PROVE AcceptInv'
  <2>1. /\ \A u \in Tasks : u # t => task'[u] = task[u]
        /\ task[t].pc \in { "reject", "countReject", "rate" } /\ task'[t].pc \in { "countReject", "rate", "idle" }
    BY <1>8, RejectSteps DEF Moves, Ends
  <2>2. UNCHANGED << scenario, offer, outbox, notices, orderDriver >>
    BY <1>8 DEF RejectWrite, RejectCount, RejectRate
  <2>3. "rejectRequest" \in scenario.answers
    BY <2>1 DEF AcceptInv
  <2>4. \A q \in Requests : /\ request'[q].driver = request[q].driver
                            /\ request'[q].status = "ACCEPTED" => request[q].status = "ACCEPTED"
    <3>1. CASE RejectWrite(t)
      BY <3>1, RejectSteps DEF Stays, Becomes
    <3>2. CASE RejectCount(t) \/ RejectRate(t)
      BY <3>2 DEF RejectCount, RejectRate
    <3> QED
      BY <1>8, <3>1, <3>2
  <2>5. \A d \in Drivers : HasRow(d) => HasRow(d)'
    <3>1. \A q \in Requests : request'[q].driver = request[q].driver
      BY <2>4
    <3> QED
      BY <3>1 DEF HasRow
  <2> QED
    BY <1>0, <2>1, <2>2, <2>3, <2>4, <2>5 DEF AcceptInv
<1>9. ASSUME NEW t \in Tasks, NEW d \in Drivers, FirebaseAcceptRead(t, d) PROVE AcceptInv'
  <2>1. /\ UNCHANGED << scenario, request, offer, outbox, orderDriver >>
        /\ d \in notices /\ notices' = notices \ { d } /\ task[t].pc = "idle"
    BY <1>9 DEF FirebaseAcceptRead, MayStart, At
  <2>2. \/ UNCHANGED task
        \/ /\ task'[t].pc = "fbAssign" /\ task'[t].driver = d
           /\ \A u \in Tasks : u # t => task'[u] = task[u]
    BY <1>0, <1>9, FirebaseBegins DEF FirebaseAcceptRead
  <2>3. HasRow(d) /\ \A e \in Drivers : (HasRow(e) => HasRow(e)') /\ (Accepted(e) => Accepted(e)')
    BY <2>1 DEF AcceptInv, HasRow, Accepted
  <2> QED
    BY <1>0, <2>1, <2>2, <2>3 DEF AcceptInv
<1>10. ASSUME NEW t \in Tasks, FirebaseAssign(t) PROVE AcceptInv'
  <2>1. Moves(t, "fbAssign", "fbOwn") /\ orderDriver' = task[t].driver
    BY <1>10, FirebaseStepsTaken
  <2>2. UNCHANGED << scenario, request, offer, outbox, notices >>
    BY <1>10 DEF FirebaseAssign
  <2>3. \A d \in Drivers : (HasRow(d) => HasRow(d)') /\ (Accepted(d) => Accepted(d)')
    BY <2>2 DEF HasRow, Accepted
  <2> QED
    BY <1>0, <2>1, <2>2, <2>3 DEF AcceptInv, Moves
<1>11. ASSUME NEW t \in Tasks, FirebaseOwn(t) PROVE AcceptInv'
  <2>1. /\ Moves(t, "fbOwn", "fbOthers")
        /\ \A q \in Requests : IF request[q].driver = task[t].driver THEN Becomes(q, "ACCEPTED") ELSE Stays(q)
    BY <1>11, FirebaseStepsTaken
  <2>2. UNCHANGED << scenario, offer, outbox, notices, orderDriver >>
    BY <1>11 DEF FirebaseOwn
  <2>3. \A d \in Drivers : (HasRow(d) => HasRow(d)') /\ (Accepted(d) => Accepted(d)')
    BY <2>1 DEF HasRow, Accepted, Stays, Becomes
  <2>4. Accepted(task[t].driver)' /\ orderDriver # NoDriver
    <3>1. HasRow(task[t].driver) /\ orderDriver # NoDriver
      BY <2>1 DEF AcceptInv, Moves
    <3> QED
      BY <2>1, <3>1 DEF HasRow, Accepted, Becomes, Moves
  <2> QED
    BY <1>0, <2>1, <2>2, <2>3, <2>4 DEF AcceptInv, Moves
<1>12. ASSUME (\E q \in Requests : TimePasses(q)) \/ expireDeliveryRequests \/ OrderMovesOn \/ UNCHANGED vars
       PROVE  AcceptInv'
  <2>1. UNCHANGED << scenario, offer, outbox, notices, orderDriver, task >>
    BY <1>12 DEF TimePasses, expireDeliveryRequests, OrderMovesOn, vars
  <2>2. \A q \in Requests : Stays(q) \/ (request[q].status # "ACCEPTED" /\ Becomes(q, "EXPIRED"))
    <3>1. ASSUME NEW q \in Requests, TimePasses(q) PROVE \A r \in Requests : Stays(r)
      BY <1>0, <3>1 DEF TypeOK, TimePasses, Stays, Becomes
    <3>2. CASE expireDeliveryRequests
      <4>1. PICK rows : SetStatus(rows, "EXPIRED") /\ rows \subseteq Pending /\ "EXPIRED" \in Statuses
        BY <3>2 DEF expireDeliveryRequests, Statuses
      <4> QED
        BY <1>0, <4>1, StatusSet DEF Stays, Becomes, Pending
    <3>3. CASE OrderMovesOn \/ UNCHANGED vars
      BY <3>3 DEF OrderMovesOn, vars, Stays, Becomes
    <3> QED
      BY <1>12, <3>1, <3>2, <3>3
  <2>3. \A d \in Drivers : (HasRow(d) => HasRow(d)') /\ (Accepted(d) => Accepted(d)')
    BY <2>2 DEF HasRow, Accepted, Stays, Becomes
  <2>4. \A q \in Requests : request'[q].status = "ACCEPTED" => request[q].status = "ACCEPTED"
    BY <2>2 DEF Stays, Becomes
  <2> QED
    BY <1>0, <2>1, <2>3, <2>4 DEF AcceptInv
<1> QED
  BY <1>1, <1>2, <1>3, <1>4, <1>5, <1>6, <1>7, <1>8, <1>9, <1>10, <1>11, <1>12 DEF Next, TaskStep

LEMMA AcceptInit == Init => AcceptInv
<1> SUFFICES ASSUME Init PROVE AcceptInv
  OBVIOUS
<1>1. \A t \in Tasks : task[t].pc = "idle"
  BY IdleType DEF Init
<1>2. /\ \A q \in Requests : request[q].status = "NONE"
      /\ \A d \in Drivers : offer[d] = "none" /\ d \notin outbox /\ d \notin notices
      /\ orderDriver = NoDriver
  BY DEF Init
<1> QED
  BY <1>1, <1>2 DEF AcceptInv

(***************************************************************************)
(* One answer at a time                                                    *)
(***************************************************************************)
OneAtATime ==
  ~ scenario.overlap => \A t, u \in Tasks : task[t].pc # "idle" /\ task[u].pc # "idle" => t = u

LEMMA AnswerStarts ==
  ASSUME TypeInv, NEW t \in Tasks, NEW q \in Requests, AcceptRead(t, q) \/ RejectRead(t, q)
  PROVE  /\ \A u \in Tasks : u # t => task'[u] = task[u]
         /\ task[t].pc = "idle" /\ task'[t].pc \in { "accept", "reject" }
         /\ scenario.overlap \/ \A u \in Tasks : task[u].pc = "idle"
         /\ UNCHANGED << scenario, stats, orderDriver >>
<1>0. TypeOK /\ (request[q].status # "NONE" => request[q].driver \in Drivers)
  BY DEF TypeInv, RowsFit
<1>1. CASE AcceptRead(t, q)
  BY <1>0, <1>1, AnswerBegins DEF AcceptRead, AnswerSteps, MayStart, At
<1>2. CASE RejectRead(t, q)
  BY <1>0, <1>2, AnswerBegins DEF RejectRead, AnswerSteps, MayStart, At
<1> QED
  BY <1>1, <1>2

\* A step is one of a single slot, which was at work unless all were idle or may overlap.
LEMMA OneSlot ==
  ASSUME TypeInv, [Next]_vars
  PROVE  /\ UNCHANGED scenario
         /\ \/ UNCHANGED task
            \/ \E t \in Tasks : /\ \A u \in Tasks : u # t => task'[u] = task[u]
                                /\ \/ task[t].pc # "idle"
                                   \/ scenario.overlap \/ \A u \in Tasks : task[u].pc = "idle"
<1>0. TypeOK /\ RowsFit
  BY DEF TypeInv
<1>1. ASSUME NEW t \in Tasks, NEW q \in Requests, AcceptRead(t, q) \/ RejectRead(t, q)
      PROVE  /\ \A u \in Tasks : u # t => task'[u] = task[u]
             /\ scenario.overlap \/ \A u \in Tasks : task[u].pc = "idle"
             /\ UNCHANGED scenario
  BY <1>1, AnswerStarts
<1>2. ASSUME NEW t \in Tasks, NEW d \in Drivers, FirebaseAcceptRead(t, d)
      PROVE  /\ \/ UNCHANGED task
                \/ /\ \A u \in Tasks : u # t => task'[u] = task[u]
                   /\ scenario.overlap \/ \A u \in Tasks : task[u].pc = "idle"
             /\ UNCHANGED scenario
  BY <1>0, <1>2, FirebaseBegins DEF FirebaseAcceptRead, MayStart, At
<1>3. ASSUME NEW t \in Tasks, AcceptWrite(t) \/ AcceptAssign(t) \/ AcceptOthers(t) \/ AcceptCount(t)
      PROVE  /\ \A u \in Tasks : u # t => task'[u] = task[u]
             /\ task[t].pc # "idle" /\ UNCHANGED scenario
  BY <1>3, AcceptSteps DEF Moves, Ends, AcceptWrite, AcceptAssign, AcceptOthers, AcceptCount
<1>4. ASSUME NEW t \in Tasks, RejectWrite(t) \/ RejectCount(t) \/ RejectRate(t)
      PROVE  /\ \A u \in Tasks : u # t => task'[u] = task[u]
             /\ task[t].pc # "idle" /\ UNCHANGED scenario
  BY <1>4, RejectSteps DEF Moves, Ends, RejectWrite, RejectCount, RejectRate
<1>5. ASSUME NEW t \in Tasks, FirebaseAssign(t) \/ FirebaseOwn(t) \/ FirebaseOthers(t)
      PROVE  /\ \A u \in Tasks : u # t => task'[u] = task[u]
             /\ task[t].pc # "idle" /\ UNCHANGED scenario
  BY <1>5, FirebaseStepsTaken DEF Moves, Ends, FirebaseAssign, FirebaseOwn, FirebaseOthers
<1>6. ASSUME \/ \E q \in Requests, d \in Drivers : RequestDriver(q, d)
             \/ \E d \in Drivers : CreateDeliveryRequestInFirebase(d) \/ AppAccepts(d)
             \/ \E q \in Requests : TimePasses(q)
             \/ expireDeliveryRequests \/ OrderMovesOn \/ UNCHANGED vars
      PROVE  UNCHANGED << scenario, task >>
  BY <1>6 DEF RequestDriver, CreateDeliveryRequestInFirebase, AppAccepts, TimePasses,
     expireDeliveryRequests, OrderMovesOn, vars
<1> QED
  BY <1>1, <1>2, <1>3, <1>4, <1>5, <1>6 DEF Next, TaskStep

LEMMA OneInductive == TypeInv /\ OneAtATime /\ [Next]_vars => OneAtATime'
BY OneSlot DEF OneAtATime

LEMMA OneInit == Init => OneAtATime
BY IdleType DEF Init, OneAtATime

(***************************************************************************)
(* The acceptance rate                                                     *)
(***************************************************************************)
\* When answers do not overlap: a rejection that is counted but not in the rate yet is that of
\* the call about to write it, and that call holds the totals as they are.
RateInv ==
  ~ scenario.overlap =>
    /\ \A d \in Drivers : \/ stats[d].rate[2] = stats[d].rejected
                          \/ \E t \in Tasks : task[t].pc = "rate" /\ task[t].driver = d
    /\ \A t \in Tasks : task[t].pc = "rate" => task[t].totals[2] = stats[task[t].driver].rejected

\* Steps that leave the totals of the drivers, and who is about to write a rate.
LEMMA RateKept ==
  ASSUME RateInv, UNCHANGED << scenario, stats >>,
         \/ UNCHANGED task
         \/ \E t \in Tasks : /\ \A u \in Tasks : u # t => task'[u] = task[u]
                             /\ task[t].pc # "rate" /\ task'[t].pc # "rate"
  PROVE  RateInv'
BY DEF RateInv

LEMMA RateInductive == TypeInv /\ OneAtATime /\ RateInv /\ [Next]_vars => RateInv'
<1> SUFFICES ASSUME TypeInv, OneAtATime, RateInv, [Next]_vars PROVE RateInv'
  OBVIOUS
<1>0. TypeOK /\ RowsFit /\ TasksFit
  BY DEF TypeInv
<1>1. ASSUME NEW t \in Tasks, NEW q \in Requests, AcceptRead(t, q) \/ RejectRead(t, q) PROVE RateInv'
  <2>1. /\ \A u \in Tasks : u # t => task'[u] = task[u]
        /\ task[t].pc # "rate" /\ task'[t].pc # "rate" /\ UNCHANGED << scenario, stats >>
    BY <1>1, AnswerStarts
  <2> QED
    BY <2>1, RateKept
<1>2. ASSUME NEW t \in Tasks, NEW d \in Drivers, FirebaseAcceptRead(t, d) PROVE RateInv'
  <2>1. /\ \/ UNCHANGED task
           \/ /\ \A u \in Tasks : u # t => task'[u] = task[u]
              /\ task[t].pc # "rate" /\ task'[t].pc # "rate"
        /\ UNCHANGED << scenario, stats >>
    BY <1>0, <1>2, FirebaseBegins DEF FirebaseAcceptRead, MayStart, At
  <2> QED
    BY <2>1, RateKept
<1>3. ASSUME NEW t \in Tasks, \/ AcceptWrite(t) \/ AcceptAssign(t) \/ AcceptOthers(t) \/ RejectWrite(t)
                              \/ FirebaseAssign(t) \/ FirebaseOwn(t) \/ FirebaseOthers(t)
      PROVE  RateInv'
  <2>1. /\ \A u \in Tasks : u # t => task'[u] = task[u]
        /\ task[t].pc # "rate" /\ task'[t].pc # "rate"
    BY <1>3, AcceptSteps, RejectSteps, FirebaseStepsTaken DEF Moves, Ends
  <2>2. UNCHANGED << scenario, stats >>
    BY <1>3 DEF AcceptWrite, AcceptAssign, AcceptOthers, RejectWrite, FirebaseAssign, FirebaseOwn, FirebaseOthers
  <2> QED
    BY <2>1, <2>2, RateKept
<1>4. ASSUME NEW t \in Tasks, AcceptCount(t) PROVE RateInv'
  <2>1. Ends(t, "count") /\ UNCHANGED scenario
    BY <1>4, AcceptSteps DEF AcceptCount
  <2>2. \A d \in Drivers : stats'[d].rate = stats[d].rate /\ stats'[d].rejected = stats[d].rejected
    BY <1>0, <1>4 DEF AcceptCount, TypeOK, Stats
  <2>3. \A u \in Tasks : task[u].pc = "rate" => task[u].driver \in Drivers
    BY <1>0 DEF TasksFit, At
  <2> QED
    BY <2>1, <2>2, <2>3 DEF RateInv, Ends
<1>5. ASSUME NEW t \in Tasks, RejectCount(t) PROVE RateInv'
  <2> DEFINE e == task[t].driver
  <2>1. /\ Moves(t, "countReject", "rate") /\ e \in Drivers
        /\ task'[t].totals = << stats[e].accepted, stats[e].rejected + 1 >>
    BY <1>0, <1>5, RejectSteps DEF Moves, TasksFit, At
  <2>2. /\ stats'[e].rejected = stats[e].rejected + 1 /\ UNCHANGED scenario
        /\ \A d \in Drivers : d # e => stats'[d] = stats[d]
    BY <1>0, <1>5, <2>1 DEF RejectCount, TypeOK, Stats
  <2>3. ~ scenario.overlap => \A u \in Tasks : u # t => task'[u].pc = "idle"
    BY <2>1 DEF OneAtATime, Moves
  <2> QED
    BY <2>1, <2>2, <2>3 DEF RateInv, Moves
<1>6. ASSUME NEW t \in Tasks, RejectRate(t) PROVE RateInv'
  <2> DEFINE e == task[t].driver
  <2>1. Ends(t, "rate") /\ e \in Drivers
    BY <1>0, <1>6, RejectSteps DEF Ends, TasksFit, At
  <2>2. /\ stats'[e].rate = task[t].totals /\ stats'[e].rejected = stats[e].rejected
        /\ \A d \in Drivers : d # e => stats'[d] = stats[d]
        /\ UNCHANGED scenario
    BY <1>0, <1>6, <2>1 DEF RejectRate, TypeOK, Stats
  <2>3. ~ scenario.overlap => \A u \in Tasks : u # t => task'[u].pc = "idle" /\ task[u].pc = "idle"
    BY <2>1 DEF OneAtATime, Ends
  <2> QED
    BY <2>1, <2>2, <2>3 DEF RateInv, Ends
<1>7. ASSUME \/ \E q \in Requests, d \in Drivers : RequestDriver(q, d)
             \/ \E d \in Drivers : CreateDeliveryRequestInFirebase(d) \/ AppAccepts(d)
             \/ \E q \in Requests : TimePasses(q)
             \/ expireDeliveryRequests \/ OrderMovesOn \/ UNCHANGED vars
      PROVE  RateInv'
  <2>1. UNCHANGED << scenario, task, stats >>
    BY <1>7 DEF RequestDriver, CreateDeliveryRequestInFirebase, AppAccepts, TimePasses,
       expireDeliveryRequests, OrderMovesOn, vars
  <2> QED
    BY <2>1, RateKept
<1> QED
  BY <1>1, <1>2, <1>3, <1>4, <1>5, <1>6, <1>7 DEF Next, TaskStep

LEMMA RateInit == Init => RateInv
<1> SUFFICES ASSUME Init PROVE RateInv
  OBVIOUS
<1>1. \A d \in Drivers : stats[d].rate[2] = stats[d].rejected
  BY DEF Init
<1>2. \A t \in Tasks : task[t].pc = "idle"
  BY IdleType DEF Init
<1> QED
  BY <1>1, <1>2 DEF RateInv

\* Whenever no answer is being handled, the driver of the order has an accepted request, an
\* accepted request has led to a driver, and the acceptance rates are current (the first unless
\* requests can be rejected, the last unless answers overlap), for any number of answers.
THEOREM DispatchSafe == Spec => []DispatchInv
<1>1. Init => TypeInv /\ AcceptInv /\ OneAtATime /\ RateInv
  BY TypeInit, AcceptInit, OneInit, RateInit
<1>2. TypeInv /\ AcceptInv /\ OneAtATime /\ RateInv /\ [Next]_vars
        => (TypeInv /\ AcceptInv /\ OneAtATime /\ RateInv)'
  BY TypeInductive, AcceptInductive, OneInductive, RateInductive
<1>3. ASSUME TypeInv, AcceptInv, RateInv PROVE DispatchInv
  <2>1. TypeOK /\ RateIsCurrent
    BY <1>3 DEF TypeInv, RateInv, RateIsCurrent, Quiet, At
  <2>2. AssignedDriverAccepted
    BY <1>3 DEF AcceptInv, Accepted, AssignedDriverAccepted, Quiet, At, RowsOf
  <2>3. AcceptanceAssigns
    BY <1>3 DEF AcceptInv, AcceptanceAssigns, Quiet, At
  <2> QED
    BY <2>1, <2>2, <2>3 DEF DispatchInv
<1> QED
  BY <1>1, <1>2, <1>3, PTL DEF Spec

(***************************************************************************)
(* Late acceptances                                                        *)
(***************************************************************************)
\* With acceptances over Firestore only, one after the other, the one that is about to write
\* the driver still finds the order without one.
LateInv ==
  ~ scenario.overlap /\ "acceptRequest" \notin scenario.answers =>
    \A t \in Tasks : /\ task[t].pc \notin { "accept", "assign", "others", "count" }
                     /\ task[t].pc = "fbAssign" => orderDriver = NoDriver

LEMMA LateInductive == TypeInv /\ OneAtATime /\ LateInv /\ [Next]_vars => LateInv'
<1> SUFFICES ASSUME TypeInv, OneAtATime, LateInv, [Next]_vars,
                    ~ scenario.overlap, "acceptRequest" \notin scenario.answers
             PROVE  LateInv'
  BY OneSlot DEF LateInv
<1>0. TypeOK /\ RowsFit
  BY DEF TypeInv
<1>1. \A t \in Tasks : /\ task[t].pc \notin { "accept", "assign", "others", "count" }
                       /\ task[t].pc = "fbAssign" => orderDriver = NoDriver
  BY DEF LateInv
<1>2. ASSUME NEW t \in Tasks, NEW q \in Requests, RejectRead(t, q) PROVE LateInv'
  <2>0. request[q].driver \in Drivers /\ TypeOK
    BY <1>0, <1>2 DEF RejectRead, RowsFit
  <2>1. /\ \A u \in Tasks : u # t => task'[u] = task[u]
        /\ task'[t].pc = "reject" /\ UNCHANGED << scenario, orderDriver >>
    BY <1>2, <2>0, AnswerBegins DEF RejectRead, AnswerSteps
  <2> QED
    BY <1>1, <2>1 DEF LateInv
<1>3. ASSUME NEW t \in Tasks, NEW d \in Drivers, FirebaseAcceptRead(t, d) PROVE LateInv'
  <2>1. /\ \/ UNCHANGED task
           \/ /\ \A u \in Tasks : u # t => task'[u] = task[u]
              /\ task'[t].pc = "fbAssign" /\ orderDriver = NoDriver
        /\ UNCHANGED << scenario, orderDriver >>
    BY <1>0, <1>3, FirebaseBegins DEF FirebaseAcceptRead
  <2> QED
    BY <1>1, <2>1 DEF LateInv
<1>4. ASSUME NEW t \in Tasks, RejectWrite(t) \/ RejectCount(t) \/ RejectRate(t) \/ FirebaseOwn(t) \/ FirebaseOthers(t)
      PROVE  LateInv'
  <2>1. /\ \A u \in Tasks : u # t => task'[u] = task[u]
        /\ task'[t].pc \in { "countReject", "rate", "idle", "fbOthers" }
    BY <1>4, RejectSteps, FirebaseStepsTaken DEF Moves, Ends
  <2>2. UNCHANGED << scenario, orderDriver >>
    BY <1>4 DEF RejectWrite, RejectCount, RejectRate, FirebaseOwn, FirebaseOthers
  <2> QED
    BY <1>1, <2>1, <2>2 DEF LateInv
<1>5. ASSUME NEW t \in Tasks, FirebaseAssign(t) PROVE LateInv'
  <2>1. Moves(t, "fbAssign", "fbOwn") /\ UNCHANGED scenario
    BY <1>5, FirebaseStepsTaken DEF FirebaseAssign
  <2>2. \A u \in Tasks : u # t => task[u].pc = "idle"
    BY <2>1 DEF OneAtATime, Moves
  <2> QED
    BY <2>1, <2>2 DEF LateInv, Moves
<1>6. ASSUME \/ \E q \in Requests, d \in Drivers : RequestDriver(q, d)
             \/ \E d \in Drivers : CreateDeliveryRequestInFirebase(d) \/ AppAccepts(d)
             \/ \E q \in Requests : TimePasses(q)
             \/ expireDeliveryRequests \/ OrderMovesOn \/ UNCHANGED vars
      PROVE  LateInv'
  <2>1. UNCHANGED << scenario, task, orderDriver >>
    BY <1>6 DEF RequestDriver, CreateDeliveryRequestInFirebase, AppAccepts, TimePasses,
       expireDeliveryRequests, OrderMovesOn, vars
  <2> QED
    BY <1>1, <2>1 DEF LateInv
<1>7. ASSUME NEW t \in Tasks
      PROVE  /\ ~ (AcceptWrite(t) \/ AcceptAssign(t) \/ AcceptOthers(t) \/ AcceptCount(t))
             /\ \A q \in Requests : ~ AcceptRead(t, q)
  BY <1>1 DEF AcceptWrite, AcceptAssign, AcceptOthers, AcceptCount, AcceptRead, At
<1> QED
  BY <1>2, <1>3, <1>4, <1>5, <1>6, <1>7 DEF Next, TaskStep

\* A driver the order has is not replaced by a later acceptance that came over Firestore, when
\* no other answer overlaps ("Rejecting late acceptance"), however many drivers were asked.
THEOREM LateAcceptance == Spec => LateAcceptanceRejected
<1>1. Init => TypeInv /\ OneAtATime /\ LateInv
  BY TypeInit, OneInit, IdleType DEF Init, LateInv
<1>2. TypeInv /\ OneAtATime /\ LateInv /\ [Next]_vars => (TypeInv /\ OneAtATime /\ LateInv)'
  BY TypeInductive, OneInductive, LateInductive
<1>3. ASSUME TypeInv, LateInv, [Next]_vars
      PROVE  [ ~ scenario.overlap /\ "acceptRequest" \notin scenario.answers /\ orderDriver # NoDriver
                 => orderDriver' = orderDriver ]_vars
  <2> SUFFICES ASSUME ~ scenario.overlap, "acceptRequest" \notin scenario.answers, orderDriver # NoDriver,
                      Next
               PROVE  orderDriver' = orderDriver
    BY <1>3
  <2>1. \A t \in Tasks : ~ FirebaseAssign(t) /\ ~ AcceptAssign(t)
    BY <1>3 DEF LateInv, FirebaseAssign, AcceptAssign, At
  <2> QED
    BY <2>1 DEF Next, TaskStep, RequestDriver, AcceptRead, RejectRead, CreateDeliveryRequestInFirebase,
       AppAccepts, AcceptWrite, AcceptOthers, AcceptCount, RejectWrite, RejectCount, RejectRate,
       FirebaseOwn, FirebaseOthers, FirebaseAcceptRead, TimePasses, expireDeliveryRequests, OrderMovesOn
<1> QED
  BY <1>1, <1>2, <1>3, PTL DEF Spec, LateAcceptanceRejected
=============================================================================

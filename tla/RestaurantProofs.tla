-------------------------- MODULE RestaurantProofs --------------------------
(***************************************************************************)
(* Theorems about Applications, for any users and any number of calls at a *)
(* time, and about MenuSync, for any restaurants, sections and items and   *)
(* any number of inputs and faults.                                        *)
(*                                                                         *)
(* What is promised to an applicant of the app needs that no two calls are *)
(* about the same one.  What is promised of menus holds in whatever order  *)
(* applications, administrators, mirrors, listener and job come; what is   *)
(* promised of a restaurant's standing, RestaurantStatus, likewise, and    *)
(* whatever failed before.                                                 *)
(***************************************************************************)
EXTENDS Applications, MenuSync, RestaurantStatus, DataTheorems, TLAPS

(***************************************************************************)
(* Applications                                                            *)
(***************************************************************************)

(***************************************************************************)
(* The type of the state                                                   *)
(***************************************************************************)

LEMMA IdleType == IdleTask \in TaskStates /\ IdleTask.pc = "idle"
BY ApplicationsAssumption DEF IdleTask, TaskStates, Decisions, Statuses, Roles

LEMMA TypeInit == Init => TypeOK
<1> SUFFICES ASSUME Init PROVE TypeOK
  OBVIOUS
<1>1. application \in [ Users -> [ kind : Kinds, status : Decisions, general : Decisions ] ]
  BY DEF Init, Decisions
<1>2. row \in [ Users -> [ role : Roles, status : Statuses, linked : BOOLEAN ] ]
  BY DEF Init, Roles, Statuses
<1>3. doc \in [ Users -> [ role : Roles, status : Statuses, application : Decisions ] ]
  BY <1>1, <1>2 DEF Init, Statuses
<1>4. task \in [ Admins -> TaskStates ]
  BY IdleType DEF Init
<1> QED
  BY <1>1, <1>2, <1>3, <1>4 DEF Init, TypeOK, ProfileStates, Statuses

\* How a call goes on.
LEMMA TaskGoto ==
  ASSUME TypeOK, NEW a \in Admins, NEW pc \in Steps, Goto(a, pc)
  PROVE  /\ task' \in [ Admins -> TaskStates ]
         /\ task'[a].pc = pc /\ task'[a].user = task[a].user /\ task'[a].decision = task[a].decision
         /\ task'[a].role = task[a].role
         /\ \A b \in Admins \ { a } : task'[b] = task[b]
BY DEF TypeOK, Goto, TaskStates

LEMMA TaskFinish ==
  ASSUME TypeOK, NEW a \in Admins, Finish(a)
  PROVE  /\ task' \in [ Admins -> TaskStates ] /\ task'[a].pc = "idle"
         /\ \A b \in Admins \ { a } : task'[b] = task[b]
BY IdleType DEF TypeOK, Finish

\* How a call begins.
LEMMA TaskBegin ==
  ASSUME TypeOK, NEW a \in Admins, NEW u \in Users, NEW decision \in Decisions, NEW pc \in Steps,
         Begin(a, u, decision, pc)
  PROVE  /\ task' \in [ Admins -> TaskStates ]
         /\ task'[a].pc = pc /\ task'[a].user = u /\ task'[a].decision = decision
         /\ \A b \in Admins \ { a } : task'[b] = task[b]
<1>1. ASSUME NEW t, t = [ IdleTask EXCEPT !.pc = pc, !.user = u, !.decision = decision ]
      PROVE  t \in TaskStates /\ t.pc = pc /\ t.user = u /\ t.decision = decision
  BY <1>1, IdleType DEF TaskStates
<1> QED
  BY <1>1 DEF TypeOK, Begin

\* What one statement, of a call about the user, may write.
ApplicationSet == [ kind : Kinds, status : Decisions, general : Decisions ]
RowSet == [ role : Roles, status : Statuses, linked : BOOLEAN ]
RestaurantSet == [ count : Nat, status : Statuses ]
DocSet == [ role : Roles, status : Statuses, application : Decisions ]

WritesApplication(u) ==
  \/ UNCHANGED application
  \/ \E d \in Decisions : \/ application' = [ application EXCEPT ![u].status = d ]
                          \/ application' = [ application EXCEPT ![u].general = d ]

WritesRow(u) ==
  \/ UNCHANGED row
  \/ \E role \in Roles : row' = [ row EXCEPT ![u].role = role ]
  \/ \E status \in Statuses : row' = [ row EXCEPT ![u].status = status ]
  \/ row' = [ row EXCEPT ![u].linked = TRUE ]

WritesProfile(u) == UNCHANGED profile \/ \E status \in ProfileStates : profile' = [ profile EXCEPT ![u] = status ]

WritesRestaurant(u) ==
  \/ UNCHANGED restaurant
  \/ \E status \in Statuses : restaurant' = [ restaurant EXCEPT ![u].status = status ]
  \/ \E status \in Statuses :
       restaurant' = [ restaurant EXCEPT ![u] = [ count |-> @.count + 1, status |-> status ] ]

WritesDoc(u) ==
  \/ UNCHANGED doc
  \/ \E role \in Roles, status \in Statuses, decision \in Decisions :
       doc' = [ doc EXCEPT ![u] = [ role |-> role, status |-> status, application |-> decision ] ]
  \/ \E status \in Statuses : doc' = [ doc EXCEPT ![u] = [ doc[u] EXCEPT !.status = status ] ]

WritesRestDoc(u) == UNCHANGED restDoc \/ \E status \in Statuses : restDoc' = [ restDoc EXCEPT ![u] = status ]

Writes(u) ==
  /\ WritesApplication(u) /\ WritesRow(u) /\ WritesProfile(u) /\ WritesRestaurant(u)
  /\ WritesDoc(u) /\ WritesRestDoc(u)

LEMMA WritesType ==
  ASSUME TypeOK, NEW u \in Users, Writes(u), task' \in [ Admins -> TaskStates ]
  PROVE  TypeOK'
<1>0. /\ application \in [ Users -> ApplicationSet ]
      /\ row \in [ Users -> RowSet ]
      /\ profile \in [ Users -> ProfileStates ]
      /\ restaurant \in [ Users -> RestaurantSet ]
      /\ doc \in [ Users -> DocSet ]
      /\ restDoc \in [ Users -> Statuses \cup { "none" } ]
  BY DEF TypeOK, ApplicationSet, RowSet, RestaurantSet, DocSet
<1>1. application' \in [ Users -> ApplicationSet ]
  BY <1>0 DEF Writes, WritesApplication, ApplicationSet
<1>2. row' \in [ Users -> RowSet ]
  <2>1. \A role \in Roles : [ row[u] EXCEPT !.role = role ] \in RowSet
    BY <1>0 DEF RowSet
  <2>2. \A status \in Statuses : [ row[u] EXCEPT !.status = status ] \in RowSet
    BY <1>0 DEF RowSet
  <2>3. [ row[u] EXCEPT !.linked = TRUE ] \in RowSet
    BY <1>0 DEF RowSet
  <2>4. UNCHANGED row \/ \E r \in RowSet : row' = [ row EXCEPT ![u] = r ]
    BY <2>1, <2>2, <2>3 DEF Writes, WritesRow
  <2> QED
    BY <1>0, <2>4
<1>3. profile' \in [ Users -> ProfileStates ]
  BY <1>0 DEF Writes, WritesProfile
<1>4. restaurant' \in [ Users -> RestaurantSet ]
  BY <1>0 DEF Writes, WritesRestaurant, RestaurantSet
<1>5. doc' \in [ Users -> DocSet ]
  <2>1. \A role \in Roles, status \in Statuses, decision \in Decisions :
          [ role |-> role, status |-> status, application |-> decision ] \in DocSet
    BY DEF DocSet
  <2>2. \A status \in Statuses : [ doc[u] EXCEPT !.status = status ] \in DocSet
    BY <1>0 DEF DocSet
  <2>3. UNCHANGED doc \/ \E d \in DocSet : doc' = [ doc EXCEPT ![u] = d ]
    BY <2>1, <2>2 DEF Writes, WritesDoc
  <2> QED
    BY <1>0, <2>3
<1>6. restDoc' \in [ Users -> Statuses \cup { "none" } ]
  BY <1>0 DEF Writes, WritesRestDoc
<1> QED
  BY <1>1, <1>2, <1>3, <1>4, <1>5, <1>6 DEF TypeOK, ApplicationSet, RowSet, RestaurantSet, DocSet

\* What is kept about the other users, and the kind of the user, stay.
LEMMA WritesFrame ==
  ASSUME TypeOK, NEW u \in Users, Writes(u)
  PROVE  /\ \A v \in Users \ { u } : /\ application'[v] = application[v] /\ row'[v] = row[v]
                                     /\ profile'[v] = profile[v] /\ restaurant'[v] = restaurant[v]
         /\ \A v \in Users : application'[v].kind = application[v].kind
<1>0. /\ application \in [ Users -> ApplicationSet ]
      /\ row \in [ Users -> RowSet ]
      /\ profile \in [ Users -> ProfileStates ]
      /\ restaurant \in [ Users -> RestaurantSet ]
  BY DEF TypeOK, ApplicationSet, RowSet, RestaurantSet
<1>1. /\ \A v \in Users \ { u } : application'[v] = application[v]
      /\ \A v \in Users : application'[v].kind = application[v].kind
  BY <1>0 DEF Writes, WritesApplication, ApplicationSet
<1>2. \A v \in Users \ { u } : row'[v] = row[v]
  BY <1>0 DEF Writes, WritesRow
<1>3. \A v \in Users \ { u } : profile'[v] = profile[v]
  BY <1>0 DEF Writes, WritesProfile
<1>4. \A v \in Users \ { u } : restaurant'[v] = restaurant[v]
  BY <1>0 DEF Writes, WritesRestaurant
<1> QED
  BY <1>1, <1>2, <1>3, <1>4

\* The next statement of a call writes about its user, and the call goes on or ends.
Proceeds(a) ==
  /\ task' \in [ Admins -> TaskStates ]
  /\ \A b \in Admins \ { a } : task'[b] = task[b]
  /\ task'[a].pc = "idle" \/ /\ task'[a].user = task[a].user /\ task'[a].decision = task[a].decision
                             /\ task'[a].role = task[a].role

LEMMA FirebaseWrites ==
  ASSUME TypeOK, NEW a \in Admins, FirebaseStep(a) PROVE Writes(task[a].user) /\ Proceeds(a)
<1>u. PICK u \in Users : u = task[a].user
  BY DEF TypeOK, TaskStates
<1>0. /\ task[a].decision \in Decisions
      /\ doc[u].role \in Roles /\ Statuses # {}
  BY <1>u DEF TypeOK, TaskStates, Statuses
<1>1. WritesApplication(u)
  BY <1>0, <1>u
     DEF WritesApplication, Statuses,
         FirebaseStep, MarkApplication, MarkGeneral, MarkUserDoc, FindRow, CreateRestaurant, CreateRestDoc,
         UpsertProfile, GrantRole, RefreshDriverDoc, Withdraw
<1>2. WritesRow(u)
  BY <1>u
     DEF WritesRow, Statuses,
         FirebaseStep, MarkApplication, MarkGeneral, MarkUserDoc, FindRow, CreateRestaurant, CreateRestDoc,
         UpsertProfile, GrantRole, RefreshDriverDoc, Withdraw, SetRole, Roles
<1>3. WritesProfile(u)
  BY <1>u
     DEF WritesProfile, Statuses,
         FirebaseStep, MarkApplication, MarkGeneral, MarkUserDoc, FindRow, CreateRestaurant, CreateRestDoc,
         UpsertProfile, GrantRole, RefreshDriverDoc, Withdraw, SetProfile, ProfileStates
<1>4. WritesRestaurant(u)
  BY <1>u
     DEF WritesRestaurant, Statuses,
         FirebaseStep, MarkApplication, MarkGeneral, MarkUserDoc, FindRow, CreateRestaurant, CreateRestDoc,
         UpsertProfile, GrantRole, RefreshDriverDoc, Withdraw, SetRestaurant
<1>5. WritesDoc(u)
  BY <1>0, <1>u
     DEF WritesDoc, Statuses,
         FirebaseStep, MarkApplication, MarkGeneral, MarkUserDoc, FindRow, CreateRestaurant, CreateRestDoc,
         UpsertProfile, GrantRole, RefreshDriverDoc, Withdraw, Tried, StatusOf, Roles, Decisions
<1>6. WritesRestDoc(u)
  BY <1>u
     DEF WritesRestDoc, Statuses,
         FirebaseStep, MarkApplication, MarkGeneral, MarkUserDoc, FindRow, CreateRestaurant, CreateRestDoc,
         UpsertProfile, GrantRole, RefreshDriverDoc, Withdraw, TriedRest
<1>7. Finish(a) \/ \E pc \in Steps : Goto(a, pc)
  BY DEF FirebaseStep, MarkApplication, MarkGeneral, MarkUserDoc, FindRow, CreateRestaurant, CreateRestDoc,
         UpsertProfile, GrantRole, RefreshDriverDoc, Withdraw, Steps, FirebaseSteps
<1>8. Proceeds(a)
  BY <1>7, TaskGoto, TaskFinish DEF Proceeds
<1> QED
  BY <1>1, <1>2, <1>3, <1>4, <1>5, <1>6, <1>8, <1>u DEF Writes

LEMMA RowWrites ==
  ASSUME TypeOK, NEW a \in Admins, RowStep(a) PROVE Writes(task[a].user) /\ Proceeds(a)
<1>u. PICK u \in Users : u = task[a].user
  BY DEF TypeOK, TaskStates
<1>0. /\ task[a].decision \in Decisions /\ task[a].status \in Statuses
      /\ doc[u].role \in Roles
  BY <1>u DEF TypeOK, TaskStates
<1>1. WritesApplication(u)
  BY <1>u
     DEF WritesApplication, Statuses,
         RowStep, AcceptDriver, PromoteDriver, MarkDriverDoc, ActivateRestaurant, OwnerRole, MarkOwnerDoc,
         MarkRestaurantDoc, WriteVendorStatus, MarkStatusDoc, MarkStatusOwner
<1>2. WritesRow(u)
  BY <1>u
     DEF WritesRow, Statuses,
         RowStep, AcceptDriver, PromoteDriver, MarkDriverDoc, ActivateRestaurant, OwnerRole, MarkOwnerDoc,
         MarkRestaurantDoc, WriteVendorStatus, MarkStatusDoc, MarkStatusOwner, SetRole, Roles
<1>3. WritesProfile(u)
  BY <1>u
     DEF WritesProfile, Statuses,
         RowStep, AcceptDriver, PromoteDriver, MarkDriverDoc, ActivateRestaurant, OwnerRole, MarkOwnerDoc,
         MarkRestaurantDoc, WriteVendorStatus, MarkStatusDoc, MarkStatusOwner, SetProfile, ProfileStates
<1>4. WritesRestaurant(u)
  BY <1>0, <1>u
     DEF WritesRestaurant, Statuses,
         RowStep, AcceptDriver, PromoteDriver, MarkDriverDoc, ActivateRestaurant, OwnerRole, MarkOwnerDoc,
         MarkRestaurantDoc, WriteVendorStatus, MarkStatusDoc, MarkStatusOwner, SetRestaurant, StatusOf
<1>5. WritesDoc(u)
  BY <1>0, <1>u
     DEF WritesDoc, Statuses,
         RowStep, AcceptDriver, PromoteDriver, MarkDriverDoc, ActivateRestaurant, OwnerRole, MarkOwnerDoc,
         MarkRestaurantDoc, WriteVendorStatus, MarkStatusDoc, MarkStatusOwner, Tried, StatusOf, Roles
<1>6. WritesRestDoc(u)
  BY <1>0, <1>u
     DEF WritesRestDoc, Statuses,
         RowStep, AcceptDriver, PromoteDriver, MarkDriverDoc, ActivateRestaurant, OwnerRole, MarkOwnerDoc,
         MarkRestaurantDoc, WriteVendorStatus, MarkStatusDoc, MarkStatusOwner, TriedRest, StatusOf
<1>7. Finish(a) \/ \E pc \in Steps : Goto(a, pc)
  BY DEF RowStep, AcceptDriver, PromoteDriver, MarkDriverDoc, ActivateRestaurant, OwnerRole, MarkOwnerDoc,
         MarkRestaurantDoc, WriteVendorStatus, MarkStatusDoc, MarkStatusOwner, Steps, RowSteps
<1>8. Proceeds(a)
  BY <1>7, TaskGoto, TaskFinish DEF Proceeds
<1> QED
  BY <1>1, <1>2, <1>3, <1>4, <1>5, <1>6, <1>8, <1>u DEF Writes

LEMMA OnboardingWrites ==
  ASSUME TypeOK, NEW a \in Admins, OnboardingStep(a) PROVE Writes(task[a].user) /\ Proceeds(a)
<1>u. PICK u \in Users : u = task[a].user
  BY DEF TypeOK, TaskStates
<1>0. /\ task[a].seen \in Statuses \cup { "none" }
      /\ restaurant[u].status \in Statuses \cup { "none" }
  BY <1>u DEF TypeOK, TaskStates
<1>1. WritesApplication(u) /\ WritesDoc(u)
  BY DEF WritesApplication, WritesDoc, OnboardingStep, SubmitDriverProfile, BeginApproval, SyncToFirebase, ApprovalTimesOut, LateLink,
         CommitApproval
<1>2. WritesRow(u)
  BY <1>u
     DEF WritesRow, Statuses,
         OnboardingStep, SubmitDriverProfile, BeginApproval, SyncToFirebase, ApprovalTimesOut, LateLink,
         CommitApproval, Statuses
<1>3. WritesProfile(u)
  BY <1>u
     DEF WritesProfile, Statuses,
         OnboardingStep, SubmitDriverProfile, BeginApproval, SyncToFirebase, ApprovalTimesOut, LateLink,
         CommitApproval, SetProfile, ProfileStates
<1>4. WritesRestaurant(u)
  BY <1>u DEF WritesRestaurant, OnboardingStep, SubmitDriverProfile, BeginApproval, SyncToFirebase, ApprovalTimesOut,
              LateLink, CommitApproval, Statuses
<1>5. WritesRestDoc(u)
  BY <1>0, <1>u
     DEF WritesRestDoc, Statuses,
         OnboardingStep, SubmitDriverProfile, BeginApproval, SyncToFirebase, ApprovalTimesOut, LateLink,
         CommitApproval
<1>6. \/ Finish(a) \/ \E pc \in Steps : Goto(a, pc)
      \/ \E seen \in Statuses \cup { "none" } : task' = [ task EXCEPT ![a].pc = "sync", ![a].seen = seen ]
  BY <1>0 DEF OnboardingStep, SubmitDriverProfile, BeginApproval, SyncToFirebase, ApprovalTimesOut, LateLink,
              CommitApproval, Steps, OnboardingSteps
<1>7. ASSUME NEW seen \in Statuses \cup { "none" },
             task' = [ task EXCEPT ![a].pc = "sync", ![a].seen = seen ]
      PROVE  Proceeds(a)
  <2>1. task \in [ Admins -> TaskStates ] /\ "sync" \in Steps
    BY DEF TypeOK, Steps, OnboardingSteps
  <2> QED
    BY <1>7, <2>1 DEF Proceeds, TaskStates
<1>8. Proceeds(a)
  BY <1>6, <1>7, TaskGoto, TaskFinish DEF Proceeds
<1> QED
  BY <1>1, <1>2, <1>3, <1>4, <1>5, <1>8, <1>u DEF Writes

\* A call that begins writes at most the role of its user.
LEMMA BeginsWrites ==
  ASSUME TypeOK, NEW a \in Admins, Begins(a)
  PROVE  \E u \in Users : /\ Writes(u) /\ At(a, "idle") /\ MayBegin(a, u)
                          /\ task' \in [ Admins -> TaskStates ] /\ task'[a].user = u
                          /\ \A b \in Admins \ { a } : task'[b] = task[b]
<1>0. "approved" \in Decisions /\ "rejected" \in Decisions /\ { "mark", "accept", "activate" } \subseteq Steps
  BY DEF Decisions, Steps, FirebaseSteps, RowSteps
<1>1. CASE \E u \in Drivers \cup Vendors, decision \in { "approved", "rejected" } : DecideApplication(a, u, decision)
  <2>1. PICK u \in Drivers \cup Vendors, decision \in { "approved", "rejected" } : DecideApplication(a, u, decision)
    BY <1>1
  <2>2. u \in Users /\ Begin(a, u, decision, "mark") /\ MayBegin(a, u) /\ At(a, "idle") /\ Writes(u)
    BY <2>1 DEF DecideApplication, Begin, MayBegin, Drivers, Vendors, Writes, WritesApplication, WritesRow,
                WritesProfile, WritesRestaurant, WritesDoc, WritesRestDoc
  <2> QED
    BY <1>0, <2>2, TaskBegin
<1>2. CASE \E u \in Users, decision \in { "approved", "rejected" } :
             DecideDriver(a, u, decision) \/ DecideRestaurant(a, u, decision)
  <2>1. PICK u \in Users, decision \in { "approved", "rejected" } :
          DecideDriver(a, u, decision) \/ DecideRestaurant(a, u, decision)
    BY <1>2
  <2>2. /\ Begin(a, u, decision, "accept") \/ Begin(a, u, decision, "activate")
        /\ MayBegin(a, u) /\ At(a, "idle") /\ Writes(u)
    BY <2>1 DEF DecideDriver, DecideRestaurant, Begin, MayBegin, Writes, WritesApplication, WritesRow,
                WritesProfile, WritesRestaurant, WritesDoc, WritesRestDoc
  <2> QED
    BY <1>0, <2>2, TaskBegin
<1>3. CASE \E u \in Users, status \in { "ACTIVE", "SUSPENDED" } : UpdateVendorStatus(a, u, status)
  <2>1. PICK u \in Users, status \in { "ACTIVE", "SUSPENDED" } : UpdateVendorStatus(a, u, status)
    BY <1>3
  <2>2. ASSUME NEW t, t = [ IdleTask EXCEPT !.pc = "vendorstatus", !.user = u, !.status = status ]
        PROVE  t \in TaskStates /\ t.user = u
    BY <2>2, IdleType DEF TaskStates, Statuses, Steps, RowSteps
  <2>3. MayBegin(a, u) /\ At(a, "idle") /\ Writes(u)
    BY <2>1 DEF UpdateVendorStatus, MayBegin, Writes, WritesApplication, WritesRow,
                WritesProfile, WritesRestaurant, WritesDoc, WritesRestDoc
  <2> QED
    BY <2>1, <2>2, <2>3 DEF UpdateVendorStatus, TypeOK
<1>4. CASE \E u \in Onboarders : SubmitDriver(a, u) \/ ApproveOnboarding(a, u)
  <2>1. PICK u \in Onboarders : SubmitDriver(a, u) \/ ApproveOnboarding(a, u)
    BY <1>4
  <2>2. u \in Users /\ MayBegin(a, u) /\ At(a, "idle") /\ Writes(u)
    BY <2>1 DEF SubmitDriver, ApproveOnboarding, Onboarders, SetRole, Roles, MayBegin, Writes,
                WritesApplication, WritesRow, WritesProfile, WritesRestaurant, WritesDoc, WritesRestDoc
  <2>3. row[u].role \in Roles
    BY <2>2 DEF TypeOK
  <2>4. \A t : \/ t = [ IdleTask EXCEPT !.pc = "applied", !.user = u ]
               \/ t = [ IdleTask EXCEPT !.pc = "begin", !.user = u, !.role = row[u].role ]
               => t \in TaskStates /\ t.user = u
    BY <2>2, <2>3, IdleType DEF TaskStates, Steps, OnboardingSteps
  <2> QED
    BY <2>1, <2>2, <2>4 DEF SubmitDriver, ApproveOnboarding, TypeOK
<1> QED
  BY <1>1, <1>2, <1>3, <1>4 DEF Begins

\* What the handlers that run in one transaction write.
LEMMA AtOnceWrites ==
  ASSUME TypeOK, NEW u \in Onboarders, SubmitRestaurant(u) \/ RejectOnboarding(u)
  PROVE  u \in Users /\ Writes(u) /\ UNCHANGED task
<1>1. UNCHANGED << application, doc, restDoc, task >> /\ u \in Users
  BY DEF SubmitRestaurant, RejectOnboarding, Onboarders
<1>2. WritesRow(u) /\ WritesProfile(u)
  BY DEF SubmitRestaurant, RejectOnboarding, WritesRow, WritesProfile, Statuses, ProfileStates
<1>3. WritesRestaurant(u)
  BY DEF SubmitRestaurant, RejectOnboarding, WritesRestaurant, Statuses
<1> QED
  BY <1>1, <1>2, <1>3 DEF Writes, WritesApplication, WritesDoc, WritesRestDoc

LEMMA FailWrites ==
  ASSUME TypeOK, NEW a \in Admins, Fail(a)
  PROVE  Writes(task[a].user) /\ Proceeds(a)
<1>1. Writes(task[a].user)
  BY DEF Fail, Writes, WritesApplication, WritesRow, WritesProfile, WritesRestaurant, WritesDoc, WritesRestDoc
<1>2. Proceeds(a)
  BY TaskFinish DEF Fail, Proceeds
<1> QED
  BY <1>1, <1>2

LEMMA TypeInductive == TypeOK /\ [Next]_vars => TypeOK'
<1> SUFFICES ASSUME TypeOK, [Next]_vars PROVE TypeOK'
  OBVIOUS
<1>1. ASSUME NEW a \in Admins, Begins(a) PROVE TypeOK'
  BY <1>1, BeginsWrites, WritesType
<1>2. ASSUME NEW a \in Admins, FirebaseStep(a) \/ RowStep(a) \/ OnboardingStep(a) \/ Fail(a) PROVE TypeOK'
  <2>1. Writes(task[a].user) /\ Proceeds(a) /\ task[a].user \in Users
    BY <1>2, FirebaseWrites, RowWrites, OnboardingWrites, FailWrites DEF TypeOK, TaskStates
  <2> QED
    BY <2>1, WritesType DEF Proceeds
<1>3. ASSUME NEW u \in Onboarders, SubmitRestaurant(u) \/ RejectOnboarding(u) PROVE TypeOK'
  <2>1. u \in Users /\ Writes(u) /\ task' \in [ Admins -> TaskStates ]
    BY <1>3, AtOnceWrites DEF TypeOK
  <2> QED
    BY <2>1, WritesType
<1>4. CASE UNCHANGED vars
  BY <1>4 DEF TypeOK, vars
<1> QED
  BY <1>1, <1>2, <1>3, <1>4 DEF Next

(***************************************************************************)
(* Applicants of the app: a vendor has the restaurant that was approved    *)
(***************************************************************************)

\* Two calls are never about the same user of this kind at a time.
Alone(u) == application[u].kind \notin Overlapping \cup { "onboarding" }

Busy(a, u) == ~At(a, "idle") /\ task[a].user = u

Exclusive(u) == \A a, b \in Admins : Busy(a, u) /\ Busy(b, u) => a = b

\* Nothing was written yet for the application of the user.
Untouched(u) == profile[u] = "none" /\ restaurant[u].count = 0

OneAtMost(u) == u \in Vendors => restaurant[u].count <= (IF application[u].status = "approved" THEN 1 ELSE 0)

UserInv(u) ==
  /\ application[u].status = "pending" => Untouched(u)
  /\ OneAtMost(u)

\* What a call about the user knows at each of its steps.
CallInv(a, u) ==
  /\ task[a].pc \in FirebaseSteps => task[a].decision \in { "approved", "rejected" }
  /\ At(a, "mark") => application[u].status = "pending"
  /\ task[a].pc \in { "general", "userdoc", "find", "create", "profile", "withdraw" } =>
       Untouched(u) /\ application[u].status = task[a].decision
  /\ At(a, "create") => u \in Vendors /\ task[a].decision = "approved"
  /\ task[a].pc \in RowSteps \cup { "restdoc", "grant", "refresh" } => application[u].status # "pending"
  /\ task[a].pc \notin OnboardingSteps

Applicant(u) ==
  /\ Exclusive(u) /\ UserInv(u)
  /\ \A a \in Admins : Busy(a, u) => CallInv(a, u)

ApplicantInv == \A u \in Users : Alone(u) => Applicant(u)

LEMMA ApplicantInit == Init => ApplicantInv
<1> SUFFICES ASSUME Init, NEW u \in Users, Alone(u) PROVE Applicant(u)
  BY DEF ApplicantInv
<1>1. TypeOK
  BY TypeInit
<1>2. u \in Users \ Onboarders
  BY DEF Alone, Onboarders
<1>3. Untouched(u)
  BY <1>2 DEF Init, Untouched
<1>4. \A a \in Admins : ~Busy(a, u)
  BY IdleType DEF Init, Busy, At
<1> QED
  BY <1>3, <1>4 DEF Applicant, Exclusive, UserInv, Untouched, OneAtMost

\* A statement about another user takes nothing away.
LEMMA Elsewhere ==
  ASSUME TypeOK, TypeOK', NEW u \in Users, Writes(u), NEW v \in Users \ { u }, Applicant(v),
         \A a \in Admins : \/ task'[a] = task[a]
                           \/ ~Busy(a, v) /\ (task'[a].pc = "idle" \/ task'[a].user = u)
  PROVE  Applicant(v)'
<1>1. /\ application'[v] = application[v] /\ row'[v] = row[v]
      /\ profile'[v] = profile[v] /\ restaurant'[v] = restaurant[v]
  BY WritesFrame
<1>2. \A a \in Admins : Busy(a, v)' <=> Busy(a, v)
  BY DEF Busy, At
<1>3. \A a \in Admins : Busy(a, v) => task'[a] = task[a]
  OBVIOUS
<1>4. Untouched(v)' <=> Untouched(v)
  BY <1>1 DEF Untouched
<1>5. (v \in Vendors)' <=> v \in Vendors
  BY <1>1 DEF Vendors
<1>6. Exclusive(v)'
  BY <1>2 DEF Applicant, Exclusive
<1>7. UserInv(v)'
  BY <1>1, <1>4, <1>5 DEF Applicant, UserInv, OneAtMost
<1>8. ASSUME NEW a \in Admins, Busy(a, v)' PROVE CallInv(a, v)'
  <2>1. CallInv(a, v) /\ task'[a] = task[a]
    BY <1>2, <1>3, <1>8 DEF Applicant
  <2> QED
    BY <1>1, <1>4, <1>5, <2>1 DEF CallInv, At
<1> QED
  BY <1>6, <1>7, <1>8 DEF Applicant

\* What a step of the call about the user has to establish.
Established(a, u) ==
  /\ UserInv(u)
  /\ At(a, "idle") \/ CallInv(a, u)

\* Nobody else's call is about the user, so what this one establishes is enough.
LEMMA OwnStep ==
  ASSUME TypeOK, TypeOK', NEW a \in Admins, NEW u \in Users, u = task[a].user, ~At(a, "idle"),
         Applicant(u), Proceeds(a), Established(a, u)'
  PROVE  Applicant(u)'
<1>1. \A b \in Admins \ { a } : ~Busy(b, u) /\ task'[b] = task[b]
  BY DEF Applicant, Exclusive, Busy, Proceeds
<1>2. \A b \in Admins \ { a } : ~Busy(b, u)'
  BY <1>1 DEF Busy, At
<1>3. Exclusive(u)'
  BY <1>2 DEF Exclusive
<1>4. \A b \in Admins : Busy(b, u)' => CallInv(b, u)'
  BY <1>2 DEF Established, Busy
<1> QED
  BY <1>3, <1>4 DEF Applicant, Established

\* What the call finds.
LEMMA OwnBefore ==
  ASSUME TypeOK, NEW a \in Admins, NEW u \in Users, u = task[a].user, ~At(a, "idle"), Applicant(u)
  PROVE  UserInv(u) /\ CallInv(a, u)
BY DEF Applicant, Busy

\* A step that leaves what was decided about the user as it was.
Kept(u) ==
  /\ application'[u].status = application[u].status /\ application'[u].kind = application[u].kind
  /\ profile'[u] = profile[u] /\ restaurant'[u].count = restaurant[u].count

LEMMA KeptUser ==
  ASSUME NEW u \in Users, Kept(u)
  PROVE  /\ UserInv(u) => UserInv(u)'
         /\ Untouched(u) => Untouched(u)'
         /\ (u \in Vendors)' <=> u \in Vendors
<1>1. (u \in Vendors)' <=> u \in Vendors
  BY DEF Kept, Vendors
<1>2. Untouched(u)' <=> Untouched(u)
  BY DEF Kept, Untouched
<1>3. OneAtMost(u) => OneAtMost(u)'
  BY <1>1 DEF Kept, OneAtMost
<1> QED
  BY <1>1, <1>2, <1>3 DEF Kept, UserInv

LEMMA FirebaseEstablishes ==
  ASSUME TypeOK, TypeOK', NEW a \in Admins, NEW u \in Users, u = task[a].user, Applicant(u), FirebaseStep(a)
  PROVE  Established(a, u)'
<1>0. ~At(a, "idle")
  BY DEF FirebaseStep, MarkApplication, MarkGeneral, MarkUserDoc, FindRow, CreateRestaurant, CreateRestDoc,
         UpsertProfile, GrantRole, RefreshDriverDoc, Withdraw, At
<1>1. UserInv(u) /\ CallInv(a, u)
  BY <1>0, OwnBefore
<1>2. (u \in Vendors)' <=> u \in Vendors
  BY FirebaseWrites, WritesFrame DEF Vendors
<1>3. /\ application \in [ Users -> ApplicationSet ] /\ row \in [ Users -> RowSet ]
      /\ profile \in [ Users -> ProfileStates ] /\ restaurant \in [ Users -> RestaurantSet ]
      /\ task \in [ Admins -> TaskStates ]
  BY DEF TypeOK, ApplicationSet, RowSet, RestaurantSet
<1>4. u \in Vendors \/ u \in Drivers \/ u \in Onboarders
  BY <1>3 DEF Vendors, Drivers, Onboarders, ApplicationSet, Kinds
<1>5. CASE MarkApplication(a)
  <2>1. /\ application'[u].status = task[a].decision /\ UNCHANGED << row, profile, restaurant >>
        /\ task'[a].pc = "general" /\ task'[a].decision = task[a].decision
    BY <1>3, <1>5 DEF MarkApplication, Goto, ApplicationSet, TaskStates
  <2>2. /\ Untouched(u) /\ task[a].decision \in { "approved", "rejected" }
        /\ At(a, "mark")
    BY <1>1, <1>5 DEF MarkApplication, CallInv, UserInv, At, FirebaseSteps
  <2>3. Untouched(u)'
    BY <2>1, <2>2 DEF Untouched
  <2>4. UserInv(u)'
    BY <2>1, <2>2, <2>3 DEF UserInv, OneAtMost, Untouched
  <2>5. CallInv(a, u)'
    BY <2>1, <2>2, <2>3 DEF CallInv, At, FirebaseSteps, RowSteps, OnboardingSteps
  <2> QED
    BY <2>4, <2>5 DEF Established
<1>6. CASE MarkGeneral(a) \/ MarkUserDoc(a) \/ FindRow(a)
  <2>1. /\ Kept(u) /\ application'[u].status = application[u].status
        /\ task[a].pc \in { "general", "userdoc", "find" }
    BY <1>3, <1>6 DEF MarkGeneral, MarkUserDoc, FindRow, Kept, ApplicationSet, At
  <2>2. /\ Untouched(u) /\ application[u].status = task[a].decision
        /\ task[a].decision \in { "approved", "rejected" }
    BY <1>1, <2>1 DEF CallInv, FirebaseSteps
  <2>3. \/ At(a, "idle")'
        \/ /\ task'[a].decision = task[a].decision
           /\ \/ task'[a].pc \in { "userdoc", "find", "withdraw" }
              \/ task'[a].pc = "create" /\ u \in Vendors /\ task[a].decision = "approved"
              \/ task'[a].pc = "profile" /\ u \notin Vendors
    BY <1>3, <1>6, <2>2, IdleType DEF MarkGeneral, MarkUserDoc, FindRow, Goto, Finish, TaskStates, At
  <2>4. UserInv(u)' /\ Untouched(u)'
    BY <1>1, <2>1, <2>2, KeptUser
  <2>5. At(a, "idle")' \/ CallInv(a, u)'
    BY <1>2, <2>1, <2>2, <2>3, <2>4 DEF CallInv, At, FirebaseSteps, RowSteps, OnboardingSteps
  <2> QED
    BY <2>4, <2>5 DEF Established
<1>7. CASE CreateRestaurant(a)
  <2>1. /\ u \in Vendors /\ task[a].decision = "approved" /\ Untouched(u)
        /\ application[u].status = task[a].decision
    BY <1>1, <1>7 DEF CreateRestaurant, CallInv, At
  <2>2. /\ restaurant'[u].count = restaurant[u].count + 1 /\ UNCHANGED << application, row, profile >>
        /\ task'[a].pc = "restdoc" /\ task'[a].decision = task[a].decision
    BY <1>3, <1>7 DEF CreateRestaurant, Goto, RestaurantSet, TaskStates
  <2>3. restaurant'[u].count = 1
    BY <2>1, <2>2 DEF Untouched
  <2>4. UserInv(u)'
    BY <2>1, <2>2, <2>3 DEF UserInv, OneAtMost, Untouched
  <2>5. CallInv(a, u)'
    BY <1>2, <2>1, <2>2, <2>3 DEF CallInv, At, FirebaseSteps, RowSteps, OnboardingSteps
  <2> QED
    BY <2>4, <2>5 DEF Established
<1>8. CASE CreateRestDoc(a)
  <2>1. /\ Kept(u) /\ task[a].pc = "restdoc"
        /\ task'[a].pc = "grant" /\ task'[a].decision = task[a].decision
    BY <1>3, <1>8 DEF CreateRestDoc, Kept, Goto, At, TaskStates
  <2>2. application'[u].status # "pending" /\ task[a].decision \in { "approved", "rejected" }
    BY <1>1, <2>1 DEF CallInv, Kept, At, FirebaseSteps
  <2>3. CallInv(a, u)'
    BY <1>2, <2>1, <2>2 DEF CallInv, At, FirebaseSteps, RowSteps, OnboardingSteps
  <2> QED
    BY <1>1, <2>1, <2>3, KeptUser DEF Established, At
<1>9. CASE UpsertProfile(a)
  <2>1. /\ Untouched(u) /\ task[a].decision \in { "approved", "rejected" }
        /\ application[u].status = task[a].decision
    BY <1>1, <1>9 DEF UpsertProfile, CallInv, At, FirebaseSteps
  <2>2. /\ profile'[u] = "APPROVED" /\ UNCHANGED << application, row, restaurant >>
        /\ task'[a].pc = "grant" /\ task'[a].decision = task[a].decision
    BY <1>3, <1>9 DEF UpsertProfile, SetProfile, Goto, TaskStates
  <2>3. UserInv(u)'
    BY <1>2, <2>1, <2>2 DEF UserInv, OneAtMost, Untouched
  <2>4. CallInv(a, u)'
    BY <1>2, <2>1, <2>2 DEF CallInv, At, FirebaseSteps, RowSteps, OnboardingSteps
  <2> QED
    BY <2>2, <2>3, <2>4 DEF Established
<1>10. CASE GrantRole(a)
  <2>1. /\ application[u].status # "pending" /\ task[a].decision \in { "approved", "rejected" }
    BY <1>1, <1>10 DEF GrantRole, CallInv, At, FirebaseSteps
  <2>2. /\ row'[u].role = (IF u \in Vendors THEN "VENDOR" ELSE "DRIVER")
        /\ UNCHANGED << application, profile, restaurant >>
        /\ \/ At(a, "idle")'
           \/ task'[a].pc = "refresh" /\ task'[a].decision = task[a].decision
    <3>1. row'[u].role = (IF u \in Vendors THEN "VENDOR" ELSE "DRIVER")
      BY <1>3, <1>10 DEF GrantRole, SetRole, RowSet
    <3>2. Finish(a) \/ Goto(a, "refresh")
      BY <1>10 DEF GrantRole
    <3>3. ASSUME Goto(a, "refresh") PROVE task'[a].pc = "refresh" /\ task'[a].decision = task[a].decision
      BY <3>3, TaskGoto DEF Steps, FirebaseSteps
    <3>4. Finish(a) => At(a, "idle")'
      BY TaskFinish DEF At
    <3> QED
      BY <1>10, <3>1, <3>2, <3>3, <3>4 DEF GrantRole
  <2>3. UserInv(u)'
    BY <1>1, <1>2, <2>1, <2>2 DEF UserInv, OneAtMost
  <2>4. At(a, "idle")' \/ CallInv(a, u)'
    BY <1>2, <2>1, <2>2 DEF CallInv, At, FirebaseSteps, RowSteps, OnboardingSteps
  <2> QED
    BY <2>3, <2>4 DEF Established
<1>11. CASE RefreshDriverDoc(a)
  <2>1. Kept(u) /\ At(a, "idle")' 
    BY <1>3, <1>11, IdleType DEF RefreshDriverDoc, Kept, Finish, At
  <2> QED
    BY <1>1, <2>1, KeptUser DEF Established
<1>12. CASE Withdraw(a)
  <2>1. Untouched(u) /\ At(a, "withdraw") /\ At(a, "idle")'
    BY <1>1, <1>3, <1>12, IdleType DEF Withdraw, CallInv, At, Finish
  <2>2. Kept(u)
    BY <1>3, <1>12, <2>1 DEF Withdraw, Kept, Untouched, SetRestaurant, RestaurantSet
  <2> QED
    BY <1>1, <2>1, <2>2, KeptUser DEF Established, At
<1> QED
  BY <1>5, <1>6, <1>7, <1>8, <1>9, <1>10, <1>11, <1>12 DEF FirebaseStep

LEMMA RowEstablishes ==
  ASSUME TypeOK, TypeOK', NEW a \in Admins, NEW u \in Users, u = task[a].user, Applicant(u), RowStep(a)
  PROVE  Established(a, u)'
<1>0. ~At(a, "idle") /\ task[a].pc \in RowSteps
  BY DEF RowStep, AcceptDriver, PromoteDriver, MarkDriverDoc, ActivateRestaurant, OwnerRole, MarkOwnerDoc,
         MarkRestaurantDoc, WriteVendorStatus, MarkStatusDoc, MarkStatusOwner, At, RowSteps
<1>1. UserInv(u) /\ CallInv(a, u)
  BY <1>0, OwnBefore
<1>2. (u \in Vendors)' <=> u \in Vendors
  BY RowWrites, WritesFrame DEF Vendors
<1>3. /\ application \in [ Users -> ApplicationSet ] /\ row \in [ Users -> RowSet ]
      /\ profile \in [ Users -> ProfileStates ] /\ restaurant \in [ Users -> RestaurantSet ]
      /\ task \in [ Admins -> TaskStates ]
  BY DEF TypeOK, ApplicationSet, RowSet, RestaurantSet
<1>4. application[u].status # "pending"
  BY <1>0, <1>1 DEF CallInv
<1>5. CASE AcceptDriver(a)
  <2>1. /\ profile'[u] = IF task[a].decision = "approved" THEN "APPROVED" ELSE "REJECTED"
        /\ UNCHANGED << application, row, restaurant >>
    BY <1>3, <1>5 DEF AcceptDriver, SetProfile
  <2>2. task'[a].pc = "promote" /\ task'[a].decision = task[a].decision
    BY <1>5, TaskGoto DEF AcceptDriver, Steps, RowSteps
  <2>3. UserInv(u)'
    BY <1>1, <1>2, <1>4, <2>1 DEF UserInv, OneAtMost
  <2>4. CallInv(a, u)'
    BY <1>4, <2>1, <2>2 DEF CallInv, At, FirebaseSteps, RowSteps, OnboardingSteps
  <2> QED
    BY <2>2, <2>3, <2>4 DEF Established, At
<1>6. CASE PromoteDriver(a)
  <2>1. /\ row'[u].role = IF task[a].decision = "approved" THEN "DRIVER" ELSE "CUSTOMER"
        /\ UNCHANGED << application, profile, restaurant >>
    BY <1>3, <1>6 DEF PromoteDriver, SetRole, RowSet
  <2>2. task'[a].pc = "driverdoc"
    BY <1>6, TaskGoto DEF PromoteDriver, Steps, RowSteps
  <2>3. UserInv(u)'
    BY <1>1, <1>2, <1>4, <2>1 DEF UserInv, OneAtMost
  <2>4. CallInv(a, u)'
    BY <1>4, <2>1, <2>2 DEF CallInv, At, FirebaseSteps, RowSteps, OnboardingSteps
  <2> QED
    BY <2>1, <2>3, <2>4 DEF Established
<1>7. CASE OwnerRole(a)
  <2>1. /\ row'[u].role = "VENDOR" /\ UNCHANGED << application, profile, restaurant >>
    BY <1>3, <1>7 DEF OwnerRole, SetRole, RowSet
  <2>2. task'[a].pc = "ownerdoc"
    BY <1>7, TaskGoto DEF OwnerRole, Steps, RowSteps
  <2>3. UserInv(u)'
    BY <1>1, <1>2, <1>4, <2>1 DEF UserInv, OneAtMost
  <2>4. CallInv(a, u)'
    BY <1>4, <2>1, <2>2 DEF CallInv, At, FirebaseSteps, RowSteps, OnboardingSteps
  <2> QED
    BY <2>1, <2>3, <2>4 DEF Established
<1>8. CASE ActivateRestaurant(a)
  <2>1. Kept(u)
    BY <1>1, <1>3, <1>8 DEF ActivateRestaurant, SetRestaurant, RestaurantSet, Kept, CallInv, At
  <2>2. task'[a].pc \in { "ownerrole", "ownerdoc" }
    BY <1>8, TaskGoto DEF ActivateRestaurant, Steps, RowSteps
  <2>3. CallInv(a, u)'
    BY <1>4, <2>1, <2>2 DEF CallInv, Kept, At, FirebaseSteps, RowSteps, OnboardingSteps
  <2> QED
    BY <1>1, <2>1, <2>3, KeptUser DEF Established
<1>9. CASE \/ MarkDriverDoc(a) \/ MarkOwnerDoc(a) \/ MarkRestaurantDoc(a)
           \/ WriteVendorStatus(a) \/ MarkStatusDoc(a) \/ MarkStatusOwner(a)
  <2>1. Kept(u) 
    BY <1>3, <1>9 DEF MarkDriverDoc, MarkOwnerDoc, MarkRestaurantDoc, WriteVendorStatus, MarkStatusDoc,
                      MarkStatusOwner, SetRestaurant, RestaurantSet, Kept, At
  <2>2. \/ Finish(a) \/ \E pc \in { "restaurantdoc", "statusdoc", "statusowner" } : Goto(a, pc)
    BY <1>9 DEF MarkDriverDoc, MarkOwnerDoc, MarkRestaurantDoc, WriteVendorStatus, MarkStatusDoc,
                MarkStatusOwner
  <2>3. At(a, "idle")' \/ task'[a].pc \in { "restaurantdoc", "statusdoc", "statusowner" }
    BY <2>2, TaskFinish, TaskGoto DEF At, Steps, RowSteps
  <2>4. At(a, "idle")' \/ CallInv(a, u)'
    BY <1>4, <2>1, <2>3 DEF CallInv, Kept, At, FirebaseSteps, RowSteps, OnboardingSteps
  <2> QED
    BY <1>1, <2>1, <2>4, KeptUser DEF Established
<1> QED
  BY <1>5, <1>6, <1>7, <1>8, <1>9 DEF RowStep

LEMMA FailEstablishes ==
  ASSUME TypeOK, TypeOK', NEW a \in Admins, NEW u \in Users, u = task[a].user, ~At(a, "idle"),
         Applicant(u), Fail(a)
  PROVE  Established(a, u)'
<1>1. UserInv(u) /\ CallInv(a, u)
  BY OwnBefore
<1>2. Kept(u) /\ At(a, "idle")'
  BY TaskFinish DEF Fail, Kept, At
<1> QED
  BY <1>1, <1>2, KeptUser DEF Established

\* A call about an applicant begins when there is no other one, and finds what it
\* decides about.
LEMMA BeginsEstablishes ==
  ASSUME TypeOK, TypeOK', NEW a \in Admins, Begins(a), NEW u \in Users, task'[a].user = u,
         Writes(u), MayBegin(a, u), \A b \in Admins \ { a } : task'[b] = task[b],
         Alone(u), Applicant(u)
  PROVE  Applicant(u)'
<1>1. \A b \in Admins : ~Busy(b, u)
  BY DEF MayBegin, Alone, Busy
<1>2. u \notin Onboarders
  BY DEF Alone, Onboarders
<1>3. UserInv(u)
  BY DEF Applicant
<1>4. ASSUME \E v \in Drivers \cup Vendors, decision \in { "approved", "rejected" } : DecideApplication(a, v, decision)
      PROVE  Kept(u) /\ CallInv(a, u)'
  <2>1. PICK v \in Drivers \cup Vendors, decision \in { "approved", "rejected" } : DecideApplication(a, v, decision)
    BY <1>4
  <2>2. /\ v \in Users /\ Begin(a, v, decision, "mark") /\ application[v].status = "pending"
        /\ UNCHANGED << application, row, profile, restaurant >>
    BY <2>1 DEF DecideApplication, Drivers, Vendors
  <2>3. v = u /\ task'[a].pc = "mark" /\ task'[a].decision = decision
    BY <2>2, TaskBegin DEF Decisions, Steps, FirebaseSteps
  <2>4. CallInv(a, u)'
    BY <2>2, <2>3 DEF CallInv, At, FirebaseSteps, RowSteps, OnboardingSteps
  <2> QED
    BY <2>2, <2>4 DEF Kept
<1>5. ASSUME \E v \in Users, decision \in { "approved", "rejected" } :
             DecideDriver(a, v, decision) \/ DecideRestaurant(a, v, decision)
      PROVE  Kept(u) /\ CallInv(a, u)'
  <2>1. PICK v \in Users, decision \in { "approved", "rejected" } :
          DecideDriver(a, v, decision) \/ DecideRestaurant(a, v, decision)
    BY <1>5
  <2>2. /\ \/ profile[v] # "none" /\ Begin(a, v, decision, "accept")
           \/ restaurant[v].count > 0 /\ Begin(a, v, decision, "activate")
        /\ UNCHANGED << application, row, profile, restaurant >>
    BY <2>1 DEF DecideDriver, DecideRestaurant
  <2>3. /\ v = u /\ task'[a].pc \in { "accept", "activate" }
        /\ task'[a].pc = "activate" => restaurant[u].count > 0
    <3>1. "accept" \in Steps /\ "activate" \in Steps /\ decision \in Decisions
      BY DEF Decisions, Steps, RowSteps
    <3>2. CASE profile[v] # "none" /\ Begin(a, v, decision, "accept")
      BY <3>1, <3>2, TaskBegin
    <3>3. CASE restaurant[v].count > 0 /\ Begin(a, v, decision, "activate")
      BY <3>1, <3>3, TaskBegin
    <3> QED
      BY <2>2, <3>2, <3>3
  <2>4. application[u].status # "pending"
    BY <1>3, <2>2, <2>3 DEF UserInv, Untouched
  <2>5. CallInv(a, u)'
    BY <2>2, <2>3, <2>4 DEF CallInv, At, FirebaseSteps, RowSteps, OnboardingSteps
  <2> QED
    BY <2>2, <2>5 DEF Kept
<1>6. ASSUME \E v \in Users, status \in { "ACTIVE", "SUSPENDED" } : UpdateVendorStatus(a, v, status)
      PROVE  Kept(u) /\ CallInv(a, u)'
  <2>1. PICK v \in Users, status \in { "ACTIVE", "SUSPENDED" } : UpdateVendorStatus(a, v, status)
    BY <1>6
  <2>2. /\ restaurant[v].count > 0 /\ UNCHANGED << application, row, profile, restaurant >>
        /\ task'[a].pc = "vendorstatus" /\ task'[a].user = v
    BY <2>1, IdleType DEF UpdateVendorStatus, TypeOK, TaskStates
  <2>3. application[u].status # "pending"
    BY <1>3, <2>2 DEF UserInv, Untouched
  <2>4. CallInv(a, u)'
    BY <2>2, <2>3 DEF CallInv, At, FirebaseSteps, RowSteps, OnboardingSteps
  <2> QED
    BY <2>2, <2>4 DEF Kept
<1>7. ASSUME \E v \in Onboarders : SubmitDriver(a, v) \/ ApproveOnboarding(a, v)
      PROVE  Kept(u) /\ CallInv(a, u)'
  <2>1. PICK v \in Onboarders : SubmitDriver(a, v) \/ ApproveOnboarding(a, v)
    BY <1>7
  <2>2. \A t : \/ t = [ IdleTask EXCEPT !.pc = "applied", !.user = v ]
               \/ t = [ IdleTask EXCEPT !.pc = "begin", !.user = v, !.role = row[v].role ]
               => t.user = v
    BY IdleType DEF TaskStates
  <2>3. task'[a].user = v
    BY <2>1, <2>2 DEF SubmitDriver, ApproveOnboarding, TypeOK
  <2> QED
    BY <1>2, <2>1, <2>3
<1>8. Kept(u) /\ CallInv(a, u)'
  BY <1>4, <1>5, <1>6, <1>7 DEF Begins
<1>9. Exclusive(u)' /\ \A b \in Admins : Busy(b, u)' => b = a
  BY <1>1 DEF Exclusive, Busy, At
<1> QED
  BY <1>3, <1>8, <1>9, KeptUser DEF Applicant

LEMMA ApplicantInductive ==
  ASSUME TypeOK, TypeOK', ApplicantInv, [Next]_vars PROVE ApplicantInv'
<1> SUFFICES ASSUME NEW u \in Users, Alone(u)' PROVE Applicant(u)'
  BY DEF ApplicantInv
<1>1. ASSUME NEW v \in Users, Writes(v) PROVE Applicant(u)
  BY <1>1, WritesFrame DEF ApplicantInv, Alone
<1>2. ASSUME NEW a \in Admins, Begins(a) PROVE Applicant(u)'
  <2>1. PICK v \in Users : /\ Writes(v) /\ At(a, "idle") /\ MayBegin(a, v) /\ task'[a].user = v
                           /\ \A b \in Admins \ { a } : task'[b] = task[b]
    BY <1>2, BeginsWrites
  <2>2. Applicant(u) /\ Alone(u)
    BY <1>1, <2>1, WritesFrame DEF Alone
  <2>3. CASE v = u
    BY <1>2, <2>1, <2>2, <2>3, BeginsEstablishes
  <2>4. CASE v # u
    <3>1. ~Busy(a, u)
      BY <2>1 DEF Busy
    <3> QED
      BY <2>1, <2>2, <2>4, <3>1, Elsewhere
  <2> QED
    BY <2>3, <2>4
<1>3. ASSUME NEW a \in Admins, FirebaseStep(a) \/ RowStep(a) \/ OnboardingStep(a) \/ Fail(a) PROVE Applicant(u)'
  <2>1. /\ task[a].user \in Users /\ Writes(task[a].user) /\ Proceeds(a)
    BY <1>3, FirebaseWrites, RowWrites, OnboardingWrites, FailWrites DEF TypeOK, TaskStates
  <2>2. Applicant(u) /\ Alone(u)
    BY <1>1, <2>1, WritesFrame DEF Alone
  <2>3. CASE task[a].user # u
    <3>1. ~Busy(a, u)
      BY <2>3 DEF Busy
    <3>2. \A b \in Admins : \/ task'[b] = task[b]
                            \/ ~Busy(b, u) /\ (task'[b].pc = "idle" \/ task'[b].user = task[a].user)
      BY <2>1, <3>1 DEF Proceeds
    <3> QED
      BY <2>1, <2>2, <2>3, <3>2, Elsewhere
  <2>4. CASE task[a].user = u
    <3>1. ~At(a, "idle")
      BY <1>3, ApplicationsAssumption
         DEF FirebaseStep, MarkApplication, MarkGeneral, MarkUserDoc, FindRow, CreateRestaurant, CreateRestDoc,
             UpsertProfile, GrantRole, RefreshDriverDoc, Withdraw, RowStep, AcceptDriver, PromoteDriver,
             MarkDriverDoc, ActivateRestaurant, OwnerRole, MarkOwnerDoc, MarkRestaurantDoc, WriteVendorStatus,
             MarkStatusDoc, MarkStatusOwner, OnboardingStep, SubmitDriverProfile, BeginApproval, SyncToFirebase,
             ApprovalTimesOut, LateLink, CommitApproval, Fail, At, Steps, FirebaseSteps, RowSteps,
             OnboardingSteps
    <3>2. ~OnboardingStep(a)
      <4>1. CallInv(a, u)
        BY <2>2, <2>4, <3>1, OwnBefore
      <4> QED
        BY <4>1 DEF CallInv, OnboardingStep, SubmitDriverProfile, BeginApproval, SyncToFirebase,
                    ApprovalTimesOut, LateLink, CommitApproval, OnboardingSteps, At
    <3>3. Established(a, u)'
      BY <1>3, <2>2, <2>4, <3>1, <3>2, FirebaseEstablishes, RowEstablishes, FailEstablishes
    <3> QED
      BY <2>1, <2>2, <2>4, <3>1, <3>3, OwnStep
  <2> QED
    BY <2>3, <2>4
<1>4. ASSUME NEW v \in Onboarders, SubmitRestaurant(v) \/ RejectOnboarding(v) PROVE Applicant(u)'
  <2>1. v \in Users /\ Writes(v) /\ UNCHANGED task
    BY <1>4, AtOnceWrites
  <2>2. Applicant(u) /\ Alone(u)
    BY <1>1, <2>1, WritesFrame DEF Alone
  <2>3. v # u
    BY <2>2 DEF Alone, Onboarders
  <2> QED
    BY <2>1, <2>2, <2>3, Elsewhere
<1>5. CASE UNCHANGED vars
  <2>1. Applicant(u)
    BY <1>5 DEF vars, ApplicantInv, Alone
  <2>2. /\ \A a \in Admins : Busy(a, u)' <=> Busy(a, u)
        /\ \A a \in Admins : CallInv(a, u)' <=> CallInv(a, u)
        /\ UserInv(u)' <=> UserInv(u)
    BY <1>5 DEF vars, Busy, At, CallInv, UserInv, Untouched, OneAtMost, Vendors
  <2> QED
    BY <2>1, <2>2 DEF Applicant, Exclusive
<1> QED
  BY <1>2, <1>3, <1>4, <1>5 DEF Next

LEMMA ApplicantAlways == Spec => [](TypeOK /\ ApplicantInv)
<1>1. Init => TypeOK /\ ApplicantInv
  BY TypeInit, ApplicantInit
<1>2. (TypeOK /\ ApplicantInv) /\ [Next]_vars => (TypeOK /\ ApplicantInv)'
  BY TypeInductive, ApplicantInductive
<1> QED
  BY <1>1, <1>2, PTL DEF Spec

\* An applicant of the app has the restaurant the application was for, once, and none
\* before it was approved: wherever the calls stop that decide about vendors
\* (approveFirebaseVendorApplication, approveRestaurant, updateVendorStatus), if no two
\* of them are about the same vendor at a time.
THEOREM OneRestaurant ==
  ASSUME "vendor" \notin Overlapping PROVE Spec => []ApplicationsInv
<1>1. TypeOK /\ ApplicantInv => ApplicationsInv
  <2> SUFFICES ASSUME ApplicantInv, NEW u \in Vendors PROVE OneAtMost(u)
    BY DEF ApplicationsInv, OneRestaurantIfApproved, OneAtMost
  <2>1. u \in Users /\ Alone(u)
    BY DEF Vendors, Alone
  <2> QED
    BY <2>1 DEF ApplicantInv, Applicant, UserInv
<1> QED
  BY <1>1, ApplicantAlways, PTL

(***************************************************************************)
(* MenuSync                                                                *)
(***************************************************************************)

(***************************************************************************)
(* The kinds of objects, and what is read, scheduled and cleared           *)
(***************************************************************************)

LEMMA KindsOfObjects ==
  /\ Absent \in Values /\ Contents \subseteq Values /\ Absent \notin Contents /\ Values \subseteq Nat
  /\ Objects \subseteq Slots /\ "job" \in Slots /\ "admin" \in Slots
  /\ "job" \notin Objects /\ "admin" \notin Objects
  /\ \A o \in Objects \ Restaurants : Parent[o] \in Objects /\ (o \in Sections \/ o \in Items)
  /\ \A s \in Sections : s \in Objects /\ Parent[s] \in Restaurants /\ s \notin Restaurants /\ s \notin Items
  /\ \A i \in Items : i \in Objects /\ Parent[i] \in Sections /\ i \notin Restaurants /\ i \notin Sections
  /\ \A r \in Restaurants : r \in Objects /\ r \notin Sections /\ r \notin Items
BY MenuSyncAssumption DEF Objects, Slots, Values, Absent

LEMMA IdleTypes ==
  /\ IdleSync \in SyncStates /\ IdleSync.pc = "idle"
  /\ \A next \in { "pull", "reconcile" } :
       IdleJob(next) \in JobStates /\ IdleJob(next).pc = "idle" /\ IdleJob(next).todo = {}
<1>1. (CHOOSE o \in Objects : TRUE) \in Objects
  BY MenuSyncAssumption
<1> QED
  BY <1>1, KindsOfObjects DEF IdleSync, SyncStates, IdleJob, JobStates, Nothing

LEMMA CascadeIs ==
  ASSUME NEW o \in Objects \ Restaurants
  PROVE  /\ o \in Cascade(o) /\ Cascade(o) \subseteq Objects \ Restaurants
         /\ \A x \in Objects : x \in Cascade(o) <=> x = o \/ (x \in Items /\ Parent[x] = o)
BY KindsOfObjects DEF Cascade, ItemsOf

LEMMA WithoutIs ==
  ASSUME NEW f \in [ Objects -> Values ], NEW S
  PROVE  /\ Without(f, S) \in [ Objects -> Values ]
         /\ \A o \in Objects : Without(f, S)[o] = IF o \in S THEN Absent ELSE f[o]
BY KindsOfObjects DEF Without

LEMMA SyncDocIs ==
  ASSUME NEW o \in Objects, NEW v \in Values
  PROVE  \/ SyncDoc(o, v) = IdleSync /\ o \notin Restaurants /\ (~ParentThere(o) \/ rows[o] = v)
         \/ SyncDoc(o, v) = Reading(o, v) /\ (o \in Restaurants \/ rows[o] # v) /\ ParentThere(o)
<1>1. CASE o \in Restaurants
  BY <1>1, KindsOfObjects DEF SyncDoc, SyncRestaurant, ParentThere
<1>2. CASE o \in Sections
  <2>1. SyncDoc(o, v) = SyncMenuSection(o, v)
    BY <1>2, KindsOfObjects DEF SyncDoc
  <2> QED
    BY <2>1, <1>2, KindsOfObjects DEF SyncMenuSection
<1>3. CASE o \in Items
  <2>1. SyncDoc(o, v) = SyncFoodItem(o, v)
    BY <1>3, KindsOfObjects DEF SyncDoc
  <2> QED
    BY <2>1, <1>3, KindsOfObjects DEF SyncFoodItem
<1> QED
  BY <1>1, <1>2, <1>3, KindsOfObjects

LEMMA ReadingIs ==
  ASSUME NEW o \in Objects, NEW v \in Values
  PROVE  /\ Reading(o, v) \in SyncStates /\ Reading(o, v).pc = "write" /\ Reading(o, v).of = o
         /\ Reading(o, v).value = v /\ Reading(o, v).existing = (rows[o] # Absent)
BY DEF Reading, SyncStates

LEMMA MirrorOfIs ==
  ASSUME NEW o \in Objects, NEW v \in Contents
  PROVE  /\ MirrorOf(o, v) \in Mirrors /\ MirrorOf(o, v).op = "set" /\ MirrorOf(o, v).of = o
         /\ MirrorOf(o, v).value = v /\ (MirrorOf(o, v).resolved <=> o \notin Items)
<1>1. CASE o \in Items
  <2>1. MirrorOf(o, v) = Mirror("set", o, v, FALSE)
    BY <1>1, KindsOfObjects DEF MirrorOf, ItemMirror
  <2> QED
    BY <2>1, <1>1, KindsOfObjects DEF Mirror, Mirrors
<1>2. CASE o \notin Items
  <2>1. MirrorOf(o, v) = Mirror("set", o, v, TRUE)
    BY <1>2, KindsOfObjects DEF MirrorOf, RestaurantMirror, SectionMirror, Objects
  <2> QED
    BY <2>1, <1>2, KindsOfObjects DEF Mirror, Mirrors
<1> QED
  BY <1>1, <1>2

(***************************************************************************)
(* The actions, as the proofs tell them apart                              *)
(***************************************************************************)

\* What a statement of the API schedules for the row it writes.
Scheduled(o, v) ==
  { { MirrorOf(o, v) } } \cup (IF o \in Sections THEN {} ELSE { { MirrorOf(o, v), Mirror("fresh", o, Absent, FALSE) } })

\* What it schedules for a row it deletes.
DeleteOf(o) == IF o \in Sections THEN SectionDelete(o) ELSE ItemDelete(o)

Call ==
  \/ \E o \in Objects, v \in Contents : \E ms \in Scheduled(o, v) : Creates(o, v, ms) \/ Updates(o, v, ms)
  \/ \E o \in Objects \ Restaurants : Deletes(o, DeleteOf(o))

Write == \E o \in Objects : (o \notin Restaurants /\ AppRemove(o)) \/ \E v \in Contents : AppSet(o, v)

Decide ==
  \/ CompareVendorSync
  \/ \E o \in Objects \ Restaurants : AdminPush(o) \/ AdminRemove(o)
  \/ \E s \in Sections : PullSection(s)
  \/ \E i \in Items : PullItem(i)
  \/ AdminWrite

Arrive ==
  \/ \E m \in BagToSet(mirrors) : MirrorResolve(m) \/ MirrorWrite(m)
  \/ \E o \in Objects : Changed(o)
  \/ \E k \in Objects \cup { "job" } : SyncWrite(k)
  \/ \E s \in Sections : SectionRemoved(s) \/ CleanItems(s)
  \/ \E i \in Items : ItemRemoved(i)

Work == JobStart \/ JobRows \/ (\E t \in job.todo : JobNext(t)) \/ JobAdvance

Faults == (\E m \in BagToSet(mirrors) : MirrorLost(m)) \/ Restart

\* Every step is one of these.
LEMMA MenuSteps ==
  ASSUME [MenuNext]_menuVars
  PROVE  Call \/ Write \/ Decide \/ Arrive \/ Work \/ Faults \/ UNCHANGED menuVars
<1>1. ASSUME Calls PROVE Call
  <2>1. ASSUME NEW r \in Restaurants, NEW v \in Contents,
               CreateRestaurantRow(r, v) \/ UpdateRestaurant(r, v)
        PROVE  Call
    <3>1. r \in Objects /\ r \notin Sections /\ RestaurantMirror(r, v) = MirrorOf(r, v)
      BY KindsOfObjects DEF MirrorOf
    <3>2. { MirrorOf(r, v) } \in Scheduled(r, v)
          /\ { MirrorOf(r, v), Mirror("fresh", r, Absent, FALSE) } \in Scheduled(r, v)
      BY <3>1 DEF Scheduled
    <3>3. \E ms \in Scheduled(r, v) : Creates(r, v, ms) \/ Updates(r, v, ms)
      BY <2>1, <3>1, <3>2 DEF CreateRestaurantRow, UpdateRestaurant, RestaurantDirect
    <3> QED
      BY <3>1, <3>3 DEF Call
  <2>2. ASSUME NEW s \in Sections, NEW v \in Contents, CreateSection(s, v) \/ UpdateSection(s, v)
        PROVE  Call
    <3>1. s \in Objects /\ SectionMirror(s, v) = MirrorOf(s, v) /\ { MirrorOf(s, v) } \in Scheduled(s, v)
      BY KindsOfObjects DEF MirrorOf, Scheduled
    <3> QED
      BY <2>2, <3>1 DEF CreateSection, UpdateSection, Call
  <2>3. ASSUME NEW i \in Items, NEW v \in Contents,
               CreateFoodItem(i, v) \/ CreateFoodItemsBulk(i, v) \/ UpdateFoodItem(i, v) \/ ToggleAvailability(i, v)
        PROVE  Call
    <3>1. i \in Objects /\ i \notin Sections /\ ItemMirror(i, v) = MirrorOf(i, v)
      BY KindsOfObjects DEF MirrorOf
    <3>2. { MirrorOf(i, v) } \in Scheduled(i, v)
          /\ { MirrorOf(i, v), Mirror("fresh", i, Absent, FALSE) } \in Scheduled(i, v)
      BY <3>1 DEF Scheduled
    <3>3. \E ms \in Scheduled(i, v) : Creates(i, v, ms) \/ Updates(i, v, ms)
      BY <2>3, <3>1, <3>2
         DEF CreateFoodItem, CreateFoodItemsBulk, UpdateFoodItem, ToggleAvailability, DirectMirror
    <3> QED
      BY <3>1, <3>3 DEF Call
  <2>4. ASSUME NEW s \in Sections, DeleteSection(s) PROVE Call
    BY <2>4, KindsOfObjects DEF DeleteSection, DeleteOf, Call
  <2>5. ASSUME NEW i \in Items, DeleteFoodItem(i) PROVE Call
    BY <2>5, KindsOfObjects DEF DeleteFoodItem, DeleteOf, Call
  <2> QED
    BY <1>1, <2>1, <2>2, <2>3, <2>4, <2>5 DEF Calls
<1>2. ASSUME AppWrites PROVE Write
  BY <1>2 DEF AppWrites, Write, AppRemove
<1>3. ASSUME Admin PROVE Decide
  BY <1>3, KindsOfObjects DEF Admin, Decide
<1>4. ASSUME NEW o \in Objects, MirrorStep(o) \/ Listener(o) PROVE Arrive
  BY <1>4 DEF MirrorStep, Listener, Arrive
<1>5. ASSUME JobStep PROVE Work \/ Arrive
  BY <1>5 DEF JobStep, Work, Arrive
<1> QED
  BY <1>1, <1>2, <1>3, <1>4, <1>5 DEF MenuNext, Decide, Faults

(***************************************************************************)
(* The type of the state                                                   *)
(***************************************************************************)

\* The mirrors are a bag.
TypeInv == MenuTypeOK /\ IsABag(mirrors)

LEMMA ScenarioType ==
  ASSUME scenario \in Scenarios
  PROVE  scenario.inputs \in Nat /\ scenario.faults \in Nat /\ scenario.rushed \in Nat
         /\ scenario.existing \subseteq Objects
BY MenuSyncAssumption

LEMMA InputIs ==
  ASSUME TypeInv, NEW operation, NEW f, Input(operation, f), \A o \in Objects \cap DOMAIN f : f[o] \in Values
  PROVE  /\ scenario' = scenario /\ faults' = faults /\ rushed' = rushed /\ inputs' \in 0 .. scenario'.inputs
         /\ expected' \in [ Objects -> Values ] /\ calm' \in BOOLEAN /\ calm' = (calm /\ Quiet)
         /\ \A o \in Objects : expected'[o] = IF o \in DOMAIN f THEN f[o] ELSE expected[o]
<1>1. scenario' = scenario /\ faults' = faults /\ rushed' = rushed /\ inputs < scenario.inputs
      /\ inputs' = inputs + 1 /\ calm' = (calm /\ Quiet)
  BY DEF Input
<1>2. inputs' \in 0 .. scenario'.inputs
  BY <1>1, ScenarioType DEF TypeInv, MenuTypeOK
<1>3. expected' = [ o \in Objects |-> IF o \in DOMAIN f THEN f[o] ELSE expected[o] ]
  BY DEF Input
<1>4. \A o \in Objects : (IF o \in DOMAIN f THEN f[o] ELSE expected[o]) \in Values
  BY DEF TypeInv, MenuTypeOK
<1> QED
  BY <1>1, <1>2, <1>3, <1>4 DEF TypeInv, MenuTypeOK, Quiet

LEMMA OnlyIs == ASSUME NEW o, NEW v PROVE DOMAIN Only(o, v) = { o } /\ Only(o, v)[o] = v
BY DEF Only

LEMMA OnlyInput ==
  ASSUME TypeInv, NEW operation, NEW o, NEW v \in Values, Input(operation, Only(o, v))
  PROVE  /\ scenario' = scenario /\ faults' = faults /\ rushed' = rushed /\ inputs' \in 0 .. scenario'.inputs
         /\ expected' \in [ Objects -> Values ] /\ calm' \in BOOLEAN /\ calm' = (calm /\ Quiet)
         /\ \A x \in Objects : expected'[x] = IF x = o THEN v ELSE expected[x]
<1> DEFINE f == Only(o, v)
<1>2. DOMAIN f = { o } /\ f[o] = v /\ Input(operation, f)
  BY OnlyIs
<1> HIDE DEF f
<1>1. Input(operation, f) /\ (\A x \in Objects \cap DOMAIN f : f[x] \in Values)
  BY <1>2
<1>3. /\ scenario' = scenario /\ faults' = faults /\ rushed' = rushed /\ inputs' \in 0 .. scenario'.inputs
      /\ expected' \in [ Objects -> Values ] /\ calm' \in BOOLEAN /\ calm' = (calm /\ Quiet)
      /\ \A x \in Objects : expected'[x] = IF x \in DOMAIN f THEN f[x] ELSE expected[x]
  BY <1>1, InputIs
<1> QED
  BY <1>2, <1>3

LEMMA CascadeInput ==
  ASSUME TypeInv, NEW operation, NEW o, Input(operation, [ x \in Cascade(o) |-> Absent ])
  PROVE  /\ scenario' = scenario /\ faults' = faults /\ rushed' = rushed /\ inputs' \in 0 .. scenario'.inputs
         /\ expected' \in [ Objects -> Values ] /\ calm' \in BOOLEAN /\ calm' = (calm /\ Quiet)
         /\ \A x \in Objects : expected'[x] = IF x \in Cascade(o) THEN Absent ELSE expected[x]
<1> DEFINE f == [ x \in Cascade(o) |-> Absent ]
<1>1. Input(operation, f) /\ (\A x \in Objects \cap DOMAIN f : f[x] \in Values)
  BY KindsOfObjects
<1>2. DOMAIN f = Cascade(o) /\ \A x \in Cascade(o) : f[x] = Absent
  OBVIOUS
<1> HIDE DEF f
<1>3. /\ scenario' = scenario /\ faults' = faults /\ rushed' = rushed /\ inputs' \in 0 .. scenario'.inputs
      /\ expected' \in [ Objects -> Values ] /\ calm' \in BOOLEAN /\ calm' = (calm /\ Quiet)
      /\ \A x \in Objects : expected'[x] = IF x \in DOMAIN f THEN f[x] ELSE expected[x]
  BY <1>1, InputIs
<1> QED
  BY <1>2, <1>3

LEMMA ScheduleIs ==
  ASSUME TypeInv, NEW ms, ms \subseteq Mirrors, Schedule(ms)
  PROVE  IsABag(mirrors') /\ BagToSet(mirrors') = BagToSet(mirrors) \cup ms /\ BagToSet(mirrors') \subseteq Mirrors
BY BagPlus DEF TypeInv, MenuTypeOK, Schedule

LEMMA PutDocIs ==
  ASSUME TypeInv, NEW o \in Objects, NEW v \in Values, PutDoc(o, v)
  PROVE  /\ docs' \in [ Objects -> Values ] /\ inbox' \in [ Objects -> Seq(Values) ]
         /\ \A x \in Objects : docs'[x] = IF x = o THEN v ELSE docs[x]
         /\ \A x \in Objects : inbox'[x] = IF x = o THEN Append(inbox[x], v) ELSE inbox[x]
BY DEF PutDoc, TypeInv, MenuTypeOK

LEMMA RemoveDocsIs ==
  ASSUME TypeInv, NEW S, RemoveDocs(S)
  PROVE  /\ docs' \in [ Objects -> Values ] /\ inbox' \in [ Objects -> Seq(Values) ]
         /\ \A x \in Objects : docs'[x] = IF x \in S THEN Absent ELSE docs[x]
         /\ \A x \in Objects :
              inbox'[x] = IF x \in S /\ docs[x] # Absent THEN Append(inbox[x], Absent) ELSE inbox[x]
<1>1. docs' = Without(docs, S) /\ docs \in [ Objects -> Values ]
  BY DEF RemoveDocs, TypeInv, MenuTypeOK
<1>2. inbox' = [ x \in Objects |-> IF x \in S /\ docs[x] # Absent THEN Append(inbox[x], Absent) ELSE inbox[x] ]
  BY DEF RemoveDocs
<1>3. \A x \in Objects : (IF x \in S /\ docs[x] # Absent THEN Append(inbox[x], Absent) ELSE inbox[x]) \in Seq(Values)
  BY KindsOfObjects, AppendLast DEF TypeInv, MenuTypeOK
<1> QED
  BY <1>1, <1>2, <1>3, WithoutIs

LEMMA MirrorIs ==
  ASSUME NEW op \in { "set", "fresh", "delete" }, NEW o \in Objects, NEW v \in Values, NEW b \in BOOLEAN
  PROVE  /\ Mirror(op, o, v, b) \in Mirrors /\ Mirror(op, o, v, b).op = op /\ Mirror(op, o, v, b).of = o
         /\ Mirror(op, o, v, b).value = v /\ Mirror(op, o, v, b).resolved = b
BY DEF Mirror, Mirrors

LEMMA ScheduledIs ==
  ASSUME NEW o \in Objects, NEW v \in Contents, NEW ms \in Scheduled(o, v)
  PROVE  /\ ms \subseteq Mirrors /\ MirrorOf(o, v) \in ms
         /\ \A m \in ms : m = MirrorOf(o, v) \/ (o \notin Sections /\ m = Mirror("fresh", o, Absent, FALSE))
<1>1. MirrorOf(o, v) \in Mirrors /\ Mirror("fresh", o, Absent, FALSE) \in Mirrors
  BY MirrorOfIs, MirrorIs, KindsOfObjects
<1> QED
  BY <1>1 DEF Scheduled

LEMMA DeleteOfIs ==
  ASSUME NEW o \in Objects \ Restaurants
  PROVE  /\ DeleteOf(o) \in Mirrors /\ DeleteOf(o).op = "delete" /\ DeleteOf(o).of = o
         /\ DeleteOf(o).resolved <=> o \in Sections
<1>1. CASE o \in Sections
  <2>1. DeleteOf(o) = Mirror("delete", o, Absent, TRUE)
    BY <1>1 DEF DeleteOf, SectionDelete
  <2> QED
    BY <2>1, <1>1, KindsOfObjects DEF Mirror, Mirrors
<1>2. CASE o \notin Sections
  <2>1. DeleteOf(o) = Mirror("delete", o, Absent, FALSE)
    BY <1>2 DEF DeleteOf, ItemDelete
  <2> QED
    BY <2>1, <1>2, KindsOfObjects DEF Mirror, Mirrors
<1> QED
  BY <1>1, <1>2

LEMMA InitType == MenuInit => TypeInv
<1> SUFFICES ASSUME MenuInit PROVE TypeInv
  OBVIOUS
<1>1. scenario \in Scenarios /\ given = scenario.existing /\ inputs = 0 /\ faults = 0 /\ rushed = 0
  BY DEF MenuInit
<1>2. given \subseteq Objects /\ inputs \in 0 .. scenario.inputs /\ faults \in 0 .. scenario.faults
      /\ rushed \in 0 .. scenario.rushed
  BY <1>1, ScenarioType
<1>3. rows \in [ Objects -> Values ] /\ docs = rows /\ expected = rows
  <2>1. (CHOOSE c \in Contents : TRUE) \in Values
    BY MenuSyncAssumption, KindsOfObjects
  <2> QED
    BY <2>1, KindsOfObjects DEF MenuInit
<1>4. inbox \in [ Objects -> Seq(Values) ] /\ calm \in BOOLEAN /\ report \in [ Objects -> { "none" } ]
  BY DEF MenuInit
<1>5. mirrors = EmptyBag /\ sync \in [ Slots -> { IdleSync } ] /\ job = IdleJob("pull")
  BY DEF MenuInit
<1> QED
  BY <1>1, <1>2, <1>3, <1>4, <1>5, IdleTypes, BagNone DEF TypeInv, MenuTypeOK

LEMMA CallType == ASSUME TypeInv, Call PROVE TypeInv'
<1>1. ASSUME NEW o \in Objects, NEW v \in Contents, NEW ms \in Scheduled(o, v), Creates(o, v, ms) \/ Updates(o, v, ms)
      PROVE  TypeInv'
  <2>1. v \in Values /\ Input("api", Only(o, v)) /\ Schedule(ms) /\ rows' = [ rows EXCEPT ![o] = v ]
        /\ given' \in { given, given \cup { o } } /\ UNCHANGED << docs, inbox, sync, job, report >>
    BY <1>1, KindsOfObjects DEF Creates, Updates
  <2>2. IsABag(mirrors') /\ BagToSet(mirrors') \subseteq Mirrors
    BY <2>1, ScheduleIs, ScheduledIs
  <2>3. /\ scenario' = scenario /\ faults' = faults /\ rushed' = rushed /\ inputs' \in 0 .. scenario'.inputs
        /\ expected' \in [ Objects -> Values ] /\ calm' \in BOOLEAN
    BY <2>1, OnlyInput
  <2>4. rows' \in [ Objects -> Values ] /\ given' \subseteq Objects
    BY <2>1 DEF TypeInv, MenuTypeOK
  <2> QED
    BY <2>1, <2>2, <2>3, <2>4 DEF TypeInv, MenuTypeOK
<1>2. ASSUME NEW o \in Objects \ Restaurants, Deletes(o, DeleteOf(o)) PROVE TypeInv'
  <2>1. Input("api", [ x \in Cascade(o) |-> Absent ]) /\ Schedule({ DeleteOf(o) }) /\ rows' = Without(rows, Cascade(o))
        /\ UNCHANGED << docs, given, inbox, sync, job, report >>
    BY <1>2 DEF Deletes
  <2>2. IsABag(mirrors') /\ BagToSet(mirrors') \subseteq Mirrors
    BY <2>1, ScheduleIs, DeleteOfIs
  <2>4. /\ scenario' = scenario /\ faults' = faults /\ rushed' = rushed /\ inputs' \in 0 .. scenario'.inputs
        /\ expected' \in [ Objects -> Values ] /\ calm' \in BOOLEAN
    BY <2>1, CascadeInput
  <2>5. rows' \in [ Objects -> Values ]
    BY <2>1, WithoutIs DEF TypeInv, MenuTypeOK
  <2> QED
    BY <2>1, <2>2, <2>4, <2>5 DEF TypeInv, MenuTypeOK
<1> QED
  BY <1>1, <1>2 DEF Call

LEMMA WriteType == ASSUME TypeInv, Write PROVE TypeInv'
<1>1. ASSUME NEW o \in Objects, NEW v \in Contents, AppSet(o, v) PROVE TypeInv'
  <2>1. v \in Values /\ Input("app", Only(o, v)) /\ PutDoc(o, v) /\ given' = given \cup { o }
        /\ UNCHANGED << rows, mirrors, sync, job, report >>
    BY <1>1, KindsOfObjects DEF AppSet
  <2>2. /\ scenario' = scenario /\ faults' = faults /\ rushed' = rushed /\ inputs' \in 0 .. scenario'.inputs
        /\ expected' \in [ Objects -> Values ] /\ calm' \in BOOLEAN
    BY <2>1, OnlyInput
  <2>3. docs' \in [ Objects -> Values ] /\ inbox' \in [ Objects -> Seq(Values) ]
    BY <2>1, PutDocIs
  <2> QED
    BY <2>1, <2>2, <2>3 DEF TypeInv, MenuTypeOK
<1>2. ASSUME NEW o \in Objects, o \notin Restaurants, AppRemove(o) PROVE TypeInv'
  <2>1. Input("app", [ x \in Cascade(o) |-> Absent ]) /\ RemoveDocs({ o }) /\ UNCHANGED << rows, given, mirrors, sync, job, report >>
    BY <1>2 DEF AppRemove
  <2>3. /\ scenario' = scenario /\ faults' = faults /\ rushed' = rushed /\ inputs' \in 0 .. scenario'.inputs
        /\ expected' \in [ Objects -> Values ] /\ calm' \in BOOLEAN
    BY <2>1, CascadeInput
  <2>4. docs' \in [ Objects -> Values ] /\ inbox' \in [ Objects -> Seq(Values) ]
    BY <2>1, RemoveDocsIs
  <2> QED
    BY <2>1, <2>3, <2>4 DEF TypeInv, MenuTypeOK
<1> QED
  BY <1>1, <1>2 DEF Write

LEMMA DecideType == ASSUME TypeInv, Decide PROVE TypeInv'
<1>1. ASSUME CompareVendorSync PROVE TypeInv'
  <2>1. report' = [ o \in Objects |-> IF o \in Restaurants THEN "none" ELSE Issue(o) ]
        /\ UNCHANGED << rows, docs, given, mirrors, inbox, sync, job, history >>
    BY <1>1 DEF CompareVendorSync
  <2>2. \A o \in Objects : Issue(o) \in { "none", "missing_in_firestore", "missing_in_postgres", "mismatch" }
    BY DEF Issue
  <2> QED
    BY <2>1, <2>2 DEF TypeInv, MenuTypeOK, history
<1>2. ASSUME NEW o \in Objects \ Restaurants, AdminPush(o) PROVE TypeInv'
  <2>1. Input("admin", Only(o, rows[o])) /\ rows[o] \in Values /\ rows[o] # Absent
        /\ report' = [ x \in Objects |-> "none" ]
        /\ mirrors' = mirrors (+) SetToBag({ Mirror("set", o, rows[o], TRUE) })
        /\ UNCHANGED << rows, docs, inbox, sync, given, job >>
    BY <1>2 DEF AdminPush, Resolve, TypeInv, MenuTypeOK
  <2>2. /\ scenario' = scenario /\ faults' = faults /\ rushed' = rushed /\ inputs' \in 0 .. scenario'.inputs
        /\ expected' \in [ Objects -> Values ] /\ calm' \in BOOLEAN
    BY <2>1, OnlyInput
  <2>3. { Mirror("set", o, rows[o], TRUE) } \subseteq Mirrors
    BY <2>1 DEF Mirror, Mirrors
  <2>4. IsABag(mirrors') /\ BagToSet(mirrors') \subseteq Mirrors
    BY <2>1, <2>3, ScheduleIs DEF Schedule
  <2> QED
    BY <2>1, <2>2, <2>4 DEF TypeInv, MenuTypeOK
<1>3. ASSUME NEW o \in Objects \ Restaurants, AdminRemove(o) PROVE TypeInv'
  <2>1. Input("admin", [ x \in Cascade(o) |-> Absent ]) /\ report' = [ x \in Objects |-> "none" ]
        /\ RemoveDocs(Cascade(o)) /\ UNCHANGED << rows, mirrors, sync, given, job >>
    BY <1>3 DEF AdminRemove, Resolve
  <2>2. /\ scenario' = scenario /\ faults' = faults /\ rushed' = rushed /\ inputs' \in 0 .. scenario'.inputs
        /\ expected' \in [ Objects -> Values ] /\ calm' \in BOOLEAN
    BY <2>1, CascadeInput
  <2>3. docs' \in [ Objects -> Values ] /\ inbox' \in [ Objects -> Seq(Values) ]
    BY <2>1, RemoveDocsIs
  <2> QED
    BY <2>1, <2>2, <2>3 DEF TypeInv, MenuTypeOK
<1>4. ASSUME NEW s \in Sections, PullSection(s) PROVE TypeInv'
  <2> DEFINE c == [ pc |-> "write", of |-> s, value |-> docs[s], existing |-> FALSE ]
  <2>1. Input("admin", Only(s, docs[s])) /\ docs[s] \in Values /\ docs[s] # Absent
        /\ report' = [ x \in Objects |-> "none" ]
        /\ sync' = [ sync EXCEPT !["admin"] = c ]
        /\ UNCHANGED << rows, docs, mirrors, inbox, given, job >>
    BY <1>4, KindsOfObjects DEF PullSection, Resolve, TypeInv, MenuTypeOK
  <2>2. /\ scenario' = scenario /\ faults' = faults /\ rushed' = rushed /\ inputs' \in 0 .. scenario'.inputs
        /\ expected' \in [ Objects -> Values ] /\ calm' \in BOOLEAN
    BY <2>1, OnlyInput
  <2>3. c \in SyncStates /\ c.value # Absent
    BY <2>1, KindsOfObjects DEF SyncStates
  <2> HIDE DEF c
  <2>4. sync' \in [ Slots -> SyncStates ] /\ \A k \in Slots : sync'[k].pc = "write" => sync'[k].value # Absent
    BY <2>1, <2>3 DEF TypeInv, MenuTypeOK
  <2> QED
    BY <2>1, <2>2, <2>4 DEF TypeInv, MenuTypeOK
<1>5. ASSUME NEW i \in Items, PullItem(i) PROVE TypeInv'
  <2> DEFINE c == [ pc |-> "write", of |-> i, value |-> docs[i], existing |-> FALSE ]
  <2>0. docs[i] # Absent /\ rows' \in { rows, [ rows EXCEPT ![Parent[i]] = docs[Parent[i]] ] }
    BY <1>5 DEF PullItem
  <2>1. Input("admin", Only(i, docs[i])) /\ report' = [ x \in Objects |-> "none" ]
        /\ sync' = [ sync EXCEPT !["admin"] = c ]
        /\ UNCHANGED << docs, mirrors, inbox, given, job >>
    BY <1>5 DEF PullItem, Resolve
  <2>6. docs[i] \in Values /\ i \in Objects
    BY KindsOfObjects DEF TypeInv, MenuTypeOK
  <2>2. /\ scenario' = scenario /\ faults' = faults /\ rushed' = rushed /\ inputs' \in 0 .. scenario'.inputs
        /\ expected' \in [ Objects -> Values ] /\ calm' \in BOOLEAN
    BY <2>1, <2>6, OnlyInput
  <2>3. c \in SyncStates /\ c.value # Absent
    BY <2>0, <2>6 DEF SyncStates
  <2> HIDE DEF c
  <2>4. sync' \in [ Slots -> SyncStates ] /\ \A k \in Slots : sync'[k].pc = "write" => sync'[k].value # Absent
    BY <2>1, <2>3 DEF TypeInv, MenuTypeOK
  <2>5. rows' \in [ Objects -> Values ]
    <3>1. Parent[i] \in Objects
      BY KindsOfObjects
    <3>2. rows \in [ Objects -> Values ] /\ docs[Parent[i]] \in Values
      BY <3>1 DEF TypeInv, MenuTypeOK
    <3> QED
      BY <2>0, <3>1, <3>2
  <2> QED
    BY <2>1, <2>2, <2>4, <2>5 DEF TypeInv, MenuTypeOK
<1>6. ASSUME AdminWrite PROVE TypeInv'
  <2> DEFINE c == sync["admin"]
  <2>1. c \in SyncStates
        /\ sync' = [ sync EXCEPT !["admin"] = IdleSync ]
        /\ UNCHANGED << docs, given, mirrors, inbox, job, report, history >>
        /\ rows' \in { rows, [ rows EXCEPT ![c.of] = c.value ] }
    BY <1>6, KindsOfObjects DEF AdminWrite, TypeInv, MenuTypeOK
  <2> HIDE DEF c
  <2>2. rows' \in [ Objects -> Values ]
    BY <2>1 DEF TypeInv, MenuTypeOK, SyncStates
  <2>3. sync' \in [ Slots -> SyncStates ] /\ \A k \in Slots : sync'[k].pc = "write" => sync'[k].value # Absent
    BY <2>1, IdleTypes DEF TypeInv, MenuTypeOK
  <2> QED
    BY <2>1, <2>2, <2>3 DEF TypeInv, MenuTypeOK, history
<1> QED
  BY <1>1, <1>2, <1>3, <1>4, <1>5, <1>6 DEF Decide

\* A mirror that has looked at the rows goes on, or is dropped.
LEMMA ResolveIs ==
  ASSUME TypeInv, NEW m \in BagToSet(mirrors), MirrorResolve(m)
  PROVE  /\ IsABag(mirrors') /\ BagToSet(mirrors') \subseteq Mirrors
         /\ BagToSet(mirrors) \ { m } \subseteq BagToSet(mirrors')
         /\ UNCHANGED << rows, docs, given, inbox, sync, job, report, history >>
         /\ ~m.resolved
         /\ LET gone == (m.op = "fresh" /\ rows[m.of] = Absent) \/ ~ParentThere(m.of)
                v == IF m.op = "fresh" THEN rows[m.of] ELSE m.value
                n == Mirror(IF m.op = "fresh" THEN "set" ELSE m.op, m.of, v, TRUE)
            IN IF gone THEN BagToSet(mirrors') \subseteq BagToSet(mirrors)
                       ELSE n \in BagToSet(mirrors') /\ BagToSet(mirrors') \subseteq BagToSet(mirrors) \cup { n }
<1> DEFINE gone == (m.op = "fresh" /\ rows[m.of] = Absent) \/ ~ParentThere(m.of)
           v == IF m.op = "fresh" THEN rows[m.of] ELSE m.value
           n == Mirror(IF m.op = "fresh" THEN "set" ELSE m.op, m.of, v, TRUE)
           ms == IF gone THEN {} ELSE { n }
<1>1. m \in Mirrors /\ rows \in [ Objects -> Values ] /\ IsABag(mirrors) /\ BagToSet(mirrors) \subseteq Mirrors
  BY DEF TypeInv, MenuTypeOK
<1>2. n \in Mirrors
  <2>1. m.of \in Objects /\ v \in Values /\ (IF m.op = "fresh" THEN "set" ELSE m.op) \in { "set", "delete" }
    BY <1>1 DEF Mirrors
  <2> QED
    BY <2>1 DEF Mirror, Mirrors
<1>3. ~m.resolved /\ mirrors' = (mirrors (-) SetToBag({ m })) (+) SetToBag(ms)
      /\ UNCHANGED << rows, docs, given, inbox, sync, job, report, history >>
  BY DEF MirrorResolve
<1> HIDE DEF n
<1>4. ms \subseteq Mirrors /\ (gone => ms = {}) /\ (~gone => ms = { n })
  BY <1>2
<1> HIDE DEF ms
<1>5. IsABag(mirrors (-) SetToBag({ m })) /\ BagToSet(mirrors (-) SetToBag({ m })) \subseteq BagToSet(mirrors)
      /\ BagToSet(mirrors) \ { m } \subseteq BagToSet(mirrors (-) SetToBag({ m }))
  BY <1>1, BagMinus
<1>6. IsABag(mirrors') /\ BagToSet(mirrors') = BagToSet(mirrors (-) SetToBag({ m })) \cup ms
  BY <1>3, <1>5, BagPlus
<1>7. IF gone THEN BagToSet(mirrors') \subseteq BagToSet(mirrors)
              ELSE n \in BagToSet(mirrors') /\ BagToSet(mirrors') \subseteq BagToSet(mirrors) \cup { n }
  BY <1>4, <1>5, <1>6
<1> QED
  BY <1>1, <1>3, <1>4, <1>5, <1>6, <1>7 DEF n

LEMMA MirrorWriteIs ==
  ASSUME TypeInv, NEW m \in BagToSet(mirrors), MirrorWrite(m)
  PROVE  /\ IsABag(mirrors') /\ BagToSet(mirrors') \subseteq BagToSet(mirrors)
         /\ BagToSet(mirrors) \ { m } \subseteq BagToSet(mirrors')
         /\ m \in Mirrors /\ m.resolved
         /\ (m.op = "set" /\ PutDoc(m.of, m.value)) \/ (m.op = "delete" /\ RemoveDocs({ m.of }))
         /\ docs' \in [ Objects -> Values ] /\ inbox' \in [ Objects -> Seq(Values) ]
         /\ UNCHANGED << rows, given, sync, job, report, history >>
<1>1. m \in Mirrors /\ m.of \in Objects /\ m.value \in Values /\ IsABag(mirrors)
  BY DEF TypeInv, MenuTypeOK, Mirrors
<1>2. /\ mirrors' = mirrors (-) SetToBag({ m }) /\ m.resolved
      /\ (m.op = "set" /\ PutDoc(m.of, m.value)) \/ (m.op = "delete" /\ RemoveDocs({ m.of }))
      /\ UNCHANGED << rows, given, sync, job, report, history >>
  BY DEF MirrorWrite
<1>3. docs' \in [ Objects -> Values ] /\ inbox' \in [ Objects -> Seq(Values) ]
  BY <1>1, <1>2, PutDocIs, RemoveDocsIs
<1> QED
  BY <1>1, <1>2, <1>3, BagMinus

\* The end of a call that has read the row.
LEMMA SyncWriteIs ==
  ASSUME TypeInv, NEW k \in Objects \cup { "job" }, SyncWrite(k)
  PROVE  LET c == sync[k]
             written == IF c.existing THEN rows[c.of] # Absent ELSE rows[c.of] = Absent /\ ParentThere(c.of)
             ms == IF written /\ k = "job" THEN { MirrorOf(c.of, c.value) } ELSE {}
         IN /\ k \in Slots /\ c \in SyncStates /\ c.pc = "write" /\ c.value \in Contents
            /\ sync' = [ sync EXCEPT ![k] = IdleSync ]
            /\ rows' = IF written THEN [ rows EXCEPT ![c.of] = c.value ] ELSE rows
            /\ ms \subseteq Mirrors /\ IsABag(mirrors') /\ BagToSet(mirrors') = BagToSet(mirrors) \cup ms
            /\ UNCHANGED << docs, given, inbox, job, report, history >>
<1> DEFINE c == sync[k]
           written == IF c.existing THEN rows[c.of] # Absent ELSE rows[c.of] = Absent /\ ParentThere(c.of)
           ms == IF written /\ k = "job" THEN { MirrorOf(c.of, c.value) } ELSE {}
<1>1. k \in Slots /\ c \in SyncStates /\ c.pc = "write" /\ c.value \in Contents /\ c.of \in Objects
  <2>1. k \in Slots /\ c \in SyncStates /\ c.pc = "write" /\ c.value # Absent
    BY KindsOfObjects DEF SyncWrite, TypeInv, MenuTypeOK
  <2> QED
    BY <2>1, KindsOfObjects DEF SyncStates, Values
<1>2. /\ sync' = [ sync EXCEPT ![k] = IdleSync ]
      /\ rows' = IF written THEN [ rows EXCEPT ![c.of] = c.value ] ELSE rows
      /\ Schedule(ms)
      /\ UNCHANGED << docs, given, inbox, job, report, history >>
  BY DEF SyncWrite
<1>3. ms \subseteq Mirrors
  BY <1>1, MirrorOfIs
<1>4. IsABag(mirrors') /\ BagToSet(mirrors') = BagToSet(mirrors) \cup ms
  BY <1>2, <1>3, ScheduleIs
<1> QED
  BY <1>1, <1>2, <1>3, <1>4

LEMMA CalledIs ==
  ASSUME TypeInv, NEW o \in Objects, Called(o)
  PROVE  /\ inbox[o] # << >> /\ inbox[o] \in Seq(Values) /\ sync[o].pc = "idle" /\ Head(inbox[o]) \in Values
         /\ inbox' \in [ Objects -> Seq(Values) ]
         /\ \A x \in Objects : inbox'[x] = IF x = o THEN Tail(inbox[x]) ELSE inbox[x]
         /\ UNCHANGED << docs, given, mirrors, job, report, history >>
<1>1. inbox[o] # << >> /\ sync[o].pc = "idle" /\ inbox' = [ inbox EXCEPT ![o] = Tail(@) ]
      /\ UNCHANGED << docs, given, mirrors, job, report, history >>
  BY DEF Called
<1>2. inbox \in [ Objects -> Seq(Values) ]
  BY DEF TypeInv, MenuTypeOK
<1>3. Tail(inbox[o]) \in Seq(Values) /\ Head(inbox[o]) \in Values
  BY <1>1, <1>2, TailLast
<1> QED
  BY <1>1, <1>2, <1>3

LEMMA SyncDocType ==
  ASSUME NEW o \in Objects, NEW v \in Values
  PROVE  SyncDoc(o, v) \in SyncStates /\ (SyncDoc(o, v).pc = "write" => SyncDoc(o, v).value = v)
<1>1. CASE SyncDoc(o, v) = IdleSync
  BY <1>1, IdleTypes
<1>2. CASE SyncDoc(o, v) = Reading(o, v)
  BY <1>2, ReadingIs
<1> QED
  BY <1>1, <1>2, SyncDocIs

LEMMA ArriveType == ASSUME TypeInv, Arrive PROVE TypeInv'
<1>1. ASSUME NEW m \in BagToSet(mirrors), MirrorResolve(m) PROVE TypeInv'
  BY <1>1, ResolveIs DEF TypeInv, MenuTypeOK, history
<1>2. ASSUME NEW m \in BagToSet(mirrors), MirrorWrite(m) PROVE TypeInv'
  BY <1>2, MirrorWriteIs DEF TypeInv, MenuTypeOK, history
<1>3. ASSUME NEW o \in Objects, Changed(o) PROVE TypeInv'
  <2>1. Called(o) /\ Head(inbox[o]) # Absent /\ rows' = rows
        /\ sync' = [ sync EXCEPT ![o] = SyncDoc(o, Head(inbox[o])) ]
    BY <1>3 DEF Changed
  <2>2. SyncDoc(o, Head(inbox[o])) \in SyncStates
        /\ (SyncDoc(o, Head(inbox[o])).pc = "write" => SyncDoc(o, Head(inbox[o])).value # Absent)
    BY <2>1, CalledIs, SyncDocType
  <2>3. sync' \in [ Slots -> SyncStates ] /\ \A k \in Slots : sync'[k].pc = "write" => sync'[k].value # Absent
    BY <2>1, <2>2, KindsOfObjects DEF TypeInv, MenuTypeOK
  <2> QED
    BY <2>1, <2>3, CalledIs DEF TypeInv, MenuTypeOK, history
<1>4. ASSUME NEW k \in Objects \cup { "job" }, SyncWrite(k) PROVE TypeInv'
  <2> DEFINE c == sync[k]
  <2>1. k \in Slots /\ c \in SyncStates /\ c.value \in Contents /\ sync' = [ sync EXCEPT ![k] = IdleSync ]
        /\ rows' \in { rows, [ rows EXCEPT ![c.of] = c.value ] }
    BY <1>4, SyncWriteIs
  <2>2. IsABag(mirrors') /\ BagToSet(mirrors') \subseteq Mirrors
        /\ UNCHANGED << docs, given, inbox, job, report, history >>
    BY <1>4, SyncWriteIs DEF TypeInv, MenuTypeOK
  <2> HIDE DEF c
  <2>3. rows' \in [ Objects -> Values ]
    BY <2>1, KindsOfObjects DEF TypeInv, MenuTypeOK, SyncStates
  <2>4. sync' \in [ Slots -> SyncStates ] /\ \A j \in Slots : sync'[j].pc = "write" => sync'[j].value # Absent
    BY <2>1, IdleTypes DEF TypeInv, MenuTypeOK
  <2> QED
    BY <2>2, <2>3, <2>4 DEF TypeInv, MenuTypeOK, history
<1>5. ASSUME NEW s \in Sections, SectionRemoved(s) PROVE TypeInv'
  <2> DEFINE c == [ IdleSync EXCEPT !.pc = "clean", !.of = s ]
  <2>1. s \in Objects /\ Called(s) /\ rows' = Without(rows, Cascade(s)) /\ sync' = [ sync EXCEPT ![s] = c ]
    BY <1>5, KindsOfObjects DEF SectionRemoved
  <2>2. c \in SyncStates /\ c.pc = "clean"
    BY <2>1, IdleTypes DEF SyncStates
  <2> HIDE DEF c
  <2>3. rows' \in [ Objects -> Values ]
    BY <2>1, WithoutIs DEF TypeInv, MenuTypeOK
  <2>4. sync' \in [ Slots -> SyncStates ] /\ \A k \in Slots : sync'[k].pc = "write" => sync'[k].value # Absent
    BY <2>1, <2>2, KindsOfObjects DEF TypeInv, MenuTypeOK
  <2> QED
    BY <2>1, <2>3, <2>4, CalledIs DEF TypeInv, MenuTypeOK, history
<1>6. ASSUME NEW s \in Sections, CleanItems(s) PROVE TypeInv'
  <2>1. RemoveDocs(ItemsOf(s)) /\ sync' = [ sync EXCEPT ![s] = IdleSync ]
        /\ UNCHANGED << rows, given, mirrors, job, report, history >>
    BY <1>6 DEF CleanItems
  <2>2. sync' \in [ Slots -> SyncStates ] /\ \A k \in Slots : sync'[k].pc = "write" => sync'[k].value # Absent
    BY <2>1, IdleTypes, KindsOfObjects DEF TypeInv, MenuTypeOK
  <2>3. docs' \in [ Objects -> Values ] /\ inbox' \in [ Objects -> Seq(Values) ]
    BY <2>1, RemoveDocsIs
  <2> QED
    BY <2>1, <2>2, <2>3 DEF TypeInv, MenuTypeOK, history
<1>7. ASSUME NEW i \in Items, ItemRemoved(i) PROVE TypeInv'
  <2>1. i \in Objects /\ Called(i) /\ rows' = Without(rows, { i }) /\ sync' = sync
    BY <1>7, KindsOfObjects DEF ItemRemoved
  <2>2. rows' \in [ Objects -> Values ]
    BY <2>1, WithoutIs DEF TypeInv, MenuTypeOK
  <2> QED
    BY <2>1, <2>2, CalledIs DEF TypeInv, MenuTypeOK, history
<1> QED
  BY <1>1, <1>2, <1>3, <1>4, <1>5, <1>6, <1>7 DEF Arrive

LEMMA PullsIs ==
  ASSUME TypeInv, NEW S, S \subseteq Objects
  PROVE  /\ Pulls(S) \subseteq Todos
         /\ \A t \in Pulls(S) : t.do = "pull" /\ t.of \in S /\ t.value = docs[t.of]
<1>1. \A o \in S : docs[o] # Absent => docs[o] \in Contents
  BY DEF TypeInv, MenuTypeOK, Values
<1> QED
  BY <1>1 DEF Pulls, Todos

LEMMA TodosIs ==
  ASSUME TypeInv
  PROVE  /\ Pushes(job.docs) \cup Missing(job.docs) \subseteq Todos
         /\ \A t \in Pushes(job.docs) : t.do = "push" /\ t.of \in Objects /\ t.value = rows[t.of]
                                         /\ rows[t.of] # job.docs[t.of]
         /\ \A t \in Missing(job.docs) : t.do = "pull" /\ t.of \in Objects /\ t.value = job.docs[t.of]
                                         /\ rows[t.of] # job.docs[t.of]
<1>1. \A o \in Objects : (rows[o] # Absent => rows[o] \in Contents) /\ (job.docs[o] # Absent => job.docs[o] \in Contents)
  BY DEF TypeInv, MenuTypeOK, Values, JobStates
<1>2. \A t \in Pushes(job.docs) : /\ t \in Todos /\ t.do = "push" /\ t.of \in Objects /\ t.value = rows[t.of]
                                  /\ rows[t.of] # job.docs[t.of]
  BY <1>1 DEF Pushes, Todos
<1>3. \A t \in Missing(job.docs) : /\ t \in Todos /\ t.do = "pull" /\ t.of \in Objects /\ t.value = job.docs[t.of]
                                   /\ rows[t.of] # job.docs[t.of]
  BY <1>1, KindsOfObjects DEF Missing, Todos, Objects
<1> QED
  BY <1>2, <1>3

\* A job begins at rest or rushed, and reads the documents.
LEMMA JobStartIs ==
  ASSUME TypeInv, JobStart
  PROVE  /\ job.pc = "idle" /\ job' \in JobStates /\ calm' = (calm /\ Quiet) /\ rushed' \in 0 .. scenario.rushed
         /\ job'.pc \in { "restaurants", "rows" }
         /\ (job'.pc = "rows" => job'.docs = docs /\ job'.todo = job.todo)
         /\ (job'.pc = "restaurants" => \A t \in job'.todo : t.of \in Objects /\ t.value = docs[t.of])
         /\ UNCHANGED << rows, docs, given, mirrors, inbox, sync, report, scenario, inputs, faults, expected >>
<1>1. /\ job.pc = "idle" /\ calm' = (calm /\ Quiet) /\ (Quiet \/ rushed < scenario.rushed)
      /\ rushed' = rushed + (IF Quiet THEN 0 ELSE 1)
      /\ job' = IF job.next = "pull" THEN InitialSyncRestaurants ELSE [ job EXCEPT !.pc = "rows", !.docs = docs ]
      /\ UNCHANGED << rows, docs, given, mirrors, inbox, sync, report, scenario, inputs, faults, expected >>
  BY DEF JobStart
<1>2. rushed' \in 0 .. scenario.rushed
  <2>1. rushed \in 0 .. scenario.rushed /\ scenario.rushed \in Nat
    BY ScenarioType DEF TypeInv, MenuTypeOK
  <2>2. CASE Quiet
    BY <2>1, <2>2, <1>1
  <2>3. CASE ~Quiet
    BY <2>1, <2>3, <1>1
  <2> QED
    BY <2>2, <2>3
<1>3. Pulls(Restaurants) \subseteq Todos /\ \A t \in Pulls(Restaurants) : t.of \in Objects /\ t.value = docs[t.of]
  BY PullsIs DEF Objects
<1>4. job \in JobStates /\ docs \in [ Objects -> Values ]
  BY DEF TypeInv, MenuTypeOK
<1>5. CASE job.next = "pull"
  <2>1. job' = [ job EXCEPT !.pc = "restaurants", !.todo = Pulls(Restaurants) ]
    BY <1>1, <1>5 DEF InitialSyncRestaurants
  <2>2. job' \in JobStates /\ job'.pc = "restaurants" /\ job'.todo = Pulls(Restaurants)
    BY <2>1, <1>3, <1>4 DEF JobStates
  <2> QED
    BY <2>2, <1>1, <1>2, <1>3
<1>6. CASE job.next # "pull"
  <2>1. job' = [ job EXCEPT !.pc = "rows", !.docs = docs ]
    BY <1>1, <1>6
  <2>2. job' \in JobStates /\ job'.pc = "rows" /\ job'.todo = job.todo /\ job'.docs = docs
    BY <2>1, <1>4 DEF JobStates
  <2> QED
    BY <2>2, <1>1, <1>2
<1> QED
  BY <1>5, <1>6

LEMMA JobRowsIs ==
  ASSUME TypeInv, JobRows
  PROVE  /\ job.pc = "rows" /\ job' \in JobStates /\ job'.pc = "reconciling"
         /\ job'.todo = Pushes(job.docs) \cup Missing(job.docs)
         /\ UNCHANGED << rows, docs, given, mirrors, inbox, sync, report, history >>
<1>1. /\ job.pc = "rows"
      /\ job' = [ job EXCEPT !.pc = "reconciling", !.docs = Nothing, !.todo = Pushes(job.docs) \cup Missing(job.docs) ]
      /\ UNCHANGED << rows, docs, given, mirrors, inbox, sync, report, history >>
  BY DEF JobRows
<1>2. Pushes(job.docs) \cup Missing(job.docs) \subseteq Todos /\ Nothing \in [ Objects -> Values ] /\ job \in JobStates
  BY TodosIs, KindsOfObjects DEF Nothing, TypeInv, MenuTypeOK
<1> QED
  BY <1>1, <1>2 DEF JobStates

LEMMA JobNextIs ==
  ASSUME TypeInv, NEW t \in job.todo, JobNext(t)
  PROVE  /\ t.of \in Objects /\ t.value \in Contents /\ sync["job"].pc = "idle"
         /\ job' = [ job EXCEPT !.todo = @ \ { t } ] /\ job' \in JobStates /\ job'.pc = job.pc
         /\ job'.docs = job.docs /\ job'.todo \subseteq job.todo
         /\ UNCHANGED << rows, given, mirrors, report, history >>
         /\ \/ sync' = [ sync EXCEPT !["job"] = SyncDoc(t.of, t.value) ] /\ UNCHANGED << docs, inbox >>
            \/ sync' = sync /\ (PutDoc(t.of, t.value) \/ UNCHANGED << docs, inbox >>)
<1>1. t \in Todos /\ job \in JobStates
  BY DEF TypeInv, MenuTypeOK, JobStates
<1>2. /\ sync["job"].pc = "idle" /\ job' = [ job EXCEPT !.todo = @ \ { t } ]
      /\ UNCHANGED << rows, given, mirrors, report, history >>
      /\ \/ sync' = [ sync EXCEPT !["job"] = SyncDoc(t.of, t.value) ] /\ UNCHANGED << docs, inbox >>
         \/ WriteToFirestore(t.of, t.value) /\ sync' = sync
  BY DEF JobNext
<1>3. WriteToFirestore(t.of, t.value) => PutDoc(t.of, t.value) \/ UNCHANGED << docs, inbox >>
  BY DEF WriteToFirestore
<1>4. job' \in JobStates /\ job'.pc = job.pc /\ job'.docs = job.docs /\ job'.todo \subseteq job.todo
  BY <1>1, <1>2 DEF JobStates
<1>5. t.of \in Objects /\ t.value \in Contents
  BY <1>1 DEF Todos
<1> QED
  BY <1>2, <1>3, <1>4, <1>5

LEMMA JobAdvanceIs ==
  ASSUME TypeInv, JobAdvance
  PROVE  /\ job.pc \notin { "idle", "rows" } /\ job.todo = {} /\ job' \in JobStates
         /\ \/ job'.pc \in { "sections", "items" } /\ \A t \in job'.todo : t.of \in Objects /\ t.value = docs[t.of]
            \/ job'.pc = "idle" /\ job'.todo = {}
         /\ UNCHANGED << rows, docs, given, mirrors, inbox, sync, report, history >>
<1>1. /\ job.pc \notin { "idle", "rows" } /\ job.todo = {} /\ job \in JobStates
      /\ job' = CASE job.pc = "restaurants" -> InitialSyncMenu
                  [] job.pc = "sections" -> [ job EXCEPT !.pc = "items", !.todo = Pulls(Items) ]
                  [] job.pc = "items" -> IdleJob("reconcile")
                  [] job.pc = "reconciling" -> IdleJob("pull")
      /\ UNCHANGED << rows, docs, given, mirrors, inbox, sync, report, history >>
  BY DEF JobAdvance, TypeInv, MenuTypeOK
<1>2. Pulls(Sections) \subseteq Todos /\ \A t \in Pulls(Sections) : t.of \in Objects /\ t.value = docs[t.of]
  BY PullsIs DEF Objects
<1>3. Pulls(Items) \subseteq Todos /\ \A t \in Pulls(Items) : t.of \in Objects /\ t.value = docs[t.of]
  BY PullsIs DEF Objects
<1>4. CASE job.pc = "restaurants"
  <2>1. job' = [ job EXCEPT !.pc = "sections", !.todo = Pulls(Sections) ]
    BY <1>1, <1>4 DEF InitialSyncMenu
  <2>2. job' \in JobStates /\ job'.pc = "sections" /\ job'.todo = Pulls(Sections)
    BY <2>1, <1>1, <1>2 DEF JobStates
  <2> QED
    BY <2>2, <1>1, <1>2
<1>5. CASE job.pc = "sections"
  <2>1. job' = [ job EXCEPT !.pc = "items", !.todo = Pulls(Items) ]
    BY <1>1, <1>5
  <2>2. job' \in JobStates /\ job'.pc = "items" /\ job'.todo = Pulls(Items)
    BY <2>1, <1>1, <1>3 DEF JobStates
  <2> QED
    BY <2>2, <1>1, <1>3
<1>6. CASE job.pc \in { "items", "reconciling" }
  <2>1. job' \in { IdleJob("reconcile"), IdleJob("pull") }
    BY <1>1, <1>6
  <2> QED
    BY <2>1, <1>1, IdleTypes
<1> QED
  BY <1>1, <1>4, <1>5, <1>6 DEF JobStates

LEMMA WorkType == ASSUME TypeInv, Work PROVE TypeInv'
<1>1. ASSUME JobStart PROVE TypeInv'
  BY <1>1, JobStartIs DEF TypeInv, MenuTypeOK, Quiet
<1>2. ASSUME JobRows PROVE TypeInv'
  BY <1>2, JobRowsIs DEF TypeInv, MenuTypeOK, history
<1>3. ASSUME NEW t \in job.todo, JobNext(t) PROVE TypeInv'
  <2>1. t.of \in Objects /\ t.value \in Values /\ t.value # Absent /\ job' \in JobStates
        /\ UNCHANGED << rows, given, mirrors, report, history >>
    BY <1>3, JobNextIs, KindsOfObjects
  <2>2. SyncDoc(t.of, t.value) \in SyncStates
        /\ (SyncDoc(t.of, t.value).pc = "write" => SyncDoc(t.of, t.value).value # Absent)
    BY <2>1, SyncDocType
  <2>3. sync' \in { sync, [ sync EXCEPT !["job"] = SyncDoc(t.of, t.value) ] }
        /\ (PutDoc(t.of, t.value) \/ UNCHANGED << docs, inbox >>)
    BY <1>3, JobNextIs
  <2>4. sync' \in [ Slots -> SyncStates ] /\ \A k \in Slots : sync'[k].pc = "write" => sync'[k].value # Absent
    <3> DEFINE c == SyncDoc(t.of, t.value)
    <3>1. c \in SyncStates /\ (c.pc = "write" => c.value # Absent) /\ sync' \in { sync, [ sync EXCEPT !["job"] = c ] }
      BY <2>2, <2>3
    <3> HIDE DEF c
    <3>2. CASE sync' = [ sync EXCEPT !["job"] = c ]
      BY <3>1, <3>2 DEF TypeInv, MenuTypeOK
    <3> QED
      BY <3>1, <3>2 DEF TypeInv, MenuTypeOK
  <2>5. docs' \in [ Objects -> Values ] /\ inbox' \in [ Objects -> Seq(Values) ]
    <3>1. CASE PutDoc(t.of, t.value)
      BY <3>1, <2>1, PutDocIs
    <3>2. CASE UNCHANGED << docs, inbox >>
      BY <3>2 DEF TypeInv, MenuTypeOK
    <3> QED
      BY <2>3, <3>1, <3>2
  <2> QED
    BY <2>1, <2>4, <2>5 DEF TypeInv, MenuTypeOK, history
<1>4. ASSUME JobAdvance PROVE TypeInv'
  BY <1>4, JobAdvanceIs DEF TypeInv, MenuTypeOK, history
<1> QED
  BY <1>1, <1>2, <1>3, <1>4 DEF Work

LEMMA FailType == ASSUME TypeInv, Faults PROVE TypeInv'
<1>1. ASSUME NEW m \in BagToSet(mirrors), MirrorLost(m) PROVE TypeInv'
  <2>1. /\ mirrors' = mirrors (-) SetToBag({ m }) /\ faults < scenario.faults /\ faults' = faults + 1 /\ calm' = FALSE
        /\ UNCHANGED << rows, docs, given, inbox, sync, job, report, scenario, inputs, rushed, expected >>
    BY <1>1 DEF MirrorLost
  <2>2. IsABag(mirrors') /\ BagToSet(mirrors') \subseteq Mirrors
    BY <2>1, BagMinus DEF TypeInv, MenuTypeOK
  <2>3. faults' \in 0 .. scenario'.faults
    BY <2>1, ScenarioType DEF TypeInv, MenuTypeOK
  <2> QED
    BY <2>1, <2>2, <2>3 DEF TypeInv, MenuTypeOK
<1>2. ASSUME Restart PROVE TypeInv'
  <2>1. /\ mirrors' = EmptyBag /\ inbox' = [ o \in Objects |-> << >> ] /\ sync' = [ k \in Slots |-> IdleSync ]
        /\ job' = IdleJob(job.next) /\ faults < scenario.faults /\ faults' = faults + 1 /\ calm' = FALSE
        /\ UNCHANGED << rows, docs, given, report, scenario, inputs, rushed, expected >>
    BY <1>2 DEF Restart
  <2>2. faults' \in 0 .. scenario'.faults
    BY <2>1, ScenarioType DEF TypeInv, MenuTypeOK
  <2>3. job' \in JobStates
    BY <2>1, IdleTypes DEF TypeInv, MenuTypeOK, JobStates
  <2>4. inbox' \in [ Objects -> Seq(Values) ]
    BY <2>1
  <2>5. sync' \in [ Slots -> SyncStates ] /\ \A k \in Slots : sync'[k].pc = "write" => sync'[k].value # Absent
    BY <2>1, IdleTypes
  <2>6. IsABag(mirrors') /\ BagToSet(mirrors') \subseteq Mirrors
    BY <2>1, BagNone
  <2> QED
    BY <2>1, <2>2, <2>3, <2>4, <2>5, <2>6 DEF TypeInv, MenuTypeOK
<1> QED
  BY <1>1, <1>2 DEF Faults

LEMMA StepType == ASSUME TypeInv, [MenuNext]_menuVars PROVE TypeInv'
<1>1. CASE UNCHANGED menuVars
  BY <1>1 DEF menuVars, TypeInv, MenuTypeOK
<1> QED
  BY <1>1, MenuSteps, CallType, WriteType, DecideType, ArriveType, WorkType, FailType

(***************************************************************************)
(* What is on its way                                                      *)
(***************************************************************************)

\* A callback is about its own document, and only a section's cleans up.
SlotsInv ==
  /\ \A o \in Objects : /\ sync[o].pc # "idle" => sync[o].of = o
                        /\ sync[o].pc = "clean" => o \in Sections
  /\ sync["job"].pc # "clean" /\ sync["admin"].pc # "clean"

MirrorsInv ==
  \A m \in BagToSet(mirrors) :
    /\ m.op = "delete" => m.of \notin Restaurants
    /\ m.op = "set" => m.value # Absent
    /\ ~m.resolved => m.of \in Items \/ (m.of \in Restaurants /\ m.op = "fresh")
    /\ m.resolved => m.op # "fresh"

\* The last version on its way to the listener, or in its hands, is the document.
LastVersion(o) ==
  /\ inbox[o] # << >> => inbox[o][Len(inbox[o])] = docs[o]
  /\ inbox[o] = << >> /\ sync[o].pc = "write" => sync[o].value = docs[o]

FlightInv == SlotsInv /\ MirrorsInv /\ \A o \in Objects : LastVersion(o)

LEMMA VersionsKept ==
  ASSUME TypeInv, NEW o \in Objects, LastVersion(o), sync'[o] = sync[o] \/ sync'[o].pc # "write",
         \/ inbox'[o] = inbox[o] /\ docs'[o] = docs[o]
         \/ \E v \in Values : inbox'[o] = Append(inbox[o], v) /\ docs'[o] = v
  PROVE  LastVersion(o)'
<1>1. inbox[o] \in Seq(Values)
  BY DEF TypeInv, MenuTypeOK
<1>2. CASE inbox'[o] = inbox[o] /\ docs'[o] = docs[o]
  BY <1>2 DEF LastVersion
<1>3. ASSUME NEW v \in Values, inbox'[o] = Append(inbox[o], v), docs'[o] = v PROVE LastVersion(o)'
  BY <1>1, <1>3, AppendLast DEF LastVersion
<1> QED
  BY <1>2, <1>3

LEMMA PutVersions ==
  ASSUME TypeInv, FlightInv, NEW x \in Objects, NEW v \in Values, PutDoc(x, v), sync' = sync
  PROVE  \A o \in Objects : LastVersion(o)'
<1> SUFFICES ASSUME NEW o \in Objects PROVE LastVersion(o)'
  OBVIOUS
<1>1. IF o = x THEN inbox'[o] = Append(inbox[o], v) /\ docs'[o] = v ELSE inbox'[o] = inbox[o] /\ docs'[o] = docs[o]
  BY PutDocIs
<1> QED
  BY <1>1, VersionsKept DEF FlightInv

LEMMA RemovedVersions ==
  ASSUME TypeInv, FlightInv, NEW S, RemoveDocs(S), NEW o \in Objects, sync'[o] = sync[o] \/ sync'[o].pc # "write"
  PROVE  LastVersion(o)'
<1>1. \/ inbox'[o] = inbox[o] /\ docs'[o] = docs[o]
      \/ inbox'[o] = Append(inbox[o], Absent) /\ docs'[o] = Absent
  BY RemoveDocsIs
<1> QED
  BY <1>1, VersionsKept, KindsOfObjects DEF FlightInv

LEMMA InitFlight == MenuInit => FlightInv
<1> SUFFICES ASSUME MenuInit PROVE FlightInv
  OBVIOUS
<1>1. /\ mirrors = EmptyBag /\ inbox = [ o \in Objects |-> << >> ] /\ sync = [ k \in Slots |-> IdleSync ]
  BY DEF MenuInit
<1> QED
  BY <1>1, BagNone, IdleTypes, KindsOfObjects DEF FlightInv, SlotsInv, MirrorsInv, LastVersion

\* The mirrors of a statement are of these kinds.
LEMMA ScheduledKinds ==
  ASSUME NEW o \in Objects, NEW v \in Contents, NEW ms \in Scheduled(o, v), NEW m \in ms
  PROVE  /\ m.of = o
         /\ \/ m.op = "set" /\ m.value = v /\ (m.resolved <=> o \notin Items)
            \/ m.op = "fresh" /\ ~m.resolved /\ o \notin Sections
<1>1. CASE m = MirrorOf(o, v)
  <2>1. m.of = o /\ m.op = "set" /\ m.value = v
    BY <1>1, MirrorOfIs
  <2>2. m.resolved <=> o \notin Items
    BY <1>1, MirrorOfIs
  <2> QED
    BY <2>1, <2>2
<1>2. CASE o \notin Sections /\ m = Mirror("fresh", o, Absent, FALSE)
  BY <1>2 DEF Mirror
<1>3. m = MirrorOf(o, v) \/ (o \notin Sections /\ m = Mirror("fresh", o, Absent, FALSE))
  BY ScheduledIs
<1> QED
  BY <1>1, <1>2, <1>3

LEMMA CallFlight == ASSUME TypeInv, FlightInv, Call PROVE FlightInv'
<1>1. ASSUME NEW o \in Objects, NEW v \in Contents, NEW ms \in Scheduled(o, v), Creates(o, v, ms) \/ Updates(o, v, ms)
      PROVE  FlightInv'
  <2>1. Schedule(ms) /\ UNCHANGED << docs, inbox, sync >>
    BY <1>1 DEF Creates, Updates
  <2>2. BagToSet(mirrors') = BagToSet(mirrors) \cup ms
    BY <2>1, ScheduleIs, ScheduledIs
  <2>3. MirrorsInv'
    <3>1. \A m \in ms : /\ m.op # "delete" /\ (m.op = "set" => m.value # Absent) /\ (m.resolved => m.op # "fresh")
                        /\ (~m.resolved => m.of \in Items \/ (m.of \in Restaurants /\ m.op = "fresh"))
      BY ScheduledKinds, KindsOfObjects DEF Objects
    <3> QED
      BY <2>2, <3>1 DEF MirrorsInv, FlightInv
  <2> QED
    BY <2>1, <2>3 DEF FlightInv, SlotsInv, LastVersion
<1>2. ASSUME NEW o \in Objects \ Restaurants, Deletes(o, DeleteOf(o)) PROVE FlightInv'
  <2>1. Schedule({ DeleteOf(o) }) /\ UNCHANGED << docs, inbox, sync >>
    BY <1>2 DEF Deletes
  <2>2. BagToSet(mirrors') = BagToSet(mirrors) \cup { DeleteOf(o) }
    BY <2>1, ScheduleIs, DeleteOfIs
  <2>3. MirrorsInv'
    <3>1. \A m \in BagToSet(mirrors) : m \in BagToSet(mirrors')
      BY <2>2
    <3>2. DeleteOf(o).op = "delete" /\ DeleteOf(o).of \notin Restaurants
          /\ (~DeleteOf(o).resolved => DeleteOf(o).of \in Items)
      BY DeleteOfIs, KindsOfObjects
    <3> QED
      BY <2>2, <3>2 DEF MirrorsInv, FlightInv
  <2> QED
    BY <2>1, <2>3 DEF FlightInv, SlotsInv, LastVersion
<1> QED
  BY <1>1, <1>2 DEF Call

LEMMA WriteFlight == ASSUME TypeInv, FlightInv, Write PROVE FlightInv'
<1>1. ASSUME NEW o \in Objects, NEW v \in Contents, AppSet(o, v) PROVE FlightInv'
  <2>1. PutDoc(o, v) /\ v \in Values /\ UNCHANGED << mirrors, sync >>
    BY <1>1, KindsOfObjects DEF AppSet
  <2>2. \A x \in Objects : LastVersion(x)'
    BY <2>1, PutVersions
  <2> QED
    BY <2>1, <2>2 DEF FlightInv, SlotsInv, MirrorsInv
<1>2. ASSUME NEW o \in Objects, AppRemove(o) PROVE FlightInv'
  <2>1. RemoveDocs({ o }) /\ UNCHANGED << mirrors, sync >>
    BY <1>2 DEF AppRemove
  <2>2. \A x \in Objects : LastVersion(x)'
    BY <2>1, RemovedVersions
  <2> QED
    BY <2>1, <2>2 DEF FlightInv, SlotsInv, MirrorsInv
<1> QED
  BY <1>1, <1>2 DEF Write

LEMMA DecideFlight == ASSUME TypeInv, FlightInv, Decide PROVE FlightInv'
<1>1. ASSUME CompareVendorSync PROVE FlightInv'
  BY <1>1 DEF CompareVendorSync, FlightInv, SlotsInv, MirrorsInv, LastVersion
<1>2. ASSUME NEW o \in Objects \ Restaurants, AdminPush(o) PROVE FlightInv'
  <2>1. /\ rows[o] # Absent /\ rows[o] \in Values /\ UNCHANGED << docs, inbox, sync >>
        /\ Schedule({ Mirror("set", o, rows[o], TRUE) })
    BY <1>2 DEF AdminPush, Schedule, TypeInv, MenuTypeOK
  <2> DEFINE n == Mirror("set", o, rows[o], TRUE)
  <2>2. n \in Mirrors /\ n.op = "set" /\ n.value # Absent /\ n.resolved
    BY <2>1 DEF Mirror, Mirrors
  <2> HIDE DEF n
  <2>3. BagToSet(mirrors') = BagToSet(mirrors) \cup { n }
    BY <2>1, <2>2, ScheduleIs DEF n
  <2>4. MirrorsInv'
    BY <2>2, <2>3 DEF MirrorsInv, FlightInv
  <2> QED
    BY <2>1, <2>4 DEF FlightInv, SlotsInv, LastVersion
<1>3. ASSUME NEW o \in Objects \ Restaurants, AdminRemove(o) PROVE FlightInv'
  <2>1. RemoveDocs(Cascade(o)) /\ UNCHANGED << mirrors, sync >>
    BY <1>3 DEF AdminRemove
  <2>2. \A x \in Objects : LastVersion(x)'
    BY <2>1, RemovedVersions
  <2> QED
    BY <2>1, <2>2 DEF FlightInv, SlotsInv, MirrorsInv
<1>4. ASSUME NEW c, c.pc # "clean", sync' = [ sync EXCEPT !["admin"] = c ], UNCHANGED << docs, mirrors, inbox >>
      PROVE  FlightInv'
  <2>1. sync \in [ Slots -> SyncStates ]
    BY DEF TypeInv, MenuTypeOK
  <2>2. sync'["job"] = sync["job"] /\ sync'["admin"] = c /\ \A o \in Objects : sync'[o] = sync[o]
    BY <1>4, <2>1, KindsOfObjects
  <2> QED
    BY <1>4, <2>2 DEF FlightInv, SlotsInv, MirrorsInv, LastVersion
<1>5. ASSUME NEW s \in Sections, PullSection(s) PROVE FlightInv'
  <2> DEFINE c == [ pc |-> "write", of |-> s, value |-> docs[s], existing |-> FALSE ]
  <2>1. c.pc # "clean" /\ sync' = [ sync EXCEPT !["admin"] = c ] /\ UNCHANGED << docs, mirrors, inbox >>
    BY <1>5 DEF PullSection
  <2> HIDE DEF c
  <2> QED
    BY <2>1, <1>4
<1>6. ASSUME NEW i \in Items, PullItem(i) PROVE FlightInv'
  <2> DEFINE c == [ pc |-> "write", of |-> i, value |-> docs[i], existing |-> FALSE ]
  <2>1. c.pc # "clean" /\ sync' = [ sync EXCEPT !["admin"] = c ] /\ UNCHANGED << docs, mirrors, inbox >>
    BY <1>6 DEF PullItem
  <2> HIDE DEF c
  <2> QED
    BY <2>1, <1>4
<1>7. ASSUME AdminWrite PROVE FlightInv'
  <2>1. sync' = [ sync EXCEPT !["admin"] = IdleSync ] /\ UNCHANGED << docs, mirrors, inbox >>
    BY <1>7 DEF AdminWrite
  <2> QED
    BY <2>1, <1>4, IdleTypes
<1> QED
  BY <1>1, <1>2, <1>3, <1>5, <1>6, <1>7 DEF Decide

\* What is left of a call that has read.
LEMMA OneSlot ==
  ASSUME TypeInv, NEW k \in Slots, NEW c, sync' = [ sync EXCEPT ![k] = c ]
  PROVE  sync'[k] = c /\ \A j \in Slots : j # k => sync'[j] = sync[j]
BY DEF TypeInv, MenuTypeOK

LEMMA ArriveFlight == ASSUME TypeInv, FlightInv, Arrive PROVE FlightInv'
<1>1. ASSUME NEW m \in BagToSet(mirrors), MirrorResolve(m) PROVE FlightInv'
  <2>1. UNCHANGED << docs, inbox, sync >> /\ ~m.resolved /\ m \in Mirrors
    BY <1>1, ResolveIs DEF TypeInv, MenuTypeOK
  <2> DEFINE gone == (m.op = "fresh" /\ rows[m.of] = Absent) \/ ~ParentThere(m.of)
             v == IF m.op = "fresh" THEN rows[m.of] ELSE m.value
             n == Mirror(IF m.op = "fresh" THEN "set" ELSE m.op, m.of, v, TRUE)
  <2>2. IF gone THEN BagToSet(mirrors') \subseteq BagToSet(mirrors) ELSE BagToSet(mirrors') \subseteq BagToSet(mirrors) \cup { n }
    BY <1>1, ResolveIs
  <2>3. n.op = (IF m.op = "fresh" THEN "set" ELSE m.op) /\ n.of = m.of /\ n.value = v /\ n.resolved
    BY DEF Mirror
  <2>4. ~gone => /\ n.op = "delete" => n.of \notin Restaurants
                 /\ n.op = "set" => n.value # Absent
                 /\ n.resolved /\ n.op # "fresh"
    BY <2>1, <2>3 DEF FlightInv, MirrorsInv, Mirrors
  <2> HIDE DEF gone, n
  <2>5. MirrorsInv'
    BY <2>2, <2>4 DEF MirrorsInv, FlightInv
  <2> QED
    BY <2>1, <2>5 DEF FlightInv, SlotsInv, LastVersion
<1>2. ASSUME NEW m \in BagToSet(mirrors), MirrorWrite(m) PROVE FlightInv'
  <2>1. m.of \in Objects /\ m.value \in Values /\ BagToSet(mirrors') \subseteq BagToSet(mirrors) /\ sync' = sync
        /\ (PutDoc(m.of, m.value) \/ RemoveDocs({ m.of }))
    BY <1>2, MirrorWriteIs DEF Mirrors
  <2>2. \A x \in Objects : LastVersion(x)'
    BY <2>1, PutVersions, RemovedVersions
  <2> QED
    BY <2>1, <2>2 DEF FlightInv, SlotsInv, MirrorsInv
<1>3. ASSUME NEW o \in Objects, Changed(o) PROVE FlightInv'
  <2> DEFINE v == Head(inbox[o])
             c == SyncDoc(o, v)
  <2>1. Called(o) /\ sync' = [ sync EXCEPT ![o] = c ] /\ UNCHANGED << docs, mirrors >>
    BY <1>3 DEF Changed, Called
  <2>2. /\ v \in Values /\ inbox[o] # << >> /\ inbox[o] \in Seq(Values)
        /\ \A x \in Objects : inbox'[x] = IF x = o THEN Tail(inbox[x]) ELSE inbox[x]
    BY <2>1, CalledIs
  <2>3. c.pc # "clean" /\ (c.pc # "idle" => c.of = o /\ c.value = v)
    BY <2>2, SyncDocIs, ReadingIs, IdleTypes
  <2> HIDE DEF c
  <2>7. o \in Slots
    BY KindsOfObjects
  <2>4. sync'[o] = c /\ \A j \in Slots : j # o => sync'[j] = sync[j]
    BY <2>1, <2>7, OneSlot
  <2>5. SlotsInv'
    BY <2>3, <2>4, KindsOfObjects DEF FlightInv, SlotsInv
  <2>6. ASSUME NEW x \in Objects PROVE LastVersion(x)'
    <3>1. CASE x # o
      BY <3>1, <2>1, <2>2, <2>4, VersionsKept, KindsOfObjects DEF FlightInv
    <3>2. CASE x = o
      <4>1. /\ inbox'[o] # << >> => inbox'[o][Len(inbox'[o])] = inbox[o][Len(inbox[o])]
            /\ inbox'[o] = << >> => v = inbox[o][Len(inbox[o])]
        BY <2>2, TailLast
      <4>2. inbox[o][Len(inbox[o])] = docs[o] /\ docs'[o] = docs[o]
        BY <2>1, <2>2 DEF FlightInv, LastVersion
      <4> QED
        BY <3>2, <4>1, <4>2, <2>3, <2>4 DEF LastVersion
    <3> QED
      BY <3>1, <3>2
  <2> QED
    BY <2>1, <2>5, <2>6 DEF FlightInv, MirrorsInv
<1>4. ASSUME NEW k \in Objects \cup { "job" }, SyncWrite(k) PROVE FlightInv'
  <2> DEFINE c == sync[k]
             written == IF c.existing THEN rows[c.of] # Absent ELSE rows[c.of] = Absent /\ ParentThere(c.of)
             ms == IF written /\ k = "job" THEN { MirrorOf(c.of, c.value) } ELSE {}
  <2>1. k \in Slots /\ c \in SyncStates /\ c.value \in Contents /\ sync' = [ sync EXCEPT ![k] = IdleSync ]
        /\ BagToSet(mirrors') = BagToSet(mirrors) \cup ms /\ UNCHANGED << docs, inbox >>
    BY <1>4, SyncWriteIs
  <2>2. c.of \in Objects
    BY <2>1 DEF SyncStates
  <2>3. \A m \in ms : m.op = "set" /\ m.value # Absent /\ (~m.resolved => m.of \in Items)
    <3> DEFINE n == MirrorOf(c.of, c.value)
    <3>1. n.op = "set" /\ n.value = c.value
      BY <2>1, <2>2, MirrorOfIs
    <3>2. ~n.resolved => n.of \in Items
      BY <2>1, <2>2, MirrorOfIs
    <3>3. c.value # Absent /\ ms \subseteq { n }
      BY <2>1, KindsOfObjects
    <3> HIDE DEF n, ms
    <3> QED
      BY <3>1, <3>2, <3>3
  <2> HIDE DEF ms
  <2>4. MirrorsInv'
    BY <2>1, <2>3 DEF FlightInv, MirrorsInv
  <2>5. sync'[k] = IdleSync /\ \A j \in Slots : j # k => sync'[j] = sync[j]
    BY <2>1, OneSlot
  <2>6. SlotsInv'
    BY <2>5, IdleTypes, KindsOfObjects DEF FlightInv, SlotsInv
  <2>7. ASSUME NEW x \in Objects PROVE LastVersion(x)'
    BY <2>1, <2>5, IdleTypes, KindsOfObjects, VersionsKept DEF FlightInv
  <2> QED
    BY <2>4, <2>6, <2>7 DEF FlightInv
<1>5. ASSUME NEW s \in Sections, SectionRemoved(s) PROVE FlightInv'
  <2> DEFINE c == [ IdleSync EXCEPT !.pc = "clean", !.of = s ]
  <2>1. s \in Objects /\ Called(s) /\ sync' = [ sync EXCEPT ![s] = c ] /\ UNCHANGED << docs, mirrors >>
    BY <1>5, KindsOfObjects DEF SectionRemoved, Called
  <2>2. c.pc = "clean" /\ c.of = s
    BY DEF IdleSync
  <2> HIDE DEF c
  <2>3. /\ inbox[s] # << >> /\ inbox[s] \in Seq(Values)
        /\ \A x \in Objects : inbox'[x] = IF x = s THEN Tail(inbox[x]) ELSE inbox[x]
    BY <2>1, CalledIs
  <2>4. sync'[s] = c /\ \A j \in Slots : j # s => sync'[j] = sync[j]
    BY <2>1, OneSlot, KindsOfObjects
  <2>5. SlotsInv'
    BY <2>1, <2>2, <2>4, KindsOfObjects DEF FlightInv, SlotsInv
  <2>6. ASSUME NEW x \in Objects PROVE LastVersion(x)'
    <3>1. CASE x # s
      BY <3>1, <2>1, <2>3, <2>4, VersionsKept, KindsOfObjects DEF FlightInv
    <3>2. CASE x = s
      <4>1. inbox'[s] # << >> => inbox'[s][Len(inbox'[s])] = inbox[s][Len(inbox[s])]
        BY <2>1, <2>3, TailLast
      <4>2. inbox[s][Len(inbox[s])] = docs[s] /\ docs'[s] = docs[s]
        BY <2>1, <2>3 DEF FlightInv, LastVersion
      <4> QED
        BY <3>2, <4>1, <4>2, <2>2, <2>4 DEF LastVersion
    <3> QED
      BY <3>1, <3>2
  <2> QED
    BY <2>1, <2>5, <2>6 DEF FlightInv, MirrorsInv
<1>6. ASSUME NEW s \in Sections, CleanItems(s) PROVE FlightInv'
  <2>1. RemoveDocs(ItemsOf(s)) /\ sync' = [ sync EXCEPT ![s] = IdleSync ] /\ mirrors' = mirrors /\ s \in Slots
    BY <1>6, KindsOfObjects DEF CleanItems
  <2>2. sync'[s] = IdleSync /\ \A j \in Slots : j # s => sync'[j] = sync[j]
    BY <2>1, OneSlot
  <2>3. SlotsInv'
    BY <2>2, IdleTypes, KindsOfObjects DEF FlightInv, SlotsInv
  <2>4. ASSUME NEW x \in Objects PROVE LastVersion(x)'
    <3>1. sync'[x] = sync[x] \/ sync'[x].pc # "write"
      BY <2>2, IdleTypes, KindsOfObjects
    <3> QED
      BY <2>1, <3>1, RemovedVersions
  <2> QED
    BY <2>1, <2>3, <2>4 DEF FlightInv, MirrorsInv
<1>7. ASSUME NEW i \in Items, ItemRemoved(i) PROVE FlightInv'
  <2>1. i \in Objects /\ Called(i) /\ UNCHANGED << sync, docs, mirrors >>
    BY <1>7, KindsOfObjects DEF ItemRemoved, Called
  <2>2. /\ inbox[i] # << >> /\ inbox[i] \in Seq(Values) /\ sync[i].pc = "idle"
        /\ \A x \in Objects : inbox'[x] = IF x = i THEN Tail(inbox[x]) ELSE inbox[x]
    BY <2>1, CalledIs
  <2>3. ASSUME NEW x \in Objects PROVE LastVersion(x)'
    <3>1. CASE x # i
      BY <3>1, <2>1, <2>2, VersionsKept DEF FlightInv
    <3>2. CASE x = i
      <4>1. inbox'[i] # << >> => inbox'[i][Len(inbox'[i])] = inbox[i][Len(inbox[i])]
        BY <2>1, <2>2, TailLast
      <4>2. inbox[i][Len(inbox[i])] = docs[i]
        BY <2>1, <2>2 DEF FlightInv, LastVersion
      <4> QED
        BY <3>2, <4>1, <4>2, <2>1, <2>2 DEF LastVersion
    <3> QED
      BY <3>1, <3>2
  <2> QED
    BY <2>1, <2>3 DEF FlightInv, MirrorsInv, SlotsInv
<1> QED
  BY <1>1, <1>2, <1>3, <1>4, <1>5, <1>6, <1>7 DEF Arrive

LEMMA WorkFlight == ASSUME TypeInv, FlightInv, Work PROVE FlightInv'
<1>1. ASSUME UNCHANGED << docs, mirrors, inbox, sync >> PROVE FlightInv'
  BY <1>1 DEF FlightInv, SlotsInv, MirrorsInv, LastVersion
<1>2. ASSUME NEW t \in job.todo, JobNext(t) PROVE FlightInv'
  <2>1. t.of \in Objects /\ t.value \in Values /\ mirrors' = mirrors
    BY <1>2, JobNextIs, KindsOfObjects
  <2>2. CASE sync' = sync /\ PutDoc(t.of, t.value)
    BY <2>1, <2>2, PutVersions DEF FlightInv, SlotsInv, MirrorsInv
  <2>3. CASE sync' = sync /\ UNCHANGED << docs, inbox >>
    BY <2>1, <2>3, <1>1
  <2>4. CASE sync' = [ sync EXCEPT !["job"] = SyncDoc(t.of, t.value) ] /\ UNCHANGED << docs, inbox >>
    <3> DEFINE c == SyncDoc(t.of, t.value)
    <3>1. c.pc # "clean"
      BY <2>1, SyncDocIs, ReadingIs, IdleTypes
    <3>2. sync' = [ sync EXCEPT !["job"] = c ]
      BY <2>4
    <3> HIDE DEF c
    <3>3. sync'["job"] = c /\ \A j \in Slots : j # "job" => sync'[j] = sync[j]
      BY <3>2, OneSlot, KindsOfObjects
    <3> QED
      BY <2>1, <2>4, <3>1, <3>3, KindsOfObjects DEF FlightInv, SlotsInv, MirrorsInv, LastVersion
  <2> QED
    BY <1>2, <2>2, <2>3, <2>4, JobNextIs
<1> QED
  BY <1>1, <1>2, JobStartIs, JobRowsIs, JobAdvanceIs DEF Work

LEMMA FailFlight == ASSUME TypeInv, FlightInv, Faults PROVE FlightInv'
<1>1. ASSUME NEW m \in BagToSet(mirrors), MirrorLost(m) PROVE FlightInv'
  <2>1. mirrors' = mirrors (-) SetToBag({ m }) /\ UNCHANGED << docs, inbox, sync >> /\ IsABag(mirrors)
    BY <1>1 DEF MirrorLost, TypeInv
  <2>2. BagToSet(mirrors') \subseteq BagToSet(mirrors)
    BY <2>1, BagMinus
  <2> QED
    BY <2>1, <2>2 DEF FlightInv, SlotsInv, MirrorsInv, LastVersion
<1>2. ASSUME Restart PROVE FlightInv'
  <2>1. /\ mirrors' = EmptyBag /\ inbox' = [ o \in Objects |-> << >> ] /\ sync' = [ k \in Slots |-> IdleSync ]
    BY <1>2 DEF Restart
  <2> QED
    BY <2>1, BagNone, IdleTypes, KindsOfObjects DEF FlightInv, SlotsInv, MirrorsInv, LastVersion
<1> QED
  BY <1>1, <1>2 DEF Faults

LEMMA StepFlight == ASSUME TypeInv, FlightInv, [MenuNext]_menuVars PROVE FlightInv'
<1>1. CASE UNCHANGED menuVars
  BY <1>1 DEF menuVars, FlightInv, SlotsInv, MirrorsInv, LastVersion
<1> QED
  BY <1>1, MenuSteps, CallFlight, WriteFlight, DecideFlight, ArriveFlight, WorkFlight, FailFlight

(***************************************************************************)
(* Rows and documents agree once everything has arrived                    *)
(***************************************************************************)

\* Something on its way will make row and document of o agree.
Pending(o) ==
  \/ \E m \in BagToSet(mirrors) : m.of = o /\ (m.op # "delete" \/ docs[o] # Absent)
  \/ inbox[o] # << >>
  \/ sync[o].pc = "write" /\ (sync[o].existing <=> rows[o] # Absent)

Differs(o) == rows[o] # docs[o] /\ ~(MayLackRow(o) /\ rows[o] = Absent)

ForeignKeys == \A o \in Objects : rows[o] # Absent => ParentThere(o)

\* Nothing deletes a restaurant.
Lasting == \A r \in Restaurants \cap scenario.existing : rows[r] # Absent

Undisturbed == faults = 0 /\ "admin" \notin scenario.operations

\* Nor while a mirror of it is still to be read.
FreshThere == \A m \in BagToSet(mirrors) : m.op = "fresh" /\ m.of \in Restaurants => rows[m.of] # Absent

CarryInv ==
  Undisturbed => /\ ForeignKeys /\ Lasting /\ FreshThere /\ sync["admin"].pc = "idle"
                 /\ \A o \in Objects : Differs(o) => Pending(o)

LEMMA RowWritten ==
  ASSUME TypeInv, ForeignKeys, Lasting, scenario' = scenario, NEW x \in Objects, NEW v \in Contents,
         rows' = [ rows EXCEPT ![x] = v ], ParentThere(x)
  PROVE  /\ ForeignKeys' /\ Lasting' /\ rows'[x] = v /\ \A o \in Objects : o # x => rows'[o] = rows[o]
         /\ \A r \in Restaurants : rows[r] # Absent => rows'[r] # Absent
<1>1. rows'[x] = v /\ \A o \in Objects : o # x => rows'[o] = rows[o]
  BY DEF TypeInv, MenuTypeOK
<1>2. v # Absent
  BY KindsOfObjects
<1>3. Lasting'
  BY <1>1, <1>2, KindsOfObjects DEF Lasting
<1>4. ASSUME NEW o \in Objects, rows'[o] # Absent PROVE ParentThere(o)'
  <2>1. ParentThere(o)
    BY <1>1, <1>4 DEF ForeignKeys
  <2>2. CASE o \in Restaurants
    BY <2>2 DEF ParentThere
  <2>3. CASE o \notin Restaurants
    BY <2>1, <2>3, <1>1, <1>2, KindsOfObjects DEF ParentThere
  <2> QED
    BY <2>2, <2>3
<1> QED
  BY <1>1, <1>2, <1>3, <1>4, KindsOfObjects DEF ForeignKeys

LEMMA RowsDeleted ==
  ASSUME TypeInv, ForeignKeys, Lasting, scenario' = scenario, NEW x \in Objects \ Restaurants,
         rows' = Without(rows, Cascade(x))
  PROVE  /\ ForeignKeys' /\ Lasting' /\ rows'[x] = Absent
         /\ \A o \in Objects : o # x => rows'[o] = rows[o] \/ (o \in Items /\ rows'[o] = Absent)
         /\ \A r \in Restaurants : rows[r] # Absent => rows'[r] # Absent
<1>1. \A o \in Objects : rows'[o] = IF o = x \/ (o \in Items /\ Parent[o] = x) THEN Absent ELSE rows[o]
  BY WithoutIs, CascadeIs DEF TypeInv, MenuTypeOK
<1>2. Lasting'
  BY <1>1, KindsOfObjects DEF Lasting
<1>3. ASSUME NEW o \in Objects, rows'[o] # Absent PROVE ParentThere(o)'
  <2>1. ParentThere(o) /\ o # x /\ ~(o \in Items /\ Parent[o] = x)
    BY <1>1, <1>3 DEF ForeignKeys
  <2>2. CASE o \in Restaurants
    BY <2>2 DEF ParentThere
  <2>3. CASE o \in Sections
    BY <2>1, <2>3, <1>1, KindsOfObjects DEF ParentThere
  <2>4. CASE o \in Items
    BY <2>1, <2>4, <1>1, KindsOfObjects DEF ParentThere
  <2> QED
    BY <2>2, <2>3, <2>4, KindsOfObjects
<1> QED
  BY <1>1, <1>2, <1>3, KindsOfObjects DEF ForeignKeys

LEMMA FreshKept ==
  ASSUME TypeInv, FreshThere, \A r \in Restaurants : rows[r] # Absent => rows'[r] # Absent,
         \A m \in BagToSet(mirrors') : m \in BagToSet(mirrors) \/ m.op # "fresh" \/ rows'[m.of] # Absent
  PROVE  FreshThere'
BY DEF FreshThere

\* What has nothing above it may lack its row.
LEMMA Unrooted ==
  ASSUME ForeignKeys, Lasting, NEW o \in Objects, ~ParentThere(o)
  PROVE  ~Differs(o)
BY KindsOfObjects DEF ForeignKeys, Lasting, ParentThere, Differs, MayLackRow

\* What a step leaves alone of o stays pending.
LEMMA StaysPending ==
  ASSUME NEW o \in Objects, Differs(o) => Pending(o), scenario' = scenario,
         rows'[o] = rows[o] \/ (rows'[o] = Absent /\ o \in Items),
         sync'[o] = sync[o],
         \A m \in BagToSet(mirrors) : m.of = o => m \in BagToSet(mirrors'),
         inbox'[o] # << >> \/ (inbox'[o] = inbox[o] /\ docs'[o] = docs[o])
  PROVE  Differs(o)' => Pending(o)'
BY DEF Differs, Pending, MayLackRow

\* A mirror of a row, or a version of a document, makes it pending.
LEMMA BecomesPending ==
  ASSUME NEW o \in Objects,
         (\E m \in BagToSet(mirrors') : m.of = o /\ m.op # "delete") \/ inbox'[o] # << >>
  PROVE  Pending(o)'
BY DEF Pending

LEMMA CallCarries == ASSUME TypeInv, FlightInv, CarryInv, Call, Undisturbed' PROVE CarryInv'
<1>1. ASSUME NEW x \in Objects, NEW v \in Contents, NEW ms \in Scheduled(x, v), Creates(x, v, ms) \/ Updates(x, v, ms)
      PROVE  CarryInv'
  <2>1. /\ rows' = [ rows EXCEPT ![x] = v ] /\ UNCHANGED << docs, inbox, sync, scenario, faults >>
        /\ Schedule(ms) /\ (ParentThere(x) \/ rows[x] # Absent)
    BY <1>1 DEF Creates, Updates, Input
  <2>2. /\ ForeignKeys /\ Lasting /\ FreshThere /\ sync["admin"].pc = "idle"
        /\ \A o \in Objects : Differs(o) => Pending(o)
    BY <2>1 DEF CarryInv, Undisturbed
  <2>3. ParentThere(x)
    BY <2>1, <2>2 DEF ForeignKeys
  <2>4. /\ ForeignKeys' /\ Lasting' /\ rows'[x] = v /\ (\A o \in Objects : o # x => rows'[o] = rows[o])
        /\ \A r \in Restaurants : rows[r] # Absent => rows'[r] # Absent
    BY <2>1, <2>2, <2>3, RowWritten
  <2>5. BagToSet(mirrors') = BagToSet(mirrors) \cup ms /\ MirrorOf(x, v) \in ms
    BY <2>1, ScheduleIs, ScheduledIs
  <2>6. ASSUME NEW o \in Objects PROVE Differs(o)' => Pending(o)'
    <3>1. CASE o = x
      <4>1. \E m \in BagToSet(mirrors') : m.of = o /\ m.op # "delete"
        BY <3>1, <2>5, MirrorOfIs
      <4> QED
        BY <4>1, BecomesPending
    <3>2. CASE o # x
      <4>1. /\ rows'[o] = rows[o] /\ sync'[o] = sync[o] /\ inbox'[o] = inbox[o] /\ docs'[o] = docs[o]
            /\ scenario' = scenario /\ (Differs(o) => Pending(o))
        BY <3>2, <2>1, <2>2, <2>4
      <4> QED
        BY <4>1, <2>5, StaysPending
    <3> QED
      BY <3>1, <3>2
  <2>7. FreshThere'
    <3>1. \A m \in ms : rows'[m.of] # Absent
      BY <2>4, ScheduledKinds, KindsOfObjects
    <3> QED
      BY <3>1, <2>2, <2>4, <2>5, FreshKept
  <2> QED
    BY <2>1, <2>2, <2>4, <2>6, <2>7 DEF CarryInv
<1>2. ASSUME NEW x \in Objects \ Restaurants, Deletes(x, DeleteOf(x)) PROVE CarryInv'
  <2>1. /\ rows' = Without(rows, Cascade(x)) /\ UNCHANGED << docs, inbox, sync, scenario, faults >>
        /\ Schedule({ DeleteOf(x) })
    BY <1>2 DEF Deletes, Input
  <2>2. /\ ForeignKeys /\ Lasting /\ FreshThere /\ sync["admin"].pc = "idle"
        /\ \A o \in Objects : Differs(o) => Pending(o)
    BY <2>1 DEF CarryInv, Undisturbed
  <2>3. /\ ForeignKeys' /\ Lasting' /\ rows'[x] = Absent
        /\ \A o \in Objects : o # x => rows'[o] = rows[o] \/ (o \in Items /\ rows'[o] = Absent)
        /\ \A r \in Restaurants : rows[r] # Absent => rows'[r] # Absent
    BY <2>1, <2>2, RowsDeleted
  <2>4. /\ BagToSet(mirrors') = BagToSet(mirrors) \cup { DeleteOf(x) }
        /\ DeleteOf(x).of = x /\ DeleteOf(x).op = "delete"
    BY <2>1, ScheduleIs, DeleteOfIs
  <2>5. ASSUME NEW o \in Objects PROVE Differs(o)' => Pending(o)'
    <3>1. CASE o = x
      BY <3>1, <2>1, <2>3, <2>4 DEF Differs, Pending
    <3>2. CASE o # x
      <4>1. /\ rows'[o] = rows[o] \/ (rows'[o] = Absent /\ o \in Items)
            /\ sync'[o] = sync[o] /\ inbox'[o] = inbox[o] /\ docs'[o] = docs[o]
            /\ scenario' = scenario /\ (Differs(o) => Pending(o))
        BY <3>2, <2>1, <2>2, <2>3
      <4> QED
        BY <4>1, <2>4, StaysPending
    <3> QED
      BY <3>1, <3>2
  <2>6. FreshThere'
    BY <2>2, <2>3, <2>4, FreshKept
  <2> QED
    BY <2>1, <2>2, <2>3, <2>5, <2>6 DEF CarryInv
<1> QED
  BY <1>1, <1>2 DEF Call

\* A step that writes documents and no rows.
LEMMA DocsCarry ==
  ASSUME TypeInv, CarryInv, Undisturbed, scenario' = scenario, rows' = rows, sync'["admin"] = sync["admin"],
         \A o \in Objects : sync'[o] = sync[o] \/ sync[o].pc # "write", BagToSet(mirrors') \subseteq BagToSet(mirrors),
         \A o \in Objects : (inbox'[o] = inbox[o] /\ docs'[o] = docs[o]) \/ inbox'[o] # << >>,
         \A m \in BagToSet(mirrors) : m \in BagToSet(mirrors') \/ inbox'[m.of] # << >>
                                      \/ (m.op = "delete" /\ docs[m.of] = Absent)
  PROVE  CarryInv'
<1>1. /\ ForeignKeys /\ Lasting /\ FreshThere /\ sync["admin"].pc = "idle"
      /\ \A o \in Objects : Differs(o) => Pending(o)
  BY DEF CarryInv
<1>2. ForeignKeys' /\ Lasting' /\ FreshThere' /\ sync'["admin"].pc = "idle"
  BY <1>1 DEF ForeignKeys, Lasting, FreshThere, ParentThere
<1>3. ASSUME NEW o \in Objects, Differs(o)', inbox'[o] = << >> PROVE Pending(o)'
  <2>1. /\ inbox'[o] = inbox[o] /\ docs'[o] = docs[o] /\ rows'[o] = rows[o]
        /\ (sync'[o] = sync[o] \/ sync[o].pc # "write")
    BY <1>3
  <2>2. Pending(o)
    BY <2>1, <1>1, <1>3 DEF Differs, MayLackRow
  <2>3. ASSUME NEW m \in BagToSet(mirrors), m.of = o, m.op # "delete" \/ docs[o] # Absent PROVE Pending(o)'
    <3>1. m \in BagToSet(mirrors')
      BY <1>3, <2>3
    <3> QED
      BY <3>1, <2>1, <2>3 DEF Pending
  <2> QED
    BY <2>1, <2>2, <2>3, <1>3 DEF Pending
<1>4. \A o \in Objects : Differs(o)' => Pending(o)'
  BY <1>3, BecomesPending
<1> QED
  BY <1>2, <1>4 DEF CarryInv

LEMMA PutTells ==
  ASSUME TypeInv, NEW x \in Objects, NEW v \in Values, PutDoc(x, v)
  PROVE  inbox'[x] # << >> /\ \A o \in Objects : (inbox'[o] = inbox[o] /\ docs'[o] = docs[o]) \/ inbox'[o] # << >>
<1>1. inbox[x] \in Seq(Values) /\ Append(inbox[x], v) # << >>
  BY AppendLast DEF TypeInv, MenuTypeOK
<1>2. \A o \in Objects : IF o = x THEN inbox'[o] = Append(inbox[x], v) ELSE inbox'[o] = inbox[o] /\ docs'[o] = docs[o]
  BY PutDocIs
<1> QED
  BY <1>1, <1>2

LEMMA RemovalTells ==
  ASSUME TypeInv, NEW S, RemoveDocs(S)
  PROVE  \A o \in Objects : /\ (inbox'[o] = inbox[o] /\ docs'[o] = docs[o]) \/ inbox'[o] # << >>
                            /\ o \in S /\ docs[o] # Absent => inbox'[o] # << >>
<1> SUFFICES ASSUME NEW o \in Objects
             PROVE  /\ (inbox'[o] = inbox[o] /\ docs'[o] = docs[o]) \/ inbox'[o] # << >>
                    /\ o \in S /\ docs[o] # Absent => inbox'[o] # << >>
  OBVIOUS
<1>1. inbox[o] \in Seq(Values) /\ Append(inbox[o], Absent) # << >>
  BY AppendLast, KindsOfObjects DEF TypeInv, MenuTypeOK
<1> QED
  BY <1>1, RemoveDocsIs

LEMMA WriteCarries == ASSUME TypeInv, FlightInv, CarryInv, Write, Undisturbed' PROVE CarryInv'
<1>1. ASSUME NEW o \in Objects, NEW v \in Contents, AppSet(o, v) PROVE CarryInv'
  <2>1. PutDoc(o, v) /\ v \in Values /\ UNCHANGED << rows, mirrors, sync, scenario, faults >>
    BY <1>1, KindsOfObjects DEF AppSet, Input
  <2>2. Undisturbed
    BY <2>1 DEF Undisturbed
  <2>3. \A x \in Objects : (inbox'[x] = inbox[x] /\ docs'[x] = docs[x]) \/ inbox'[x] # << >>
    BY <2>1, PutTells
  <2> QED
    BY <2>1, <2>2, <2>3, DocsCarry
<1>2. ASSUME NEW o \in Objects, AppRemove(o) PROVE CarryInv'
  <2>1. RemoveDocs({ o }) /\ UNCHANGED << rows, mirrors, sync, scenario, faults >>
    BY <1>2 DEF AppRemove, Input
  <2>2. Undisturbed
    BY <2>1 DEF Undisturbed
  <2>3. \A x \in Objects : (inbox'[x] = inbox[x] /\ docs'[x] = docs[x]) \/ inbox'[x] # << >>
    BY <2>1, RemovalTells
  <2> QED
    BY <2>1, <2>2, <2>3, DocsCarry
<1> QED
  BY <1>1, <1>2 DEF Write

\* Administrators do not act on an instance without them.
LEMMA DecideCarries == ASSUME TypeInv, FlightInv, CarryInv, Decide, Undisturbed' PROVE CarryInv'
<1>1. ASSUME NEW operation, NEW f, Input(operation, f), operation = "admin" PROVE FALSE
  BY <1>1 DEF Input, Undisturbed
<1>2. ASSUME CompareVendorSync PROVE FALSE
  BY <1>2 DEF CompareVendorSync, Undisturbed, history
<1>3. ASSUME AdminWrite PROVE FALSE
  <2>1. sync["admin"].pc = "write" /\ UNCHANGED history
    BY <1>3 DEF AdminWrite
  <2> QED
    BY <2>1 DEF CarryInv, Undisturbed, history
<1> QED
  BY <1>1, <1>2, <1>3 DEF Decide, AdminPush, AdminRemove, PullSection, PullItem, Resolve

LEMMA ArriveCarries == ASSUME TypeInv, FlightInv, CarryInv, Arrive, Undisturbed' PROVE CarryInv'
<1>0. ASSUME UNCHANGED << scenario, faults >>
      PROVE  /\ Undisturbed /\ ForeignKeys /\ Lasting /\ FreshThere /\ sync["admin"].pc = "idle"
             /\ \A o \in Objects : Differs(o) => Pending(o)
  BY <1>0 DEF CarryInv, Undisturbed
<1>1. ASSUME NEW m \in BagToSet(mirrors), MirrorResolve(m) PROVE CarryInv'
  <2> DEFINE gone == (m.op = "fresh" /\ rows[m.of] = Absent) \/ ~ParentThere(m.of)
             v == IF m.op = "fresh" THEN rows[m.of] ELSE m.value
             n == Mirror(IF m.op = "fresh" THEN "set" ELSE m.op, m.of, v, TRUE)
  <2>1. /\ UNCHANGED << rows, docs, inbox, sync, scenario, faults >> /\ ~m.resolved
        /\ BagToSet(mirrors) \ { m } \subseteq BagToSet(mirrors')
        /\ IF gone THEN BagToSet(mirrors') \subseteq BagToSet(mirrors)
                   ELSE n \in BagToSet(mirrors') /\ BagToSet(mirrors') \subseteq BagToSet(mirrors) \cup { n }
    BY <1>1, ResolveIs DEF history
  <2>2. /\ Undisturbed /\ ForeignKeys /\ Lasting /\ FreshThere /\ sync["admin"].pc = "idle"
        /\ \A o \in Objects : Differs(o) => Pending(o)
    BY <2>1, <1>0
  <2>3. n.of = m.of /\ n.op # "fresh" /\ (m.op # "delete" => n.op # "delete") /\ m.of \in Objects
    BY DEF Mirror, TypeInv, MenuTypeOK, Mirrors
  <2>4. gone => ~Differs(m.of)
    <3>1. m.of \in Items \/ (m.of \in Restaurants /\ m.op = "fresh")
      BY <2>1 DEF FlightInv, MirrorsInv
    <3>2. m.of \in Restaurants /\ m.op = "fresh" => ~gone
      BY <2>2 DEF FreshThere, ParentThere
    <3>3. m.of \in Items /\ rows[m.of] = Absent => ~Differs(m.of)
      BY DEF Differs, MayLackRow
    <3>4. ~ParentThere(m.of) => ~Differs(m.of)
      BY <2>2, <2>3, Unrooted
    <3> QED
      BY <3>1, <3>2, <3>3, <3>4
  <2> HIDE DEF n, gone
  <2>5. ASSUME NEW o \in Objects, Differs(o)' PROVE Pending(o)'
    <3>1. Differs(o) /\ Pending(o)
      BY <2>1, <2>2, <2>5 DEF Differs, MayLackRow
    <3>2. CASE inbox[o] # << >> \/ (sync[o].pc = "write" /\ (sync[o].existing <=> rows[o] # Absent))
      BY <3>2, <2>1 DEF Pending
    <3>3. ASSUME NEW l \in BagToSet(mirrors), l.of = o, l.op # "delete" \/ docs[o] # Absent PROVE Pending(o)'
      <4>1. CASE l # m
        BY <4>1, <3>3, <2>1 DEF Pending
      <4>2. CASE l = m
        <5>1. n \in BagToSet(mirrors') /\ n.of = o /\ (n.op # "delete" \/ docs'[o] # Absent)
          BY <4>2, <3>1, <3>3, <2>1, <2>3, <2>4
        <5> QED
          BY <5>1 DEF Pending
      <4> QED
        BY <4>1, <4>2
    <3> QED
      BY <3>1, <3>2, <3>3 DEF Pending
  <2>6. FreshThere'
    BY <2>1, <2>2, <2>3, FreshKept
  <2> QED
    BY <2>1, <2>2, <2>5, <2>6 DEF CarryInv, ForeignKeys, Lasting, ParentThere
<1>2. ASSUME NEW m \in BagToSet(mirrors), MirrorWrite(m) PROVE CarryInv'
  <2>1. /\ m.of \in Objects /\ m.value \in Values /\ BagToSet(mirrors') \subseteq BagToSet(mirrors)
        /\ BagToSet(mirrors) \ { m } \subseteq BagToSet(mirrors')
        /\ (m.op = "set" /\ PutDoc(m.of, m.value)) \/ (m.op = "delete" /\ RemoveDocs({ m.of }))
        /\ UNCHANGED << rows, sync, scenario, faults >>
    BY <1>2, MirrorWriteIs DEF Mirrors, history
  <2>2. /\ \A o \in Objects : (inbox'[o] = inbox[o] /\ docs'[o] = docs[o]) \/ inbox'[o] # << >>
        /\ inbox'[m.of] # << >> \/ (m.op = "delete" /\ docs[m.of] = Absent)
    BY <2>1, PutTells, RemovalTells
  <2>3. \A l \in BagToSet(mirrors) : l \in BagToSet(mirrors') \/ inbox'[l.of] # << >> \/ (l.op = "delete" /\ docs[l.of] = Absent)
    BY <2>1, <2>2
  <2> QED
    BY <2>1, <2>2, <2>3, <1>0, DocsCarry
<1>3. ASSUME NEW x \in Objects, Changed(x) PROVE CarryInv'
  <2> DEFINE v == Head(inbox[x])
             c == SyncDoc(x, v)
  <2>1. Called(x) /\ sync' = [ sync EXCEPT ![x] = c ] /\ x \in Slots
        /\ UNCHANGED << rows, docs, mirrors, scenario, faults >>
    BY <1>3, KindsOfObjects DEF Changed, Called, history
  <2>2. /\ v \in Values /\ inbox[x] # << >> /\ inbox[x] \in Seq(Values)
        /\ \A o \in Objects : inbox'[o] = IF o = x THEN Tail(inbox[o]) ELSE inbox[o]
    BY <2>1, CalledIs
  <2>3. /\ Undisturbed /\ ForeignKeys /\ Lasting /\ FreshThere /\ sync["admin"].pc = "idle"
        /\ \A o \in Objects : Differs(o) => Pending(o)
    BY <2>1, <1>0
  <2>4. \/ c.pc = "write" /\ (c.existing <=> rows[x] # Absent)
        \/ rows[x] = v
        \/ ~ParentThere(x)
    <3>1. c = Reading(x, v) \/ rows[x] = v \/ ~ParentThere(x)
      BY <2>2, SyncDocIs
    <3>2. CASE c = Reading(x, v)
      <4>1. c.pc = "write" /\ c.existing = (rows[x] # Absent)
        BY <2>2, <3>2, ReadingIs
      <4> HIDE DEF c, v
      <4> QED
        BY <4>1
    <3> QED
      BY <3>1, <3>2
  <2> HIDE DEF c
  <2>5. sync'[x] = c /\ \A j \in Slots : j # x => sync'[j] = sync[j]
    BY <2>1, OneSlot
  <2>6. ASSUME NEW o \in Objects PROVE Differs(o)' => Pending(o)'
    <3>1. CASE o # x
      BY <3>1, <2>1, <2>2, <2>3, <2>5, KindsOfObjects, StaysPending
    <3>2. CASE o = x
      <4>1. CASE inbox'[x] # << >>
        BY <3>2, <4>1 DEF Pending
      <4>2. CASE inbox'[x] = << >>
        <5>1. v = docs[x]
          <6>1. Tail(inbox[x]) = << >> /\ inbox[x] \in Seq(Values) /\ inbox[x] # << >>
            BY <4>2, <3>2, <2>2
          <6>2. v = inbox[x][Len(inbox[x])]
            BY <6>1, TailLast
          <6>3. inbox[x][Len(inbox[x])] = docs[x]
            BY <3>2, <6>1 DEF FlightInv, LastVersion
          <6> QED
            BY <6>2, <6>3
        <5>2. ~ParentThere(x) => ~Differs(x)
          BY <2>3, Unrooted
        <5>3. Differs(x)' <=> Differs(x)
          BY <2>1 DEF Differs, MayLackRow
        <5> QED
          BY <3>2, <5>1, <5>2, <5>3, <2>1, <2>4, <2>5 DEF Differs, Pending
      <4> QED
        BY <4>1, <4>2
    <3> QED
      BY <3>1, <3>2
  <2>7. sync'["admin"].pc = "idle"
    BY <2>3, <2>5, KindsOfObjects
  <2> QED
    BY <2>1, <2>3, <2>6, <2>7 DEF CarryInv, ForeignKeys, Lasting, FreshThere, ParentThere
<1>4. ASSUME NEW k \in Objects \cup { "job" }, SyncWrite(k) PROVE CarryInv'
  <2> DEFINE c == sync[k]
             written == IF c.existing THEN rows[c.of] # Absent ELSE rows[c.of] = Absent /\ ParentThere(c.of)
             ms == IF written /\ k = "job" THEN { MirrorOf(c.of, c.value) } ELSE {}
  <2>1. /\ k \in Slots /\ c.value \in Contents /\ c.pc = "write" /\ sync' = [ sync EXCEPT ![k] = IdleSync ]
        /\ rows' = IF written THEN [ rows EXCEPT ![c.of] = c.value ] ELSE rows
        /\ BagToSet(mirrors') = BagToSet(mirrors) \cup ms
        /\ UNCHANGED << docs, inbox, scenario, faults >>
    BY <1>4, SyncWriteIs DEF history
  <2>2. c.of \in Objects /\ c.existing \in BOOLEAN /\ (k \in Objects => c.of = k)
    BY <1>4, <2>1, SyncWriteIs DEF SyncStates, FlightInv, SlotsInv
  <2>3. /\ Undisturbed /\ ForeignKeys /\ Lasting /\ FreshThere /\ sync["admin"].pc = "idle"
        /\ \A o \in Objects : Differs(o) => Pending(o)
    BY <2>1, <1>0
  <2>4. sync'[k] = IdleSync /\ \A j \in Slots : j # k => sync'[j] = sync[j]
    BY <2>1, OneSlot
  <2>5. sync'["admin"].pc = "idle"
    BY <2>3, <2>4, KindsOfObjects, IdleTypes
  <2>6. CASE written
    <3>1. ParentThere(c.of)
      BY <2>2, <2>3, <2>6 DEF ForeignKeys
    <3>2. /\ ForeignKeys' /\ Lasting' /\ rows'[c.of] = c.value /\ (\A o \in Objects : o # c.of => rows'[o] = rows[o])
          /\ \A r \in Restaurants : rows[r] # Absent => rows'[r] # Absent
      BY <2>1, <2>2, <2>3, <2>6, <3>1, RowWritten
    <3>3. \A m \in ms : m.op = "set" /\ m.of = c.of
      BY <2>1, <2>2, MirrorOfIs
    <3>4. FreshThere'
      BY <2>1, <2>3, <3>2, <3>3, FreshKept
    <3>5. ASSUME NEW o \in Objects, o # c.of PROVE Differs(o)' => Pending(o)'
      <4>1. CASE o # k
        BY <3>5, <4>1, <2>1, <2>3, <2>4, <3>2, KindsOfObjects, StaysPending
      <4> QED
        BY <3>5, <4>1, <2>2
    <3>6. ASSUME NEW o \in Objects, o = c.of PROVE Differs(o)' => Pending(o)'
      <4>1. CASE k = "job"
        <5>1. \E m \in BagToSet(mirrors') : m.of = o /\ m.op # "delete"
          BY <4>1, <3>6, <2>1, <2>2, <2>6, MirrorOfIs
        <5> QED
          BY <5>1, BecomesPending
      <4>2. CASE k \in Objects
        <5>1. k = o /\ rows'[o] = c.value /\ inbox'[o] = inbox[o] /\ docs'[o] = docs[o]
          BY <4>2, <3>6, <2>1, <2>2, <3>2
        <5>2. inbox[o] = << >> => c.value = docs[o]
          BY <5>1, <2>1 DEF FlightInv, LastVersion
        <5> QED
          BY <5>1, <5>2 DEF Differs, Pending
      <4> QED
        BY <1>4, <4>1, <4>2
    <3> QED
      BY <2>5, <3>2, <3>4, <3>5, <3>6 DEF CarryInv
  <2>7. CASE ~written
    <3>1. rows' = rows /\ BagToSet(mirrors') = BagToSet(mirrors)
      BY <2>1, <2>7
    <3>2. ASSUME NEW o \in Objects PROVE Differs(o)' => Pending(o)'
      <4>1. CASE o # k
        BY <4>1, <3>1, <2>1, <2>3, <2>4, KindsOfObjects, StaysPending
      <4>2. CASE o = k
        <5>1. Differs(o)' <=> Differs(o)
          BY <3>1, <2>1 DEF Differs, MayLackRow
        <5>2. Differs(o) => ParentThere(o)
          BY <2>3, Unrooted
        <5>3. Differs(o) => ~(sync[o].pc = "write" /\ (sync[o].existing <=> rows[o] # Absent))
          BY <4>2, <5>2, <2>2, <2>7
        <5> QED
          BY <5>1, <5>3, <3>1, <2>1, <2>3 DEF Pending
      <4> QED
        BY <4>1, <4>2
    <3> QED
      BY <2>1, <2>3, <2>5, <3>1, <3>2 DEF CarryInv, ForeignKeys, Lasting, FreshThere, ParentThere
  <2> QED
    BY <2>6, <2>7
<1>5. ASSUME NEW s \in Sections, SectionRemoved(s) PROVE CarryInv'
  <2> DEFINE c == [ IdleSync EXCEPT !.pc = "clean", !.of = s ]
  <2>1. /\ s \in Objects \ Restaurants /\ s \in Slots /\ Called(s) /\ sync' = [ sync EXCEPT ![s] = c ]
        /\ rows' = Without(rows, Cascade(s)) /\ Head(inbox[s]) = Absent
        /\ UNCHANGED << docs, mirrors, scenario, faults >>
    BY <1>5, KindsOfObjects DEF SectionRemoved, Called, history
  <2> HIDE DEF c
  <2>2. /\ inbox[s] # << >> /\ inbox[s] \in Seq(Values)
        /\ \A o \in Objects : inbox'[o] = IF o = s THEN Tail(inbox[o]) ELSE inbox[o]
    BY <2>1, CalledIs
  <2>3. /\ Undisturbed /\ ForeignKeys /\ Lasting /\ FreshThere /\ sync["admin"].pc = "idle"
        /\ \A o \in Objects : Differs(o) => Pending(o)
    BY <2>1, <1>0
  <2>4. /\ ForeignKeys' /\ Lasting' /\ rows'[s] = Absent
        /\ \A o \in Objects : o # s => rows'[o] = rows[o] \/ (o \in Items /\ rows'[o] = Absent)
        /\ \A r \in Restaurants : rows[r] # Absent => rows'[r] # Absent
    BY <2>1, <2>3, RowsDeleted
  <2>5. \A j \in Slots : j # s => sync'[j] = sync[j]
    BY <2>1, OneSlot
  <2>6. ASSUME NEW o \in Objects PROVE Differs(o)' => Pending(o)'
    <3>1. CASE o # s
      BY <3>1, <2>1, <2>2, <2>3, <2>4, <2>5, KindsOfObjects, StaysPending
    <3>2. CASE o = s
      <4>1. inbox'[s] = << >> => docs'[s] = Absent
        BY <2>1, <2>2, TailLast DEF FlightInv, LastVersion
      <4> QED
        BY <3>2, <4>1, <2>4 DEF Differs, Pending
    <3> QED
      BY <3>1, <3>2
  <2>7. FreshThere' /\ sync'["admin"].pc = "idle"
    BY <2>1, <2>3, <2>4, <2>5, KindsOfObjects, FreshKept
  <2> QED
    BY <2>4, <2>6, <2>7 DEF CarryInv
<1>6. ASSUME NEW s \in Sections, CleanItems(s) PROVE CarryInv'
  <2>1. /\ RemoveDocs(ItemsOf(s)) /\ sync' = [ sync EXCEPT ![s] = IdleSync ] /\ s \in Slots /\ sync[s].pc = "clean"
        /\ UNCHANGED << rows, mirrors, scenario, faults >>
    BY <1>6, KindsOfObjects DEF CleanItems, history
  <2>2. \A j \in Slots : j # s => sync'[j] = sync[j]
    BY <2>1, OneSlot
  <2>3. sync'["admin"] = sync["admin"] /\ \A o \in Objects : sync'[o] = sync[o] \/ sync[o].pc # "write"
    BY <2>1, <2>2, KindsOfObjects
  <2>4. \A o \in Objects : (inbox'[o] = inbox[o] /\ docs'[o] = docs[o]) \/ inbox'[o] # << >>
    BY <2>1, RemovalTells
  <2> QED
    BY <2>1, <2>3, <2>4, <1>0, DocsCarry
<1>7. ASSUME NEW i \in Items, ItemRemoved(i) PROVE CarryInv'
  <2>1. /\ i \in Objects \ Restaurants /\ Called(i) /\ rows' = Without(rows, { i })
        /\ UNCHANGED << docs, mirrors, sync, scenario, faults >>
    BY <1>7, KindsOfObjects DEF ItemRemoved, Called, history
  <2>2. \A o \in Objects : inbox'[o] = IF o = i THEN Tail(inbox[o]) ELSE inbox[o]
    BY <2>1, CalledIs
  <2>3. /\ Undisturbed /\ ForeignKeys /\ Lasting /\ FreshThere /\ sync["admin"].pc = "idle"
        /\ \A o \in Objects : Differs(o) => Pending(o)
    BY <2>1, <1>0
  <2>4. /\ ForeignKeys' /\ Lasting' /\ rows'[i] = Absent
        /\ \A o \in Objects : o # i => rows'[o] = rows[o] \/ (o \in Items /\ rows'[o] = Absent)
        /\ \A r \in Restaurants : rows[r] # Absent => rows'[r] # Absent
    <3>1. Cascade(i) = { i }
      BY KindsOfObjects DEF Cascade
    <3>2. rows' = Without(rows, Cascade(i))
      BY <3>1, <2>1
    <3> QED
      BY <3>2, <2>1, <2>3, RowsDeleted
  <2>5. ASSUME NEW o \in Objects PROVE Differs(o)' => Pending(o)'
    <3>1. CASE o # i
      BY <3>1, <2>1, <2>2, <2>3, <2>4, StaysPending
    <3>2. CASE o = i
      BY <3>2, <2>4 DEF Differs, MayLackRow
    <3> QED
      BY <3>1, <3>2
  <2>6. FreshThere'
    BY <2>1, <2>3, <2>4, FreshKept
  <2> QED
    BY <2>1, <2>3, <2>4, <2>5, <2>6 DEF CarryInv
<1> QED
  BY <1>1, <1>2, <1>3, <1>4, <1>5, <1>6, <1>7 DEF Arrive

LEMMA WorkCarries == ASSUME TypeInv, FlightInv, CarryInv, Work, Undisturbed' PROVE CarryInv'
<1>1. ASSUME UNCHANGED << scenario, faults >> PROVE Undisturbed
  BY <1>1 DEF Undisturbed
<1>2. ASSUME UNCHANGED << rows, docs, mirrors, inbox, scenario, faults >>, sync'["admin"] = sync["admin"],
             \A o \in Objects : sync'[o] = sync[o]
      PROVE  CarryInv'
  BY <1>1, <1>2, DocsCarry
<1>3. ASSUME NEW t \in job.todo, JobNext(t) PROVE CarryInv'
  <2>1. t.of \in Objects /\ t.value \in Values /\ UNCHANGED << rows, mirrors, scenario, faults >>
    BY <1>3, JobNextIs, KindsOfObjects DEF history
  <2>2. CASE sync' = sync /\ PutDoc(t.of, t.value)
    <3>1. \A o \in Objects : (inbox'[o] = inbox[o] /\ docs'[o] = docs[o]) \/ inbox'[o] # << >>
      BY <2>1, <2>2, PutTells
    <3> QED
      BY <2>1, <2>2, <3>1, <1>1, DocsCarry
  <2>3. CASE sync' = sync /\ UNCHANGED << docs, inbox >>
    BY <2>1, <2>3, <1>2
  <2>4. CASE sync' = [ sync EXCEPT !["job"] = SyncDoc(t.of, t.value) ] /\ UNCHANGED << docs, inbox >>
    <3>1. \A j \in Slots : j # "job" => sync'[j] = sync[j]
      BY <2>4, OneSlot, KindsOfObjects
    <3> QED
      BY <2>1, <2>4, <3>1, <1>2, KindsOfObjects
  <2> QED
    BY <1>3, <2>2, <2>3, <2>4, JobNextIs
<1> QED
  BY <1>2, <1>3, JobStartIs, JobRowsIs, JobAdvanceIs DEF Work, history

LEMMA FailEnds == ASSUME TypeInv, Faults PROVE ~Undisturbed' /\ ~calm'
<1>1. faults \in Nat
  BY ScenarioType DEF TypeInv, MenuTypeOK
<1>2. faults' = faults + 1 /\ calm' = FALSE
  BY DEF Faults, MirrorLost, Restart
<1> QED
  BY <1>1, <1>2 DEF Undisturbed

LEMMA InitRows ==
  ASSUME MenuInit
  PROVE  ForeignKeys /\ \A o \in Objects : rows[o] # Absent <=> o \in scenario.existing
<1>1. scenario \in Scenarios /\ \A o \in Objects : rows[o] # Absent <=> o \in scenario.existing
  <2>1. (CHOOSE c \in Contents : TRUE) # Absent
    BY MenuSyncAssumption
  <2> QED
    BY <2>1 DEF MenuInit
<1>2. ASSUME NEW o \in Objects, rows[o] # Absent, o \notin Restaurants PROVE rows[Parent[o]] # Absent
  <2>1. o \in scenario.existing /\ Parent[o] \in Objects
    BY <1>1, <1>2, KindsOfObjects
  <2>2. Parent[o] \in scenario.existing
    BY <1>1, <1>2, <2>1, MenuSyncAssumption
  <2> QED
    BY <1>1, <2>1, <2>2
<1> QED
  BY <1>1, <1>2 DEF ForeignKeys, ParentThere

LEMMA InitCarries == ASSUME MenuInit PROVE CarryInv
<1>1. docs = rows /\ mirrors = EmptyBag /\ sync = [ k \in Slots |-> IdleSync ]
  BY DEF MenuInit
<1>2. ForeignKeys /\ Lasting /\ FreshThere /\ sync["admin"].pc = "idle"
  BY <1>1, InitRows, BagNone, IdleTypes, KindsOfObjects DEF Lasting, FreshThere
<1> QED
  BY <1>1, <1>2 DEF CarryInv, Differs

LEMMA StepCarries == ASSUME TypeInv, FlightInv, CarryInv, [MenuNext]_menuVars PROVE CarryInv'
<1>1. CASE UNCHANGED menuVars
  <2>1. UNCHANGED << rows, docs, mirrors, inbox, sync, scenario, faults >>
    BY <1>1 DEF menuVars
  <2> QED
    BY <2>1 DEF CarryInv, Undisturbed, ForeignKeys, Lasting, FreshThere, ParentThere, Differs, Pending, MayLackRow
<1>2. CASE ~Undisturbed'
  BY <1>2 DEF CarryInv
<1> QED
  BY <1>1, <1>2, MenuSteps, CallCarries, WriteCarries, DecideCarries, ArriveCarries, WorkCarries, FailEnds

LEMMA CarriedConverges == ASSUME TypeInv, CarryInv PROVE Converged
<1> SUFFICES ASSUME Quiet, Undisturbed, NEW o \in Objects, rows[o] # docs[o], ~(MayLackRow(o) /\ rows[o] = Absent) PROVE FALSE
  BY DEF Converged, Undisturbed
<1>1. Pending(o)
  BY DEF CarryInv, Differs
<1>2. BagToSet(mirrors) = {} /\ inbox[o] = << >> /\ sync[o].pc = "idle"
  BY BagNone, KindsOfObjects DEF Quiet
<1> QED
  BY <1>1, <1>2 DEF Pending

(***************************************************************************)
(* The last input stands                                                   *)
(***************************************************************************)

\* A mirror writes what is expected, and finds the row above when it looks.
MirrorCarries(m) ==
  /\ m.op = "set" => m.value = expected[m.of]
  /\ m.op = "delete" => expected[m.of] = Absent
  /\ m.op = "fresh" => rows[m.of] = expected[m.of] /\ rows[m.of] # Absent
  /\ ~m.resolved /\ m.of \notin Restaurants => rows[Parent[m.of]] # Absent /\ expected[Parent[m.of]] # Absent

VersionsCarry(o) == \A n \in 1 .. Len(inbox[o]) : inbox[o][n] = expected[o]

SyncCarries(k) ==
  /\ sync[k].pc = "write" =>
       /\ sync[k].value = expected[sync[k].of]
       /\ ~sync[k].existing => rows[sync[k].of] \in { Absent, expected[sync[k].of] }
       /\ sync[k].existing => rows[sync[k].of] # Absent
  /\ sync[k].pc = "clean" => expected[k] = Absent

Settled(o) == rows[o] = expected[o] /\ docs[o] = expected[o]

\* A job that found everything settled finds nothing to change.
JobCarries ==
  /\ job.pc # "idle" => \A o \in Objects : Settled(o)
  /\ job.pc = "idle" => job.todo = {}
  /\ job.pc = "rows" => \A o \in Objects : job.docs[o] = expected[o]
  /\ \A t \in job.todo : t.value = expected[t.of]

Rooted ==
  \A o \in Objects \ Restaurants : expected[o] # Absent => expected[Parent[o]] # Absent /\ rows[Parent[o]] # Absent

\* The removal of a section is on its way to its listener.
Removing(s) == expected[s] = Absent /\ inbox[s] # << >>

RowArrives(o) ==
  \/ rows[o] = expected[o]
  \/ inbox[o] # << >>
  \/ sync[o].pc = "write"
  \/ o \in Items /\ Removing(Parent[o])

DocArrives(o) ==
  \/ docs[o] = expected[o]
  \/ \E m \in BagToSet(mirrors) : m.of = o
  \/ /\ o \in Items
     /\ expected[Parent[o]] = Absent
     /\ \/ sync[Parent[o]].pc = "clean"
        \/ inbox[Parent[o]] # << >>
        \/ docs[Parent[o]] # Absent /\ \E m \in BagToSet(mirrors) : m.of = Parent[o]

ArriveInv ==
  calm => /\ Rooted /\ JobCarries
          /\ \A m \in BagToSet(mirrors) : MirrorCarries(m)
          /\ \A k \in Slots : SyncCarries(k)
          /\ \A o \in Objects : VersionsCarry(o) /\ RowArrives(o) /\ DocArrives(o)

\* A listener that takes the last version of o sees to what is expected of it.
Delivered(o) ==
  /\ rows'[o] = expected[o] \/ sync'[o].pc = "write"
  /\ o \in Sections /\ expected[o] = Absent =>
       sync'[o].pc = "clean" /\ \A i \in Items : Parent[i] = o => rows'[i] = Absent

\* A step that brings rows and documents closer to what is expected, and drops nothing of
\* what is on its way.
Approaches ==
  /\ expected' = expected
  /\ \A o \in Objects : rows'[o] \in { rows[o], expected[o] } /\ docs'[o] \in { docs[o], expected[o] }
  /\ \A o \in Objects : docs'[o] = docs[o] \/ inbox'[o] # << >>
  /\ \A m \in BagToSet(mirrors) :
       \/ \E l \in BagToSet(mirrors') : l.of = m.of
       \/ docs'[m.of] = expected[m.of] /\ (docs[m.of] = Absent \/ inbox'[m.of] # << >>)
  /\ \A o \in Objects : inbox[o] # << >> => inbox'[o] # << >> \/ Delivered(o)
  /\ \A o \in Objects :
       \/ sync'[o] = sync[o]
       \/ sync[o].pc = "idle"
       \/ sync[o].pc = "write" /\ rows'[o] = expected[o]
       \/ sync[o].pc = "clean" /\ \A i \in Items : Parent[i] = o => docs'[i] = Absent

LEMMA RowsArrive ==
  ASSUME Rooted, Approaches, NEW o \in Objects, RowArrives(o)
  PROVE  RowArrives(o)'
<1>1. /\ expected' = expected /\ rows'[o] \in { rows[o], expected[o] }
      /\ inbox[o] # << >> => inbox'[o] # << >> \/ Delivered(o)
      /\ \/ sync'[o] = sync[o] \/ sync[o].pc # "write" \/ rows'[o] = expected[o]
  BY DEF Approaches
<1>2. CASE rows[o] = expected[o]
  BY <1>1, <1>2 DEF RowArrives
<1>3. CASE inbox[o] # << >>
  BY <1>1, <1>3 DEF RowArrives, Delivered
<1>4. CASE sync[o].pc = "write"
  BY <1>1, <1>4 DEF RowArrives
<1>5. CASE o \in Items /\ Removing(Parent[o])
  <2>1. Parent[o] \in Sections /\ Parent[o] \in Objects /\ o \in Objects \ Restaurants
    BY <1>5, KindsOfObjects
  <2>2. expected[Parent[o]] = Absent /\ inbox[Parent[o]] # << >> /\ expected[o] = Absent
    BY <1>5, <2>1 DEF Removing, Rooted
  <2>3. inbox'[Parent[o]] # << >> \/ rows'[o] = Absent
    BY <1>5, <2>1, <2>2 DEF Approaches, Delivered
  <2> QED
    BY <1>1, <1>5, <2>2, <2>3 DEF RowArrives, Removing
<1> QED
  BY <1>2, <1>3, <1>4, <1>5 DEF RowArrives

LEMMA DocsArrive ==
  ASSUME Rooted, Approaches, NEW o \in Objects, DocArrives(o)
  PROVE  DocArrives(o)'
<1>1. expected' = expected /\ docs'[o] \in { docs[o], expected[o] }
  BY DEF Approaches
<1>2. CASE docs[o] = expected[o]
  BY <1>1, <1>2 DEF DocArrives
<1>3. CASE \E m \in BagToSet(mirrors) : m.of = o
  BY <1>1, <1>3 DEF DocArrives, Approaches
<1>4. CASE /\ o \in Items /\ expected[Parent[o]] = Absent
           /\ \/ sync[Parent[o]].pc = "clean"
              \/ inbox[Parent[o]] # << >>
              \/ docs[Parent[o]] # Absent /\ \E m \in BagToSet(mirrors) : m.of = Parent[o]
  <2>1. PICK s \in Sections : s = Parent[o] /\ s \in Objects /\ o \in Objects \ Restaurants /\ o \in Items
    BY <1>4, KindsOfObjects
  <2>2. expected[s] = Absent /\ expected[o] = Absent
    BY <1>4, <2>1 DEF Rooted
  <2>3. CASE inbox[s] # << >>
    <3>1. inbox'[s] # << >> \/ sync'[s].pc = "clean"
      BY <2>1, <2>2, <2>3 DEF Approaches, Delivered
    <3> QED
      BY <1>1, <2>1, <2>2, <3>1 DEF DocArrives
  <2>4. CASE sync[s].pc = "clean"
    <3>1. sync'[s] = sync[s] \/ docs'[o] = Absent
      BY <2>1, <2>4 DEF Approaches
    <3> QED
      BY <1>1, <2>1, <2>2, <2>4, <3>1 DEF DocArrives
  <2>5. CASE docs[s] # Absent /\ \E m \in BagToSet(mirrors) : m.of = s
    <3>1. inbox'[s] # << >> \/ (docs'[s] = docs[s] /\ \E l \in BagToSet(mirrors') : l.of = s)
      BY <2>1, <2>5 DEF Approaches
    <3> QED
      BY <1>1, <2>1, <2>2, <2>5, <3>1 DEF DocArrives
  <2> QED
    BY <1>4, <2>1, <2>3, <2>4, <2>5
<1> QED
  BY <1>2, <1>3, <1>4 DEF DocArrives

LEMMA MirrorStays ==
  ASSUME Approaches, NEW m, MirrorCarries(m), m.of \in Objects
  PROVE  MirrorCarries(m)'
<1>1. expected' = expected /\ rows'[m.of] \in { rows[m.of], expected[m.of] }
  BY DEF Approaches
<1>2. m.op = "fresh" => rows'[m.of] = expected'[m.of] /\ rows'[m.of] # Absent
  BY <1>1 DEF MirrorCarries
<1>3. ~m.resolved /\ m.of \notin Restaurants => rows'[Parent[m.of]] # Absent /\ expected'[Parent[m.of]] # Absent
  BY <1>1, KindsOfObjects DEF MirrorCarries, Approaches
<1> QED
  BY <1>1, <1>2, <1>3 DEF MirrorCarries

LEMMA SyncStays ==
  ASSUME TypeInv, Approaches, NEW k \in Slots, SyncCarries(k), sync'[k] = sync[k]
  PROVE  SyncCarries(k)'
<1>1. expected' = expected /\ sync[k].of \in Objects /\ (sync[k].pc = "write" => sync[k].value # Absent)
  BY DEF Approaches, TypeInv, MenuTypeOK, SyncStates
<1>2. rows'[sync[k].of] \in { rows[sync[k].of], expected[sync[k].of] }
  BY <1>1 DEF Approaches
<1> QED
  BY <1>1, <1>2 DEF SyncCarries

\* A step that approaches, and schedules, reads and tells nothing that is not expected.
LEMMA Approaching ==
  ASSUME TypeInv, TypeInv', ArriveInv, calm, Approaches, JobCarries',
         \A m \in BagToSet(mirrors') : m \in BagToSet(mirrors) \/ MirrorCarries(m),
         \A k \in Slots : sync'[k] = sync[k] \/ SyncCarries(k)',
         \A o \in Objects : \A n \in 1 .. Len(inbox'[o]) : inbox'[o][n] = expected[o]
  PROVE  ArriveInv'
<1>1. /\ Rooted /\ (\A m \in BagToSet(mirrors) : MirrorCarries(m))
      /\ (\A k \in Slots : SyncCarries(k)) /\ (\A o \in Objects : RowArrives(o) /\ DocArrives(o))
  BY DEF ArriveInv
<1>2. expected' = expected
  BY DEF Approaches
<1>3. \A m \in BagToSet(mirrors') : MirrorCarries(m)'
  <2>1. \A m \in BagToSet(mirrors') : MirrorCarries(m) /\ m.of \in Objects
    BY <1>1 DEF TypeInv, MenuTypeOK, Mirrors
  <2> QED
    BY <2>1, MirrorStays
<1>4. \A k \in Slots : SyncCarries(k)'
  BY <1>1, SyncStays
<1>5. Rooted'
  BY <1>1, <1>2, KindsOfObjects DEF Rooted, Approaches
<1>6. \A o \in Objects : VersionsCarry(o)' /\ RowArrives(o)' /\ DocArrives(o)'
  BY <1>1, <1>2, RowsArrive, DocsArrive DEF VersionsCarry
<1> QED
  BY <1>3, <1>4, <1>5, <1>6 DEF ArriveInv

\* A version that is told is the expected one.
LEMMA ExpectedTold ==
  ASSUME TypeInv, NEW o \in Objects, VersionsCarry(o), inbox'[o] \in { inbox[o], Append(inbox[o], expected[o]) }
  PROVE  \A n \in 1 .. Len(inbox'[o]) : inbox'[o][n] = expected[o]
<1>1. inbox[o] \in Seq(Values) /\ expected[o] \in Values
  BY DEF TypeInv, MenuTypeOK
<1>2. CASE inbox'[o] = inbox[o]
  BY <1>2 DEF VersionsCarry
<1>3. CASE inbox'[o] = Append(inbox[o], expected[o])
  <2>1. \A n \in 1 .. Len(inbox'[o]) : inbox'[o][n] = expected[o] \/ (n \in 1 .. Len(inbox[o]) /\ inbox'[o][n] = inbox[o][n])
    BY <1>1, <1>3, AppendLast
  <2> QED
    BY <2>1 DEF VersionsCarry
<1> QED
  BY <1>2, <1>3

LEMMA ExpectedTaken ==
  ASSUME TypeInv, NEW o \in Objects, VersionsCarry(o), inbox[o] # << >>
  PROVE  /\ Head(inbox[o]) = expected[o]
         /\ \A n \in 1 .. Len(Tail(inbox[o])) : Tail(inbox[o])[n] = expected[o]
<1>1. inbox[o] \in Seq(Values)
  BY DEF TypeInv, MenuTypeOK
<1>2. /\ Head(inbox[o]) = inbox[o][1] /\ 1 \in 1 .. Len(inbox[o])
      /\ \A n \in 1 .. Len(Tail(inbox[o])) : n + 1 \in 1 .. Len(inbox[o]) /\ Tail(inbox[o])[n] = inbox[o][n + 1]
  BY <1>1, TailLast
<1> QED
  BY <1>2 DEF VersionsCarry

LEMMA RowsWithout ==
  ASSUME TypeInv, NEW S, rows' = Without(rows, S)
  PROVE  \A o \in Objects : rows'[o] = IF o \in S THEN Absent ELSE rows[o]
<1>1. rows \in [ Objects -> Values ]
  BY DEF TypeInv, MenuTypeOK
<1> QED
  BY <1>1, WithoutIs

\* When everything is quiet and calm, the last input stands.
LEMMA QuietSettles ==
  ASSUME TypeInv, ArriveInv, Quiet, calm
  PROVE  /\ BagToSet(mirrors) = {} /\ job.pc = "idle" /\ job.todo = {} /\ Rooted
         /\ \A o \in Objects : Settled(o) /\ inbox[o] = << >>
         /\ \A k \in Slots : sync[k].pc = "idle"
<1>1. /\ BagToSet(mirrors) = {} /\ job.pc = "idle" /\ (\A o \in Objects : inbox[o] = << >>)
      /\ \A k \in Slots : sync[k].pc = "idle"
  BY BagNone DEF Quiet
<1>2. Rooted /\ job.todo = {} /\ \A o \in Objects : RowArrives(o) /\ DocArrives(o)
  BY <1>1 DEF ArriveInv, JobCarries
<1>3. ASSUME NEW o \in Objects PROVE Settled(o)
  <2>1. sync[o].pc = "idle" /\ inbox[o] = << >>
    BY <1>1, KindsOfObjects
  <2>2. o \in Items => Parent[o] \in Objects /\ sync[Parent[o]].pc = "idle" /\ inbox[Parent[o]] = << >>
    BY <1>1, KindsOfObjects
  <2> QED
    BY <1>1, <1>2, <2>1, <2>2 DEF RowArrives, DocArrives, Settled, Removing
<1> QED
  BY <1>1, <1>2, <1>3

\* After an input that found everything quiet.
LEMMA AfterInput ==
  ASSUME job.pc = "idle", job.todo = {}, job' = job, Rooted',
         \A m \in BagToSet(mirrors') : MirrorCarries(m)',
         \A k \in Slots : sync'[k].pc = "idle" \/ SyncCarries(k)',
         \A o \in Objects : VersionsCarry(o)' /\ RowArrives(o)' /\ DocArrives(o)'
  PROVE  ArriveInv'
<1>1. JobCarries'
  BY DEF JobCarries
<1>2. \A k \in Slots : SyncCarries(k)'
  BY DEF SyncCarries
<1> QED
  BY <1>1, <1>2 DEF ArriveInv

LEMMA CallArrives == ASSUME TypeInv, FlightInv, ArriveInv, Call, calm' PROVE ArriveInv'
<1>1. ASSUME NEW x \in Objects, NEW v \in Contents, NEW ms \in Scheduled(x, v), Creates(x, v, ms) \/ Updates(x, v, ms)
      PROVE  ArriveInv'
  <2>1. /\ v \in Values /\ v # Absent /\ Input("api", Only(x, v)) /\ Schedule(ms) /\ rows' = [ rows EXCEPT ![x] = v ]
        /\ ParentThere(x) \/ rows[x] # Absent
        /\ UNCHANGED << docs, inbox, sync, job >>
    BY <1>1, KindsOfObjects DEF Creates, Updates
  <2>2. /\ calm /\ Quiet
        /\ \A o \in Objects : expected'[o] = IF o = x THEN v ELSE expected[o]
    BY <2>1, OnlyInput
  <2>3. /\ BagToSet(mirrors) = {} /\ job.pc = "idle" /\ job.todo = {} /\ Rooted
        /\ \A o \in Objects : Settled(o) /\ inbox[o] = << >>
        /\ \A k \in Slots : sync[k].pc = "idle"
    BY <2>2, QuietSettles
  <2>4. \A o \in Objects : rows'[o] = expected'[o] /\ (o # x => docs'[o] = expected'[o] /\ rows'[o] = rows[o])
    BY <2>1, <2>2, <2>3 DEF Settled, TypeInv, MenuTypeOK
  <2>5. BagToSet(mirrors') = ms /\ MirrorOf(x, v) \in ms /\ MirrorOf(x, v).of = x
    <3>1. ms \subseteq Mirrors /\ MirrorOf(x, v) \in ms
      BY ScheduledIs
    <3>2. BagToSet(mirrors') = BagToSet(mirrors) \cup ms
      BY <2>1, <3>1, ScheduleIs
    <3> QED
      BY <2>3, <3>1, <3>2, MirrorOfIs
  <2>6. x \notin Restaurants => rows[Parent[x]] # Absent /\ Parent[x] # x /\ Parent[x] \in Objects
    <3>1. rows[x] # Absent => expected[x] # Absent
      BY <2>3 DEF Settled
    <3> QED
      BY <2>1, <2>3, <3>1, KindsOfObjects DEF ParentThere, Rooted
  <2>7. x \notin Restaurants => rows'[Parent[x]] # Absent /\ expected'[Parent[x]] # Absent
    BY <2>4, <2>6
  <2>8. \A m \in BagToSet(mirrors') : MirrorCarries(m)'
    BY <2>1, <2>2, <2>4, <2>5, <2>7, ScheduledKinds DEF MirrorCarries
  <2>9. Rooted'
    BY <2>1, <2>2, <2>3, <2>4, <2>7, KindsOfObjects DEF Rooted
  <2>10. \A o \in Objects : VersionsCarry(o)' /\ RowArrives(o)' /\ DocArrives(o)'
    <3>1. \A o \in Objects : VersionsCarry(o)'
      BY <2>1, <2>3 DEF VersionsCarry
    <3> QED
      BY <3>1, <2>4, <2>5 DEF RowArrives, DocArrives
  <2> QED
    BY <2>1, <2>3, <2>8, <2>9, <2>10, AfterInput
<1>2. ASSUME NEW x \in Objects \ Restaurants, Deletes(x, DeleteOf(x)) PROVE ArriveInv'
  <2>1. /\ Input("api", [ y \in Cascade(x) |-> Absent ]) /\ rows' = Without(rows, Cascade(x))
        /\ Schedule({ DeleteOf(x) }) /\ rows[x] # Absent /\ UNCHANGED << docs, inbox, sync, job >>
    BY <1>2 DEF Deletes
  <2>2. /\ calm /\ Quiet
        /\ \A o \in Objects : expected'[o] = IF o = x \/ (o \in Items /\ Parent[o] = x) THEN Absent ELSE expected[o]
    BY <2>1, CascadeInput, CascadeIs
  <2>3. /\ BagToSet(mirrors) = {} /\ job.pc = "idle" /\ job.todo = {} /\ Rooted
        /\ \A o \in Objects : Settled(o) /\ inbox[o] = << >>
        /\ \A k \in Slots : sync[k].pc = "idle"
    BY <2>2, QuietSettles
  <2>4. \A o \in Objects : rows'[o] = IF o = x \/ (o \in Items /\ Parent[o] = x) THEN Absent ELSE rows[o]
    <3>1. \A o \in Objects : rows'[o] = IF o \in Cascade(x) THEN Absent ELSE rows[o]
      BY <2>1, RowsWithout
    <3> QED
      BY <3>1, CascadeIs
  <2>5. \A o \in Objects : rows'[o] = expected'[o] /\ docs'[o] = expected[o]
    BY <2>1, <2>2, <2>3, <2>4 DEF Settled
  <2>6. BagToSet(mirrors') = { DeleteOf(x) } /\ DeleteOf(x).of = x /\ DeleteOf(x).op = "delete"
    BY <2>1, <2>3, ScheduleIs, DeleteOfIs
  <2>7. docs'[x] # Absent /\ expected[x] # Absent
    BY <2>1, <2>3 DEF Settled
  <2>8. MirrorCarries(DeleteOf(x))'
    <3>1. rows[Parent[x]] # Absent /\ expected[Parent[x]] # Absent /\ Parent[x] \in Objects /\ Parent[x] # x /\ Parent[x] \notin Items
      BY <2>3, <2>7, KindsOfObjects DEF Rooted
    <3>2. rows'[Parent[x]] # Absent /\ expected'[Parent[x]] # Absent /\ expected'[x] = Absent
      BY <2>2, <2>4, <3>1
    <3> QED
      BY <2>6, <3>2 DEF MirrorCarries
  <2>9. Rooted'
    <3>1. ASSUME NEW o \in Objects \ Restaurants, expected'[o] # Absent
          PROVE  expected'[Parent[o]] # Absent /\ rows'[Parent[o]] # Absent
      <4>1. o # x /\ ~(o \in Items /\ Parent[o] = x) /\ expected[o] # Absent
        BY <2>2, <3>1
      <4>2. Parent[o] \in Objects /\ Parent[o] \notin Items /\ Parent[o] # x
        BY <4>1, KindsOfObjects
      <4> QED
        BY <4>1, <4>2, <2>2, <2>3, <2>4 DEF Rooted
    <3> QED
      BY <3>1 DEF Rooted
  <2>10. ASSUME NEW o \in Objects PROVE VersionsCarry(o)' /\ RowArrives(o)' /\ DocArrives(o)'
    <3>1. VersionsCarry(o)' /\ RowArrives(o)'
      BY <2>1, <2>3, <2>5 DEF VersionsCarry, RowArrives
    <3>2. CASE o = x
      BY <3>1, <3>2, <2>6 DEF DocArrives
    <3>3. CASE o # x /\ o \in Items /\ Parent[o] = x
      <4>1. expected'[x] = Absent
        BY <2>2
      <4>2. docs'[Parent[o]] # Absent /\ \E m \in BagToSet(mirrors') : m.of = Parent[o]
        BY <3>3, <2>6, <2>7
      <4> QED
        BY <3>1, <3>3, <4>1, <4>2 DEF DocArrives
    <3>4. CASE o # x /\ ~(o \in Items /\ Parent[o] = x)
      BY <3>1, <3>4, <2>2, <2>5 DEF DocArrives
    <3> QED
      BY <3>1, <3>2, <3>3, <3>4
  <2> QED
    <3>1. \A m \in BagToSet(mirrors') : MirrorCarries(m)'
      BY <2>6, <2>8
    <3> QED
      BY <3>1, <2>1, <2>3, <2>9, <2>10, AfterInput
<1> QED
  BY <1>1, <1>2 DEF Call

\* A removal, of an app or an administrator, of x and of some of what is below it.
LEMMA RemovalArrives ==
  ASSUME TypeInv, ArriveInv, calm, Quiet, NEW x \in Objects \ Restaurants, NEW S, x \in S, S \subseteq Cascade(x),
         RemoveDocs(S), UNCHANGED << rows, mirrors, sync, job >>,
         \A o \in Objects : expected'[o] = IF o \in Cascade(x) THEN Absent ELSE expected[o]
  PROVE  ArriveInv'
<1>1. /\ BagToSet(mirrors) = {} /\ job.pc = "idle" /\ job.todo = {} /\ Rooted
      /\ \A o \in Objects : Settled(o) /\ inbox[o] = << >>
      /\ \A k \in Slots : sync[k].pc = "idle"
  BY QuietSettles
<1>2. \A o \in Objects : o \in Cascade(x) <=> o = x \/ (o \in Items /\ Parent[o] = x)
  BY CascadeIs
<1>3. ASSUME NEW o \in Objects
      PROVE  /\ docs'[o] = IF o \in S THEN Absent ELSE docs[o]
             /\ inbox'[o] = IF o \in S /\ docs[o] # Absent THEN << Absent >> ELSE << >>
             /\ o \in S /\ docs[o] # Absent => inbox'[o] # << >>
  <2>1. /\ docs'[o] = IF o \in S THEN Absent ELSE docs[o]
        /\ inbox'[o] = IF o \in S /\ docs[o] # Absent THEN Append(inbox[o], Absent) ELSE inbox[o]
    BY RemoveDocsIs
  <2>2. inbox[o] = << >> /\ Append(<< >>, Absent) = << Absent >> /\ << Absent >> # << >>
    BY <1>1
  <2> QED
    BY <2>1, <2>2
<1>4. ASSUME NEW o \in Objects PROVE VersionsCarry(o)'
  <2>1. CASE o \in S /\ docs[o] # Absent
    <3>1. inbox'[o] = << Absent >> /\ expected'[o] = Absent
      BY <2>1, <1>3
    <3> QED
      BY <3>1 DEF VersionsCarry
  <2>2. CASE ~(o \in S /\ docs[o] # Absent)
    <3>1. inbox'[o] = << >>
      BY <2>2, <1>3
    <3> QED
      BY <3>1 DEF VersionsCarry
  <2> QED
    BY <2>1, <2>2
<1>5. \A o \in Objects : rows'[o] = expected[o] /\ rows'[o] = docs[o]
  BY <1>1 DEF Settled
<1>6. expected[x] = Absent \/ Removing(x)'
  BY <1>2, <1>3, <1>5 DEF Removing
<1>7. ASSUME NEW o \in Objects PROVE RowArrives(o)' /\ DocArrives(o)'
  <2>1. CASE o \in S
    <3>1. rows'[o] = Absent \/ inbox'[o] # << >>
      BY <2>1, <1>3, <1>5
    <3> QED
      BY <2>1, <3>1, <1>3 DEF RowArrives, DocArrives
  <2>2. CASE o \in Cascade(x) \ S
    <3>1. o \in Items /\ Parent[o] = x /\ o \in Objects \ Restaurants
      BY <2>2, <1>2, KindsOfObjects
    <3>2. CASE Removing(x)'
      BY <3>1, <3>2 DEF RowArrives, DocArrives, Removing
    <3>3. CASE expected[x] = Absent
      <4>1. expected[o] = Absent /\ expected'[o] = Absent /\ docs'[o] = docs[o]
        BY <3>1, <3>3, <1>1, <1>3, <2>2 DEF Rooted
      <4> QED
        BY <4>1, <1>5 DEF RowArrives, DocArrives
    <3> QED
      BY <3>2, <3>3, <1>6
  <2>3. CASE o \notin Cascade(x)
    <3>1. expected'[o] = expected[o] /\ docs'[o] = docs[o]
      BY <2>3, <1>3
    <3> QED
      BY <3>1, <1>5 DEF RowArrives, DocArrives
  <2> QED
    BY <2>1, <2>2, <2>3
<1>8. Rooted'
  <2>1. ASSUME NEW o \in Objects \ Restaurants, expected'[o] # Absent
        PROVE  expected'[Parent[o]] # Absent /\ rows'[Parent[o]] # Absent
    <3>1. o # x /\ ~(o \in Items /\ Parent[o] = x) /\ expected[o] # Absent
      BY <1>2, <2>1
    <3>2. Parent[o] \in Objects /\ Parent[o] \notin Items /\ Parent[o] # x
      BY <3>1, KindsOfObjects
    <3> QED
      BY <3>1, <3>2, <1>1, <1>2 DEF Rooted
  <2> QED
    BY <2>1 DEF Rooted
<1> QED
  BY <1>1, <1>4, <1>7, <1>8, AfterInput

LEMMA WriteArrives == ASSUME TypeInv, FlightInv, ArriveInv, Write, calm' PROVE ArriveInv'
<1>1. ASSUME NEW x \in Objects, NEW v \in Contents, AppSet(x, v) PROVE ArriveInv'
  <2>1. /\ v \in Values /\ v # Absent /\ Input("app", Only(x, v)) /\ PutDoc(x, v)
        /\ x \notin Restaurants => docs[Parent[x]] # Absent
        /\ UNCHANGED << rows, mirrors, sync, job >>
    BY <1>1, KindsOfObjects DEF AppSet
  <2>2. /\ calm /\ Quiet
        /\ \A o \in Objects : expected'[o] = IF o = x THEN v ELSE expected[o]
    BY <2>1, OnlyInput
  <2>3. /\ BagToSet(mirrors) = {} /\ job.pc = "idle" /\ job.todo = {} /\ Rooted
        /\ \A o \in Objects : Settled(o) /\ inbox[o] = << >>
        /\ \A k \in Slots : sync[k].pc = "idle"
    BY <2>2, QuietSettles
  <2>4. /\ \A o \in Objects : docs'[o] = IF o = x THEN v ELSE docs[o]
        /\ \A o \in Objects : inbox'[o] = IF o = x THEN Append(inbox[x], v) ELSE inbox[o]
    BY <2>1, PutDocIs
  <2>5. inbox'[x] = << v >>
    <3>1. Append(<< >>, v) = << v >>
      OBVIOUS
    <3> QED
      BY <2>3, <2>4, <3>1, Zenon
  <2>6. \A o \in Objects : docs'[o] = expected'[o] /\ rows'[o] = expected[o]
    BY <2>1, <2>2, <2>3, <2>4 DEF Settled
  <2>7. ASSUME NEW o \in Objects PROVE VersionsCarry(o)' /\ RowArrives(o)' /\ DocArrives(o)'
    <3>1. CASE o = x
      <4>1. inbox'[o] = << v >> /\ expected'[o] = v /\ << v >> # << >>
        BY <3>1, <2>2, <2>5
      <4> QED
        BY <4>1, <2>6 DEF VersionsCarry, RowArrives, DocArrives
    <3>2. CASE o # x
      <4>1. inbox'[o] = << >> /\ expected'[o] = expected[o]
        BY <3>2, <2>2, <2>3, <2>4
      <4> QED
        BY <4>1, <2>6 DEF VersionsCarry, RowArrives, DocArrives
    <3> QED
      BY <3>1, <3>2
  <2>8. Rooted'
    <3>1. ASSUME NEW o \in Objects \ Restaurants, expected'[o] # Absent
          PROVE  expected'[Parent[o]] # Absent /\ rows'[Parent[o]] # Absent
      <4>1. Parent[o] \in Objects
        BY KindsOfObjects
      <4>2. CASE o = x
        <5>1. docs[Parent[o]] # Absent /\ Parent[o] # x
          BY <4>2, <2>1, KindsOfObjects
        <5>2. docs[Parent[o]] = expected[Parent[o]] /\ rows[Parent[o]] = expected[Parent[o]]
          BY <4>1, <2>3 DEF Settled
        <5> QED
          BY <4>1, <5>1, <5>2, <2>1, <2>2
      <4>3. CASE o # x
        <5>1. expected[Parent[o]] # Absent /\ rows[Parent[o]] # Absent
          BY <4>3, <3>1, <2>2, <2>3 DEF Rooted
        <5> QED
          BY <5>1, <4>1, <2>1, <2>2
      <4> QED
        BY <4>2, <4>3
    <3> QED
      BY <3>1 DEF Rooted
  <2>9. (\A m \in BagToSet(mirrors') : MirrorCarries(m)') /\ \A k \in Slots : sync'[k].pc = "idle"
    BY <2>1, <2>3
  <2> QED
    BY <2>1, <2>3, <2>7, <2>8, <2>9, AfterInput
<1>2. ASSUME NEW x \in Objects \ Restaurants, AppRemove(x) PROVE ArriveInv'
  <2>1. /\ Input("app", [ y \in Cascade(x) |-> Absent ]) /\ RemoveDocs({ x })
        /\ UNCHANGED << rows, mirrors, sync, job >>
    BY <1>2 DEF AppRemove
  <2>2. /\ calm /\ Quiet /\ x \in { x } /\ { x } \subseteq Cascade(x)
        /\ \A o \in Objects : expected'[o] = IF o \in Cascade(x) THEN Absent ELSE expected[o]
    BY <2>1, CascadeInput, CascadeIs
  <2> QED
    BY <2>1, <2>2, RemovalArrives
<1> QED
  BY <1>1, <1>2 DEF Write

LEMMA DecideArrives == ASSUME TypeInv, TypeInv', FlightInv, ArriveInv, Decide, calm' PROVE ArriveInv'
<1>1. ASSUME CompareVendorSync PROVE ArriveInv'
  <2>1. UNCHANGED << rows, docs, mirrors, inbox, sync, job, expected, calm >>
    BY <1>1 DEF CompareVendorSync, history
  <2> QED
    BY <2>1 DEF ArriveInv, Rooted, JobCarries, MirrorCarries, SyncCarries, VersionsCarry, RowArrives, DocArrives,
                Settled, Removing
<1>2. ASSUME NEW x \in Objects \ Restaurants, AdminRemove(x) PROVE ArriveInv'
  <2>1. /\ Input("admin", [ y \in Cascade(x) |-> Absent ]) /\ RemoveDocs(Cascade(x))
        /\ UNCHANGED << rows, mirrors, sync, job >>
    BY <1>2 DEF AdminRemove, Resolve
  <2>2. /\ calm /\ Quiet /\ x \in Cascade(x)
        /\ \A o \in Objects : expected'[o] = IF o \in Cascade(x) THEN Absent ELSE expected[o]
    BY <2>1, CascadeInput, CascadeIs
  <2> QED
    BY <2>1, <2>2, RemovalArrives
\* What an administrator pushes or pulls is what stands.
<1>3. ASSUME NEW x \in Objects, NEW v \in Values, v # Absent, Input("admin", Only(x, v)),
             v = rows[x] \/ v = docs[x], UNCHANGED << docs, inbox, job >>,
             calm /\ (\A o \in Objects : Settled(o)) /\ Rooted => rows' = rows,
             \A m \in BagToSet(mirrors') : \/ m \in BagToSet(mirrors)
                                           \/ m.op = "set" /\ m.of = x /\ m.value = v /\ m.resolved,
             \/ sync' = sync
             \/ sync' = [ sync EXCEPT !["admin"] = [ pc |-> "write", of |-> x, value |-> v, existing |-> FALSE ] ]
      PROVE  ArriveInv'
  <2>1. /\ calm /\ Quiet
        /\ \A o \in Objects : expected'[o] = IF o = x THEN v ELSE expected[o]
    <3>1. Input("admin", Only(x, v))
      BY <1>3
    <3> QED
      BY <3>1, OnlyInput
  <2>2. /\ BagToSet(mirrors) = {} /\ job.pc = "idle" /\ job.todo = {} /\ Rooted
        /\ \A o \in Objects : Settled(o) /\ inbox[o] = << >>
        /\ \A k \in Slots : sync[k].pc = "idle"
    BY <2>1, QuietSettles
  <2>3. rows' = rows /\ v = expected[x]
    BY <1>3, <2>1, <2>2 DEF Settled
  <2>4. \A o \in Objects : expected'[o] = expected[o] /\ rows'[o] = expected'[o] /\ docs'[o] = expected'[o]
    BY <1>3, <2>1, <2>2, <2>3 DEF Settled
  <2>5. Rooted'
    BY <2>2, <2>3, <2>4, KindsOfObjects DEF Rooted
  <2>6. \A m \in BagToSet(mirrors') : MirrorCarries(m)'
    BY <1>3, <2>2, <2>3, <2>4 DEF MirrorCarries
  <2>7. \A k \in Slots : sync'[k].pc = "idle" \/ SyncCarries(k)'
    <3>1. CASE sync' = sync
      BY <3>1, <2>2
    <3>2. CASE sync' = [ sync EXCEPT !["admin"] = [ pc |-> "write", of |-> x, value |-> v, existing |-> FALSE ] ]
      <4>1. sync'["admin"] = [ pc |-> "write", of |-> x, value |-> v, existing |-> FALSE ]
            /\ \A k \in Slots : k # "admin" => sync'[k] = sync[k]
        BY <3>2, KindsOfObjects, OneSlot
      <4>2. SyncCarries("admin")'
        BY <4>1, <2>3, <2>4 DEF SyncCarries
      <4> QED
        BY <4>1, <4>2, <2>2
    <3> QED
      BY <1>3, <3>1, <3>2
  <2>8. \A o \in Objects : VersionsCarry(o)' /\ RowArrives(o)' /\ DocArrives(o)'
    <3>1. \A o \in Objects : VersionsCarry(o)'
      BY <1>3, <2>2 DEF VersionsCarry
    <3> QED
      BY <3>1, <2>4 DEF RowArrives, DocArrives
  <2> QED
    BY <1>3, <2>2, <2>5, <2>6, <2>7, <2>8, AfterInput
<1>4. ASSUME NEW x \in Objects \ Restaurants, AdminPush(x) PROVE ArriveInv'
  <2> DEFINE v == rows[x]
             m == Mirror("set", x, v, TRUE)
  <2>1. /\ Input("admin", Only(x, v)) /\ v # Absent /\ mirrors' = mirrors (+) SetToBag({ m })
        /\ UNCHANGED << rows, docs, inbox, sync, job >>
    BY <1>4 DEF AdminPush, Resolve
  <2>2. v \in Values /\ m.op = "set" /\ m.of = x /\ m.value = v /\ m.resolved
    BY DEF TypeInv, MenuTypeOK, Mirror
  <2>3. BagToSet(mirrors') = BagToSet(mirrors) \cup { m }
    BY <2>1, BagPlus DEF TypeInv
  <2> HIDE DEF m
  <2> QED
    BY <2>1, <2>2, <2>3, <1>3
<1>5. ASSUME NEW s \in Sections, PullSection(s) PROVE ArriveInv'
  <2>1. /\ Input("admin", Only(s, docs[s])) /\ docs[s] # Absent /\ s \in Objects /\ docs[s] \in Values
        /\ sync' = [ sync EXCEPT !["admin"] = [ pc |-> "write", of |-> s, value |-> docs[s], existing |-> FALSE ] ]
        /\ UNCHANGED << rows, docs, mirrors, inbox, job >>
    BY <1>5, KindsOfObjects DEF PullSection, Resolve, TypeInv, MenuTypeOK
  <2> QED
    BY <2>1, <1>3
<1>6. ASSUME NEW i \in Items, PullItem(i) PROVE ArriveInv'
  <2>1. /\ Input("admin", Only(i, docs[i])) /\ docs[i] # Absent /\ i \in Objects /\ docs[i] \in Values
        /\ sync' = [ sync EXCEPT !["admin"] = [ pc |-> "write", of |-> i, value |-> docs[i], existing |-> FALSE ] ]
        /\ docs[Parent[i]] # Absent
        /\ rows' = IF ParentThere(i) THEN rows ELSE [ rows EXCEPT ![Parent[i]] = docs[Parent[i]] ]
        /\ UNCHANGED << docs, mirrors, inbox, job >>
    BY <1>6, KindsOfObjects DEF PullItem, Resolve, TypeInv, MenuTypeOK
  <2>2. ASSUME calm, \A o \in Objects : Settled(o), Rooted PROVE rows' = rows
    <3>1. rows[Parent[i]] = docs[Parent[i]]
      BY <2>2, KindsOfObjects DEF Settled
    <3> QED
      BY <2>1, <3>1 DEF ParentThere
  <2> QED
    BY <2>1, <2>2, <1>3
<1>7. ASSUME AdminWrite PROVE ArriveInv'
  <2> DEFINE c == sync["admin"]
             written == ParentThere(c.of) /\ (c.of \in Items \/ rows[c.of] = Absent)
  <2>1. /\ c.pc = "write" /\ sync' = [ sync EXCEPT !["admin"] = IdleSync ]
        /\ rows' = IF written THEN [ rows EXCEPT ![c.of] = c.value ] ELSE rows
        /\ UNCHANGED << docs, mirrors, inbox, job, expected, calm >>
    BY <1>7 DEF AdminWrite, history
  <2>2. calm /\ c.value = expected[c.of] /\ c.of \in Objects
    BY <2>1, KindsOfObjects DEF ArriveInv, SyncCarries, TypeInv, MenuTypeOK, SyncStates
  <2>3. \A o \in Objects : rows'[o] = IF written /\ o = c.of THEN c.value ELSE rows[o]
    BY <2>1, <2>2 DEF TypeInv, MenuTypeOK
  <2>4. sync'["admin"] = IdleSync /\ \A k \in Slots : k # "admin" => sync'[k] = sync[k]
    BY <2>1, KindsOfObjects, OneSlot
  <2> HIDE DEF c, written
  <2>5. Approaches
    BY <2>1, <2>2, <2>3, <2>4, KindsOfObjects DEF Approaches
  <2>6. SyncCarries("admin")'
    BY <2>4, IdleTypes DEF SyncCarries
  <2>7. JobCarries'
    BY <2>1, <2>2, <2>3 DEF JobCarries, ArriveInv, Settled
  <2>8. \A o \in Objects : \A n \in 1 .. Len(inbox'[o]) : inbox'[o][n] = expected[o]
    BY <2>1, <2>2 DEF ArriveInv, VersionsCarry
  <2> QED
    BY <2>1, <2>2, <2>4, <2>5, <2>6, <2>7, <2>8, Approaching
<1> QED
  BY <1>1, <1>2, <1>4, <1>5, <1>6, <1>7 DEF Decide

LEMMA ArriveArrives == ASSUME TypeInv, TypeInv', FlightInv, ArriveInv, Arrive, calm' PROVE ArriveInv'
<1>0. ASSUME UNCHANGED << expected, calm >>
      PROVE  /\ calm /\ Rooted /\ JobCarries /\ (\A m \in BagToSet(mirrors) : MirrorCarries(m))
             /\ (\A k \in Slots : SyncCarries(k))
             /\ (\A o \in Objects : VersionsCarry(o) /\ RowArrives(o) /\ DocArrives(o))
  BY <1>0 DEF ArriveInv
<1>1. ASSUME NEW m \in BagToSet(mirrors), MirrorResolve(m) PROVE ArriveInv'
  <2> DEFINE gone == (m.op = "fresh" /\ rows[m.of] = Absent) \/ ~ParentThere(m.of)
             v == IF m.op = "fresh" THEN rows[m.of] ELSE m.value
             n == Mirror(IF m.op = "fresh" THEN "set" ELSE m.op, m.of, v, TRUE)
  <2>1. /\ UNCHANGED << rows, docs, inbox, sync, job, expected, calm >> /\ ~m.resolved
        /\ BagToSet(mirrors) \ { m } \subseteq BagToSet(mirrors')
        /\ IF gone THEN BagToSet(mirrors') \subseteq BagToSet(mirrors)
                   ELSE n \in BagToSet(mirrors') /\ BagToSet(mirrors') \subseteq BagToSet(mirrors) \cup { n }
    BY <1>1, ResolveIs DEF history
  <2>2. /\ calm /\ Rooted /\ JobCarries /\ MirrorCarries(m) /\ \A o \in Objects : VersionsCarry(o)
    BY <2>1, <1>0
  <2>3. ~gone
    BY <2>1, <2>2 DEF MirrorCarries, ParentThere
  <2>4. n.of = m.of /\ n.resolved /\ n.op # "fresh" /\ MirrorCarries(n)
    BY <2>2 DEF Mirror, MirrorCarries
  <2> HIDE DEF n, gone
  <2>5. Approaches
    BY <2>1, <2>3, <2>4 DEF Approaches
  <2>6. JobCarries'
    BY <2>1, <2>2 DEF JobCarries, Settled
  <2>7. \A o \in Objects : \A j \in 1 .. Len(inbox'[o]) : inbox'[o][j] = expected[o]
    BY <2>1, <2>2 DEF VersionsCarry
  <2> QED
    BY <2>1, <2>2, <2>3, <2>4, <2>5, <2>6, <2>7, Approaching
<1>2. ASSUME NEW m \in BagToSet(mirrors), MirrorWrite(m) PROVE ArriveInv'
  <2>1. /\ m.of \in Objects /\ m.value \in Values /\ BagToSet(mirrors') \subseteq BagToSet(mirrors)
        /\ BagToSet(mirrors) \ { m } \subseteq BagToSet(mirrors')
        /\ (m.op = "set" /\ PutDoc(m.of, m.value)) \/ (m.op = "delete" /\ RemoveDocs({ m.of }))
        /\ UNCHANGED << rows, sync, job, expected, calm >>
    BY <1>2, MirrorWriteIs DEF Mirrors, history
  <2>2. /\ calm /\ Rooted /\ JobCarries /\ MirrorCarries(m) /\ \A o \in Objects : VersionsCarry(o)
    BY <2>1, <1>0
  <2>3. /\ \A o \in Objects : (inbox'[o] = inbox[o] /\ docs'[o] = docs[o]) \/ inbox'[o] # << >>
        /\ inbox'[m.of] # << >> \/ (m.op = "delete" /\ docs[m.of] = Absent)
    BY <2>1, PutTells, RemovalTells
  <2>4. ASSUME NEW o \in Objects
        PROVE  /\ docs'[o] = IF o = m.of THEN expected[o] ELSE docs[o]
               /\ inbox'[o] \in { inbox[o], Append(inbox[o], expected[o]) }
    <3>1. CASE m.op = "set" /\ PutDoc(m.of, m.value)
      <4>1. m.value = expected[m.of]
        BY <3>1, <2>2 DEF MirrorCarries
      <4>2. /\ docs'[o] = IF o = m.of THEN m.value ELSE docs[o]
            /\ inbox'[o] = IF o = m.of THEN Append(inbox[o], m.value) ELSE inbox[o]
        BY <3>1, <2>1, PutDocIs
      <4> QED
        BY <4>1, <4>2
    <3>2. CASE m.op = "delete" /\ RemoveDocs({ m.of })
      <4>1. expected[m.of] = Absent
        BY <3>2, <2>2 DEF MirrorCarries
      <4>2. /\ docs'[o] = IF o \in { m.of } THEN Absent ELSE docs[o]
            /\ inbox'[o] = IF o \in { m.of } /\ docs[o] # Absent THEN Append(inbox[o], Absent) ELSE inbox[o]
        BY <3>2, RemoveDocsIs
      <4> QED
        BY <4>1, <4>2
    <3> QED
      BY <2>1, <3>1, <3>2
  <2>5. \A o \in Objects : \A j \in 1 .. Len(inbox'[o]) : inbox'[o][j] = expected[o]
    BY <2>2, <2>4, ExpectedTold
  <2>6. Approaches
    BY <2>1, <2>2, <2>3, <2>4 DEF Approaches
  <2>7. JobCarries'
    BY <2>1, <2>2, <2>4 DEF JobCarries, Settled
  <2> QED
    BY <2>1, <2>2, <2>5, <2>6, <2>7, Approaching
<1>3. ASSUME NEW x \in Objects, Changed(x) PROVE ArriveInv'
  <2> DEFINE v == Head(inbox[x])
             c == SyncDoc(x, v)
  <2>1. Called(x) /\ sync' = [ sync EXCEPT ![x] = c ] /\ x \in Slots /\ v # Absent
        /\ UNCHANGED << rows, docs, mirrors, job, expected, calm >>
    BY <1>3, KindsOfObjects DEF Changed, Called, history
  <2>2. /\ v \in Values /\ inbox[x] # << >> /\ inbox[x] \in Seq(Values) /\ sync[x].pc = "idle"
        /\ \A o \in Objects : inbox'[o] = IF o = x THEN Tail(inbox[o]) ELSE inbox[o]
    BY <2>1, CalledIs
  <2>3. /\ calm /\ Rooted /\ JobCarries /\ \A o \in Objects : VersionsCarry(o)
    BY <2>1, <1>0
  <2>4. v = expected[x]
    BY <2>2, <2>3, ExpectedTaken DEF VersionsCarry
  <2>5. sync'[x] = c /\ \A j \in Slots : j # x => sync'[j] = sync[j]
    BY <2>1, OneSlot
  <2>6. rows[x] = expected[x] \/ c.pc = "write"
    <3>1. ParentThere(x)
      BY <2>1, <2>3, <2>4 DEF Rooted, ParentThere
    <3> QED
      BY <2>2, <2>4, <3>1, SyncDocIs, ReadingIs
  <2>7. SyncCarries(x)'
    <3>1. c = IdleSync \/ c = Reading(x, v)
      BY <2>2, SyncDocIs
    <3>2. CASE c = IdleSync
      BY <3>2, <2>5, IdleTypes DEF SyncCarries
    <3>3. CASE c = Reading(x, v)
      <4>1. c.pc = "write" /\ c.of = x /\ c.value = v /\ c.existing = (rows[x] # Absent)
        BY <2>2, <3>3, ReadingIs
      <4> HIDE DEF c, v
      <4> QED
        BY <4>1, <2>1, <2>4, <2>5 DEF SyncCarries
    <3> QED
      BY <3>1, <3>2, <3>3
  <2> HIDE DEF c, v
  <2>8. Approaches
    <3>1. Delivered(x)
      BY <2>1, <2>4, <2>5, <2>6 DEF Delivered
    <3> QED
      BY <2>1, <2>2, <2>5, <3>1, KindsOfObjects DEF Approaches
  <2>9. JobCarries'
    BY <2>1, <2>3 DEF JobCarries, Settled
  <2>10. \A o \in Objects : \A j \in 1 .. Len(inbox'[o]) : inbox'[o][j] = expected[o]
    BY <2>2, <2>3, ExpectedTaken DEF VersionsCarry
  <2> QED
    BY <2>1, <2>3, <2>5, <2>7, <2>8, <2>9, <2>10, Approaching
<1>4. ASSUME NEW k \in Objects \cup { "job" }, SyncWrite(k) PROVE ArriveInv'
  <2> DEFINE c == sync[k]
             written == IF c.existing THEN rows[c.of] # Absent ELSE rows[c.of] = Absent /\ ParentThere(c.of)
             ms == IF written /\ k = "job" THEN { MirrorOf(c.of, c.value) } ELSE {}
  <2>1. /\ k \in Slots /\ c.value \in Contents /\ c.pc = "write" /\ sync' = [ sync EXCEPT ![k] = IdleSync ]
        /\ rows' = IF written THEN [ rows EXCEPT ![c.of] = c.value ] ELSE rows
        /\ BagToSet(mirrors') = BagToSet(mirrors) \cup ms
        /\ UNCHANGED << docs, inbox, job, expected, calm >>
    BY <1>4, SyncWriteIs DEF history
  <2>2. c.of \in Objects /\ c.existing \in BOOLEAN /\ (k \in Objects => c.of = k) /\ c.value # Absent
    BY <1>4, <2>1, SyncWriteIs, KindsOfObjects DEF SyncStates, FlightInv, SlotsInv
  <2>3. /\ calm /\ Rooted /\ JobCarries /\ SyncCarries(k) /\ \A o \in Objects : VersionsCarry(o)
    BY <2>1, <1>0
  <2>4. sync'[k] = IdleSync /\ \A j \in Slots : j # k => sync'[j] = sync[j]
    BY <2>1, OneSlot
  <2>5. c.value = expected[c.of] /\ (c.of \notin Restaurants => rows[Parent[c.of]] # Absent /\ expected[Parent[c.of]] # Absent)
    BY <2>1, <2>2, <2>3 DEF SyncCarries, Rooted
  <2>6. written \/ rows[c.of] = expected[c.of]
    <3>1. /\ ~c.existing => rows[c.of] \in { Absent, expected[c.of] }
          /\ c.existing => rows[c.of] # Absent
      BY <2>1, <2>3 DEF SyncCarries
    <3>2. ParentThere(c.of)
      BY <2>5 DEF ParentThere
    <3> QED
      BY <3>1, <3>2, <2>2
  <2>7. \A m \in ms : MirrorCarries(m)
    BY <2>1, <2>2, <2>5, MirrorOfIs DEF MirrorCarries
  <2>8. \A o \in Objects : rows'[o] = IF o = c.of THEN expected[o] ELSE rows[o]
    BY <2>1, <2>2, <2>5, <2>6 DEF TypeInv, MenuTypeOK
  <2> HIDE DEF ms, written
  <2>9. Approaches
    BY <2>1, <2>2, <2>4, <2>8, KindsOfObjects DEF Approaches
  <2>10. JobCarries'
    BY <2>1, <2>3, <2>8 DEF JobCarries, Settled
  <2>11. \A o \in Objects : \A j \in 1 .. Len(inbox'[o]) : inbox'[o][j] = expected[o]
    BY <2>1, <2>3 DEF VersionsCarry
  <2>12. SyncCarries(k)'
    BY <2>4, IdleTypes DEF SyncCarries
  <2> QED
    BY <2>1, <2>3, <2>4, <2>7, <2>9, <2>10, <2>11, <2>12, Approaching
<1>5. ASSUME NEW s \in Sections, SectionRemoved(s) PROVE ArriveInv'
  <2> DEFINE c == [ IdleSync EXCEPT !.pc = "clean", !.of = s ]
  <2>0. c.pc = "clean"
    BY IdleTypes DEF SyncStates
  <2>1. /\ s \in Objects \ Restaurants /\ s \in Slots /\ Called(s) /\ sync' = [ sync EXCEPT ![s] = c ]
        /\ rows' = Without(rows, Cascade(s)) /\ Head(inbox[s]) = Absent
        /\ UNCHANGED << docs, mirrors, job, expected, calm >>
    BY <1>5, KindsOfObjects DEF SectionRemoved, Called, history
  <2> HIDE DEF c
  <2>2. /\ inbox[s] # << >> /\ inbox[s] \in Seq(Values) /\ sync[s].pc = "idle"
        /\ \A o \in Objects : inbox'[o] = IF o = s THEN Tail(inbox[o]) ELSE inbox[o]
    BY <2>1, CalledIs
  <2>3. /\ calm /\ Rooted /\ JobCarries /\ \A o \in Objects : VersionsCarry(o)
    BY <2>1, <1>0
  <2>4. \A o \in Objects : rows'[o] = IF o = s \/ (o \in Items /\ Parent[o] = s) THEN Absent ELSE rows[o]
    <3>1. \A o \in Objects : rows'[o] = IF o \in Cascade(s) THEN Absent ELSE rows[o]
      BY <2>1, RowsWithout
    <3> QED
      BY <2>1, <3>1, CascadeIs
  <2>5. expected[s] = Absent
    BY <2>1, <2>2, <2>3, ExpectedTaken
  <2>6. \A i \in Items : Parent[i] = s => expected[i] = Absent /\ rows'[i] = Absent
    BY <2>3, <2>4, <2>5, KindsOfObjects DEF Rooted
  <2>7. sync'[s] = c /\ \A j \in Slots : j # s => sync'[j] = sync[j]
    BY <2>1, OneSlot
  <2>8. Approaches
    <3>1. Delivered(s)
      BY <2>0, <2>1, <2>4, <2>5, <2>6, <2>7 DEF Delivered
    <3>2. \A o \in Objects : rows'[o] \in { rows[o], expected[o] }
      BY <2>4, <2>5, <2>6
    <3>3. \A o \in Objects : sync'[o] = sync[o] \/ sync[o].pc = "idle"
      BY <2>2, <2>7, KindsOfObjects
    <3> QED
      BY <2>1, <2>2, <3>1, <3>2, <3>3 DEF Approaches
  <2>9. JobCarries'
    BY <2>1, <2>3, <2>4, <2>5, <2>6 DEF JobCarries, Settled
  <2>10. \A o \in Objects : \A j \in 1 .. Len(inbox'[o]) : inbox'[o][j] = expected[o]
    BY <2>2, <2>3, ExpectedTaken DEF VersionsCarry
  <2>11. SyncCarries(s)'
    BY <2>0, <2>1, <2>5, <2>7 DEF SyncCarries
  <2> QED
    BY <2>1, <2>3, <2>7, <2>8, <2>9, <2>10, <2>11, Approaching
<1>6. ASSUME NEW s \in Sections, CleanItems(s) PROVE ArriveInv'
  <2>1. /\ RemoveDocs(ItemsOf(s)) /\ sync' = [ sync EXCEPT ![s] = IdleSync ] /\ s \in Slots /\ sync[s].pc = "clean"
        /\ UNCHANGED << rows, mirrors, job, expected, calm >>
    BY <1>6, KindsOfObjects DEF CleanItems, history
  <2>2. /\ calm /\ Rooted /\ JobCarries /\ SyncCarries(s) /\ \A o \in Objects : VersionsCarry(o)
    BY <2>1, <1>0
  <2>3. \A i \in Items : Parent[i] = s => expected[i] = Absent
    BY <2>1, <2>2, KindsOfObjects DEF SyncCarries, Rooted
  <2>4. ASSUME NEW o \in Objects
        PROVE  /\ docs'[o] = IF o \in Items /\ Parent[o] = s THEN Absent ELSE docs[o]
               /\ docs'[o] \in { docs[o], expected[o] }
               /\ inbox'[o] \in { inbox[o], Append(inbox[o], expected[o]) }
    <3>1. /\ docs'[o] = IF o \in ItemsOf(s) THEN Absent ELSE docs[o]
          /\ inbox'[o] = IF o \in ItemsOf(s) /\ docs[o] # Absent THEN Append(inbox[o], Absent) ELSE inbox[o]
      BY <2>1, RemoveDocsIs
    <3>2. o \in ItemsOf(s) <=> o \in Items /\ Parent[o] = s
      BY DEF ItemsOf
    <3> QED
      BY <2>3, <3>1, <3>2
  <2>5. sync'[s] = IdleSync /\ \A j \in Slots : j # s => sync'[j] = sync[j]
    BY <2>1, OneSlot
  <2>6. \A o \in Objects : (inbox'[o] = inbox[o] /\ docs'[o] = docs[o]) \/ inbox'[o] # << >>
    BY <2>1, RemovalTells
  <2>7. Approaches
    <3>1. \A i \in Items : Parent[i] = s => docs'[i] = Absent
      BY <2>4, KindsOfObjects
    <3> QED
      BY <2>1, <2>4, <2>5, <2>6, <3>1, KindsOfObjects DEF Approaches
  <2>8. JobCarries'
    BY <2>1, <2>2, <2>4 DEF JobCarries, Settled
  <2>9. \A o \in Objects : \A j \in 1 .. Len(inbox'[o]) : inbox'[o][j] = expected[o]
    BY <2>2, <2>4, ExpectedTold
  <2>10. SyncCarries(s)'
    BY <2>5, IdleTypes DEF SyncCarries
  <2> QED
    BY <2>1, <2>2, <2>5, <2>7, <2>8, <2>9, <2>10, Approaching
<1>7. ASSUME NEW i \in Items, ItemRemoved(i) PROVE ArriveInv'
  <2>1. /\ i \in Objects /\ Called(i) /\ rows' = Without(rows, { i }) /\ Head(inbox[i]) = Absent
        /\ UNCHANGED << docs, mirrors, sync, job, expected, calm >>
    BY <1>7, KindsOfObjects DEF ItemRemoved, Called, history
  <2>2. /\ inbox[i] # << >> /\ inbox[i] \in Seq(Values)
        /\ \A o \in Objects : inbox'[o] = IF o = i THEN Tail(inbox[o]) ELSE inbox[o]
    BY <2>1, CalledIs
  <2>3. /\ calm /\ Rooted /\ JobCarries /\ \A o \in Objects : VersionsCarry(o)
    BY <2>1, <1>0
  <2>4. \A o \in Objects : rows'[o] = IF o = i THEN Absent ELSE rows[o]
    BY <2>1, RowsWithout
  <2>5. expected[i] = Absent
    BY <2>1, <2>2, <2>3, ExpectedTaken
  <2>6. Approaches
    <3>1. Delivered(i)
      BY <2>1, <2>4, <2>5, KindsOfObjects DEF Delivered
    <3> QED
      BY <2>1, <2>2, <2>4, <2>5, <3>1 DEF Approaches
  <2>7. JobCarries'
    BY <2>1, <2>3, <2>4, <2>5 DEF JobCarries, Settled
  <2>8. \A o \in Objects : \A j \in 1 .. Len(inbox'[o]) : inbox'[o][j] = expected[o]
    BY <2>2, <2>3, ExpectedTaken DEF VersionsCarry
  <2> QED
    BY <2>1, <2>3, <2>6, <2>7, <2>8, Approaching
<1> QED
  BY <1>1, <1>2, <1>3, <1>4, <1>5, <1>6, <1>7 DEF Arrive

LEMMA WorkArrives == ASSUME TypeInv, TypeInv', FlightInv, ArriveInv, Work, calm' PROVE ArriveInv'
<1>0. ASSUME UNCHANGED << expected, calm >>
      PROVE  /\ calm /\ Rooted /\ JobCarries /\ \A o \in Objects : VersionsCarry(o)
  BY <1>0 DEF ArriveInv
<1>1. ASSUME UNCHANGED << rows, docs, mirrors, inbox, sync, expected >>, calm, JobCarries' PROVE ArriveInv'
  BY <1>1 DEF ArriveInv, Rooted, MirrorCarries, SyncCarries, VersionsCarry, RowArrives, DocArrives, Removing
<1>2. ASSUME JobStart PROVE ArriveInv'
  <2>1. /\ job.pc = "idle" /\ job' \in JobStates /\ calm /\ Quiet
        /\ job'.pc \in { "restaurants", "rows" }
        /\ (job'.pc = "rows" => job'.docs = docs /\ job'.todo = job.todo)
        /\ (job'.pc = "restaurants" => \A t \in job'.todo : t.of \in Objects /\ t.value = docs[t.of])
        /\ UNCHANGED << rows, docs, mirrors, inbox, sync, expected >>
    BY <1>2, JobStartIs
  <2>2. job.todo = {} /\ \A o \in Objects : Settled(o)
    BY <2>1, QuietSettles
  <2>3. (\A o \in Objects : Settled(o)') /\ \A o \in Objects : docs[o] = expected'[o]
    BY <2>1, <2>2 DEF Settled
  <2>4. JobCarries'
    BY <2>1, <2>2, <2>3 DEF JobCarries
  <2> QED
    BY <1>1, <2>1, <2>4
<1>3. ASSUME JobRows PROVE ArriveInv'
  <2>1. /\ job.pc = "rows" /\ job'.pc = "reconciling" /\ job'.todo = Pushes(job.docs) \cup Missing(job.docs)
        /\ UNCHANGED << rows, docs, mirrors, inbox, sync, expected, calm >>
    BY <1>3, JobRowsIs DEF history
  <2>2. calm /\ (\A o \in Objects : Settled(o)) /\ \A o \in Objects : job.docs[o] = expected[o]
    BY <2>1, <1>0 DEF JobCarries
  <2>3. \A t \in job'.todo : t.value = expected[t.of]
    <3>1. \A t \in job'.todo : t.of \in Objects /\ (t.value = rows[t.of] \/ t.value = job.docs[t.of])
      BY <2>1, TodosIs
    <3> QED
      BY <2>2, <3>1 DEF Settled
  <2>4. JobCarries'
    BY <2>1, <2>2, <2>3 DEF JobCarries, Settled
  <2> QED
    BY <1>1, <2>1, <2>2, <2>4
<1>4. ASSUME NEW t \in job.todo, JobNext(t) PROVE ArriveInv'
  <2>1. /\ t.of \in Objects /\ t.value \in Contents /\ t.value \in Values /\ sync["job"].pc = "idle"
        /\ job'.pc = job.pc /\ job'.docs = job.docs /\ job'.todo \subseteq job.todo
        /\ UNCHANGED << rows, mirrors, expected, calm >>
        /\ \/ sync' = [ sync EXCEPT !["job"] = SyncDoc(t.of, t.value) ] /\ UNCHANGED << docs, inbox >>
           \/ sync' = sync /\ (PutDoc(t.of, t.value) \/ UNCHANGED << docs, inbox >>)
    BY <1>4, JobNextIs, KindsOfObjects DEF history
  <2>2. /\ calm /\ Rooted /\ JobCarries /\ \A o \in Objects : VersionsCarry(o)
    BY <2>1, <1>0
  <2>3. t.value = expected[t.of] /\ job.pc # "idle" /\ \A o \in Objects : Settled(o)
    BY <2>2 DEF JobCarries
  <2>4. CASE sync' = sync /\ PutDoc(t.of, t.value)
    <3>1. ASSUME NEW o \in Objects
          PROVE  docs'[o] = expected[o] /\ inbox'[o] \in { inbox[o], Append(inbox[o], expected[o]) }
      <4>1. /\ docs'[o] = IF o = t.of THEN t.value ELSE docs[o]
            /\ inbox'[o] = IF o = t.of THEN Append(inbox[o], t.value) ELSE inbox[o]
        BY <2>1, <2>4, PutDocIs
      <4> QED
        BY <4>1, <2>3 DEF Settled
    <3>2. \A o \in Objects : (inbox'[o] = inbox[o] /\ docs'[o] = docs[o]) \/ inbox'[o] # << >>
      BY <2>1, <2>4, PutTells
    <3>3. Approaches
      BY <2>1, <2>4, <3>1, <3>2 DEF Approaches
    <3>4. JobCarries'
      BY <2>1, <2>2, <2>3, <3>1 DEF JobCarries, Settled
    <3>5. \A o \in Objects : \A j \in 1 .. Len(inbox'[o]) : inbox'[o][j] = expected[o]
      BY <2>2, <3>1, ExpectedTold
    <3> QED
      BY <2>1, <2>2, <2>4, <3>3, <3>4, <3>5, Approaching
  <2>5. JobCarries' \/ (sync' = sync /\ PutDoc(t.of, t.value))
    BY <2>1, <2>2, <2>3 DEF JobCarries, Settled
  <2>6. CASE sync' = sync /\ UNCHANGED << docs, inbox >>
    <3>1. JobCarries'
      BY <2>1, <2>2, <2>3, <2>6 DEF JobCarries, Settled
    <3> QED
      BY <2>1, <2>2, <2>6, <3>1, <1>1
  <2>7. CASE sync' = [ sync EXCEPT !["job"] = SyncDoc(t.of, t.value) ] /\ UNCHANGED << docs, inbox >>
    <3>1. sync'["job"] = SyncDoc(t.of, t.value) /\ \A k \in Slots : k # "job" => sync'[k] = sync[k]
      BY <2>7, KindsOfObjects, OneSlot
    <3>2. SyncCarries("job")'
      <4>1. SyncDoc(t.of, t.value) = IdleSync \/ SyncDoc(t.of, t.value) = Reading(t.of, t.value)
        BY <2>1, SyncDocIs
      <4>2. CASE SyncDoc(t.of, t.value) = IdleSync
        BY <4>2, <3>1, IdleTypes DEF SyncCarries
      <4>3. CASE SyncDoc(t.of, t.value) = Reading(t.of, t.value)
        <5>1. /\ sync'["job"].pc = "write" /\ sync'["job"].of = t.of /\ sync'["job"].value = t.value
              /\ sync'["job"].existing = (rows[t.of] # Absent)
          BY <2>1, <3>1, <4>3, ReadingIs
        <5> QED
          BY <5>1, <2>1, <2>3 DEF SyncCarries
      <4> QED
        BY <4>1, <4>2, <4>3
    <3>3. Approaches
      BY <2>1, <2>7, <3>1, KindsOfObjects DEF Approaches
    <3>4. JobCarries'
      BY <2>1, <2>2, <2>3, <2>7 DEF JobCarries, Settled
    <3>5. \A o \in Objects : \A j \in 1 .. Len(inbox'[o]) : inbox'[o][j] = expected[o]
      BY <2>2, <2>7 DEF VersionsCarry
    <3> QED
      BY <2>1, <2>2, <3>1, <3>2, <3>3, <3>4, <3>5, Approaching
  <2> QED
    BY <2>1, <2>4, <2>6, <2>7
<1>5. ASSUME JobAdvance PROVE ArriveInv'
  <2>1. /\ job.pc \notin { "idle", "rows" }
        /\ \/ job'.pc \in { "sections", "items" } /\ \A t \in job'.todo : t.of \in Objects /\ t.value = docs[t.of]
           \/ job'.pc = "idle" /\ job'.todo = {}
        /\ UNCHANGED << rows, docs, mirrors, inbox, sync, expected, calm >>
    BY <1>5, JobAdvanceIs DEF history
  <2>2. calm /\ \A o \in Objects : Settled(o)
    BY <2>1, <1>0 DEF JobCarries
  <2>3. JobCarries'
    BY <2>1, <2>2 DEF JobCarries, Settled
  <2> QED
    BY <1>1, <2>1, <2>2, <2>3
<1> QED
  BY <1>2, <1>3, <1>4, <1>5 DEF Work

LEMMA InitArrives == MenuInit => ArriveInv
<1> SUFFICES ASSUME MenuInit PROVE ArriveInv
  OBVIOUS
<1>1. /\ docs = rows /\ expected = rows /\ mirrors = EmptyBag /\ sync = [ k \in Slots |-> IdleSync ]
      /\ inbox = [ o \in Objects |-> << >> ] /\ job = IdleJob("pull")
  BY DEF MenuInit
<1>2. Rooted
  BY <1>1, InitRows, KindsOfObjects DEF Rooted, ForeignKeys, ParentThere
<1>3. JobCarries /\ (\A k \in Slots : SyncCarries(k)) /\ BagToSet(mirrors) = {}
  BY <1>1, IdleTypes, BagNone DEF JobCarries, SyncCarries
<1>4. \A o \in Objects : VersionsCarry(o) /\ RowArrives(o) /\ DocArrives(o)
  BY <1>1 DEF VersionsCarry, RowArrives, DocArrives
<1> QED
  BY <1>2, <1>3, <1>4 DEF ArriveInv

LEMMA StepArrives == ASSUME TypeInv, TypeInv', FlightInv, ArriveInv, [MenuNext]_menuVars PROVE ArriveInv'
<1>1. CASE UNCHANGED menuVars
  <2>1. UNCHANGED << rows, docs, mirrors, inbox, sync, job, expected, calm >>
    BY <1>1 DEF menuVars
  <2> QED
    BY <2>1 DEF ArriveInv, Rooted, JobCarries, MirrorCarries, SyncCarries, VersionsCarry, RowArrives, DocArrives,
                Settled, Removing
<1>2. CASE ~calm'
  BY <1>2 DEF ArriveInv
<1> QED
  BY <1>1, <1>2, MenuSteps, CallArrives, WriteArrives, DecideArrives, ArriveArrives, WorkArrives, FailEnds
\* However many restaurants, sections and items there are, and whatever calls, app writes,
\* mirrors, listeners and jobs do: rows and documents are of their types, and when all has
\* arrived and nothing was lost they agree (calls of RestaurantsService and FoodService,
\* the Prisma extension, the listeners and jobs of FirebaseSyncService).
THEOREM MenuAgrees == MenuSpec => []MenuInv
<1>1. MenuInit => TypeInv /\ FlightInv /\ CarryInv
  BY InitType, InitFlight, InitCarries
<1>2. TypeInv /\ FlightInv /\ CarryInv /\ [MenuNext]_menuVars => (TypeInv /\ FlightInv /\ CarryInv)'
  BY StepType, StepFlight, StepCarries
<1>3. TypeInv /\ FlightInv /\ CarryInv => MenuInv
  BY CarriedConverges DEF TypeInv, MenuInv
<1> QED
  BY <1>1, <1>2, <1>3, PTL DEF MenuSpec

\* However many objects there are: when each call, write of an app, settlement of an
\* administrator and run of a job came after everything before it had settled, the last
\* of them stands in row and document, in the fields both carry: a restaurant's status is
\* none of them (calls of RestaurantsService and FoodService, the Prisma extension, the
\* listeners and jobs of FirebaseSyncService, resolveVendorSync).
THEOREM LastStands == MenuSpec => []LastInputWins
<1>1. MenuInit => TypeInv /\ FlightInv /\ ArriveInv
  BY InitType, InitFlight, InitArrives
<1>2. TypeInv /\ FlightInv /\ ArriveInv /\ [MenuNext]_menuVars => (TypeInv /\ FlightInv /\ ArriveInv)'
  BY StepType, StepFlight, StepArrives
<1>3. TypeInv /\ FlightInv /\ ArriveInv => LastInputWins
  BY QuietSettles DEF LastInputWins, Settled
<1> QED
  BY <1>1, <1>2, <1>3, PTL DEF MenuSpec

(***************************************************************************)
(* RestaurantStatus                                                        *)
(***************************************************************************)

Standing == [ status : AccountStatus, active : BOOLEAN ]

LEMMA StatusReadType == ASSUME NEW d \in Documents PROVE StatusRead(d) \in AccountStatus
BY DEF StatusRead, Documents, Spellings, AccountStatus

LEMMA SyncTypes ==
  ASSUME StatusTypeOK, NEW d \in Documents
  PROVE  SyncRestaurantRow(d) \in Standing /\ SyncRestaurantToPostgres(d) \in Standing
BY StatusReadType DEF StatusTypeOK, SyncRestaurantRow, SyncRestaurantToPostgres, Standing, Documents

LEMMA EchoType ==
  ASSUME StatusTypeOK, NEW b \in BOOLEAN, Echo(b)
  PROVE  echoes' \in [ BOOLEAN -> Nat ] /\ echoes'[b] # 0
BY DEF StatusTypeOK, Echo

\* A write of the document is the last version each listener will see.
LEMMA PutType ==
  ASSUME StatusTypeOK, NEW d \in Documents, PutDocument(d)
  PROVE  /\ document' \in Documents /\ versions' \in [ Listeners -> Seq(Documents) ] /\ behind' = FALSE
         /\ \A l \in Listeners : versions'[l] # << >> /\ versions'[l][Len(versions'[l])] = document'
<1>1. \A l \in Listeners : versions'[l] = Append(versions[l], d) /\ versions[l] \in Seq(Documents)
  BY DEF StatusTypeOK, PutDocument
<1>2. \A l \in Listeners : /\ versions'[l] \in Seq(Documents) /\ versions'[l] # << >>
                           /\ versions'[l][Len(versions'[l])] = d
  BY <1>1, AppendLast
<1> QED
  BY <1>2 DEF PutDocument

LEMMA EmptyVersions == << >> \in Seq(Documents) /\ \A d \in Documents : << d >> \in Seq(Documents) /\ << d >> # << >>
OBVIOUS

LEMMA DecidingType ==
  ASSUME StatusTypeOK, NEW a \in Deciders, NEW s \in AccountStatus \cup { "idle" },
         deciding' = [ deciding EXCEPT ![a] = s ]
  PROVE  /\ deciding' \in [ Deciders -> AccountStatus \cup { "idle" } ] /\ deciding'[a] = s
         /\ \A b \in Deciders \ { a } : deciding'[b] = deciding[b]
BY DEF StatusTypeOK

LEMMA MoveType == ASSUME StatusTypeOK, Move PROVE moves' \in 0 .. MaxMoves /\ breaks' \in 0 .. MaxFaults
BY RestaurantStatusAssumption DEF StatusTypeOK, Move

LEMMA FaultType ==
  ASSUME StatusTypeOK, Fault PROVE moves' \in 0 .. MaxMoves /\ breaks' \in 0 .. MaxFaults /\ behind' = TRUE
BY RestaurantStatusAssumption DEF StatusTypeOK, Fault

(***************************************************************************)
(* The row follows the document                                            *)
(***************************************************************************)

\* The last version a listener has not carried is the document as it is.
LastIsDocument == \A l \in Listeners : versions[l] # << >> => versions[l][Len(versions[l])] = document

\* No write of the document is to come, and none was missed.
Complete == (\A b \in BOOLEAN : echoes[b] = 0) /\ NoneDeciding /\ ~behind

Carried(l) == versions[l] = << >>

\* A listener that has carried everything has made the row what the document is.
RowFollows ==
  /\ Complete /\ owned /\ Carried("syncRestaurantToPostgres") => sqlRow.status = StatusRead(document)
  /\ Complete /\ Carried("syncRestaurant") /\ (owned => Carried("syncRestaurantToPostgres")) =>
       sqlRow.active = document.active

\* A decision made alone is the one in progress, or what both sides were told.
DecidedAlone ==
  /\ decided # "none"
  /\ clear =>
       /\ \A a \in Deciders : deciding[a] # "idle" =>
            deciding[a] = decided /\ \A b \in Deciders \ { a } : deciding[b] = "idle"
       /\ owned /\ NoneDeciding => document.status = decided
       /\ ~owned => sqlRow.status = decided

StatusIInv == StatusTypeOK /\ LastIsDocument /\ RowFollows /\ DecidedAlone

LEMMA StatusInitial == StatusInit => StatusIInv
<1> SUFFICES ASSUME StatusInit PROVE StatusIInv
  OBVIOUS
<1>1. StatusTypeOK
  <2>1. sqlRow \in [ status : AccountStatus, active : BOOLEAN ] /\ document \in Documents
    BY DEF StatusInit, AccountStatus, Spellings, Documents
  <2>2. versions \in [ Listeners -> Seq(Documents) ] /\ snapshot \in [ Jobs -> Seq(Documents) ]
    BY EmptyVersions DEF StatusInit
  <2>3. moves \in 0 .. MaxMoves /\ breaks \in 0 .. MaxFaults /\ decided \in Spellings
    BY RestaurantStatusAssumption DEF StatusInit, AccountStatus, Spellings
  <2> QED
    BY <2>1, <2>2, <2>3 DEF StatusInit, StatusTypeOK
<1>2. LastIsDocument
  BY DEF StatusInit, LastIsDocument
<1>3. RowFollows
  BY DEF StatusInit, RowFollows, StatusRead, AccountStatus
<1>4. DecidedAlone
  BY DEF StatusInit, DecidedAlone
<1> QED
  BY <1>1, <1>2, <1>3, <1>4 DEF StatusIInv

\* A step that writes the document, of a decision, an echo or an app, leaves the row to
\* the listeners.
LEMMA DocumentWritten ==
  ASSUME StatusIInv, NEW d \in Documents, PutDocument(d)
  PROVE  LastIsDocument' /\ RowFollows'
BY PutType DEF StatusIInv, LastIsDocument, RowFollows, Carried, Listeners

\* A step after which a write of the document is to come, or was missed, promises nothing
\* about the row.
LEMMA Incomplete ==
  ASSUME StatusIInv, ~Complete', UNCHANGED << versions, document >>
  PROVE  LastIsDocument' /\ RowFollows'
BY DEF StatusIInv, LastIsDocument, RowFollows

LEMMA StatusInductive ==
  ASSUME StatusIInv, [StatusNext]_statusVars PROVE StatusIInv'
<1>0. /\ StatusTypeOK /\ sqlRow \in Standing /\ document \in Documents
      /\ deciding \in [ Deciders -> AccountStatus \cup { "idle" } ]
  BY DEF StatusIInv, StatusTypeOK, Standing
<1>1. ASSUME NEW a \in Deciders, NEW s \in AdminStatuses, DecideRow(a, s) PROVE StatusIInv'
  <2>1. s \in AccountStatus /\ s \in Spellings /\ s # "none" /\ s # "idle"
    BY RestaurantStatusAssumption DEF AccountStatus, Spellings
  <2>2. /\ moves' \in 0 .. MaxMoves /\ breaks' \in 0 .. MaxFaults
        /\ echoes' \in [ BOOLEAN -> Nat ] /\ echoes'[s = "ACTIVE"] # 0
        /\ deciding' \in [ Deciders -> AccountStatus \cup { "idle" } ] /\ deciding'[a] = s
        /\ \A b \in Deciders \ { a } : deciding'[b] = deciding[b]
    BY <1>0, <1>1, <2>1, MoveType, EchoType, DecidingType DEF DecideRow
  <2>3. StatusTypeOK'
    BY <1>0, <1>1, <2>1, <2>2 DEF DecideRow, StatusTypeOK, NoneDeciding
  <2>4. LastIsDocument' /\ RowFollows'
    BY <1>1, <2>1, <2>2, Incomplete DEF DecideRow, Complete, NoneDeciding
  <2>5. DecidedAlone'
    BY <1>1, <2>1, <2>2 DEF DecideRow, DecidedAlone, NoneDeciding
  <2> QED
    BY <2>3, <2>4, <2>5 DEF StatusIInv
<1>2. ASSUME NEW a \in Deciders, DecideDocument(a) PROVE StatusIInv'
  <2>1. PICK d \in Documents : d.status = deciding[a] /\ PutDocument(d)
    BY <1>0, <1>2 DEF DecideDocument, Documents, Spellings
  <2>2. /\ deciding' \in [ Deciders -> AccountStatus \cup { "idle" } ] /\ deciding'[a] = "idle"
        /\ \A b \in Deciders \ { a } : deciding'[b] = deciding[b]
    BY <1>0, <1>2, DecidingType DEF DecideDocument
  <2>3. StatusTypeOK'
    BY <1>0, <1>2, <2>1, <2>2, PutType DEF DecideDocument, StatusTypeOK
  <2>4. document' = d
    BY <2>1 DEF PutDocument
  <2>5. DecidedAlone'
    BY <1>2, <2>1, <2>2, <2>4 DEF DecideDocument, DecidedAlone, NoneDeciding, StatusIInv
  <2> QED
    BY <2>1, <2>3, <2>5, DocumentWritten DEF StatusIInv
<1>3. ASSUME NEW a \in Deciders, DecideFails(a) PROVE StatusIInv'
  <2>1. deciding' \in [ Deciders -> AccountStatus \cup { "idle" } ]
    BY <1>0, <1>3, DecidingType DEF DecideFails
  <2>2. StatusTypeOK'
    BY <1>0, <1>3, <2>1, FaultType DEF DecideFails, StatusTypeOK
  <2>3. LastIsDocument' /\ RowFollows'
    BY <1>0, <1>3, FaultType, Incomplete DEF DecideFails, Complete
  <2> QED
    BY <1>3, <2>2, <2>3 DEF DecideFails, StatusIInv, DecidedAlone
<1>4. CASE OtherUpdate
  <2>1. /\ sqlRow.active \in BOOLEAN /\ echoes' \in [ BOOLEAN -> Nat ] /\ echoes'[sqlRow.active] # 0
        /\ moves' \in 0 .. MaxMoves /\ breaks' \in 0 .. MaxFaults
    BY <1>0, <1>4, EchoType, MoveType DEF OtherUpdate, Standing
  <2>2. StatusTypeOK'
    BY <1>0, <1>4, <2>1 DEF OtherUpdate, StatusTypeOK
  <2>3. LastIsDocument' /\ RowFollows'
    BY <1>4, <2>1, Incomplete DEF OtherUpdate, Complete
  <2> QED
    BY <1>4, <2>2, <2>3 DEF OtherUpdate, StatusIInv, DecidedAlone, NoneDeciding
<1>5. ASSUME NEW active \in BOOLEAN, EchoWrites(active) PROVE StatusIInv'
  <2>1. PICK d \in Documents : d.status = document.status /\ PutDocument(d)
    BY <1>0, <1>5 DEF EchoWrites, Documents
  <2>2. echoes' \in [ BOOLEAN -> Nat ]
    BY <1>0, <1>5 DEF EchoWrites, StatusTypeOK
  <2>3. StatusTypeOK'
    BY <1>0, <1>5, <2>1, <2>2, PutType DEF EchoWrites, StatusTypeOK
  <2>4. document' = d
    BY <2>1 DEF PutDocument
  <2>5. DecidedAlone'
    BY <1>5, <2>1, <2>4 DEF EchoWrites, DecidedAlone, NoneDeciding, StatusIInv
  <2> QED
    BY <2>1, <2>3, <2>5, DocumentWritten DEF StatusIInv
<1>6. ASSUME NEW active \in BOOLEAN, EchoLost(active) PROVE StatusIInv'
  <2>1. echoes' \in [ BOOLEAN -> Nat ]
    BY <1>0, <1>6 DEF EchoLost, StatusTypeOK
  <2>2. StatusTypeOK'
    BY <1>0, <1>6, <2>1, FaultType DEF EchoLost, StatusTypeOK
  <2>3. LastIsDocument' /\ RowFollows'
    BY <1>0, <1>6, FaultType, Incomplete DEF EchoLost, Complete
  <2> QED
    BY <1>6, <2>2, <2>3 DEF EchoLost, StatusIInv, DecidedAlone, NoneDeciding
<1>7. ASSUME NEW s \in AppStatuses, NEW active \in BOOLEAN, AppPuts(s, active) PROVE StatusIInv'
  <2>1. s \in Spellings /\ s # "none"
    BY RestaurantStatusAssumption
  <2>2. PICK d \in Documents : d.status = s /\ PutDocument(d)
    BY <1>7, <2>1 DEF AppPuts, Documents
  <2>3. StatusTypeOK'
    BY <1>0, <1>7, <2>1, <2>2, PutType, MoveType DEF AppPuts, StatusTypeOK, NoneDeciding
  <2>4. document' = d
    BY <2>2 DEF PutDocument
  <2>5. DecidedAlone'
    BY <1>7, <2>1, <2>2, <2>4 DEF AppPuts, DecidedAlone, NoneDeciding, StatusIInv
  <2> QED
    BY <2>2, <2>3, <2>5, DocumentWritten DEF StatusIInv
<1>8. ASSUME NEW l \in Listeners, Carry(l) PROVE StatusIInv'
  <2> DEFINE d == Head(versions[l])
  <2>1. versions[l] \in Seq(Documents) /\ versions[l] # << >>
    BY <1>0, <1>8 DEF Carry, StatusTypeOK
  <2>2. /\ d \in Documents /\ Tail(versions[l]) \in Seq(Documents)
        /\ Tail(versions[l]) # << >> => Tail(versions[l])[Len(Tail(versions[l]))] = versions[l][Len(versions[l])]
        /\ Tail(versions[l]) = << >> => d = versions[l][Len(versions[l])]
    BY <2>1, TailLast
  <2>3. versions[l][Len(versions[l])] = document
    BY <2>1 DEF StatusIInv, LastIsDocument
  <2>4. /\ versions' \in [ Listeners -> Seq(Documents) ] /\ versions'[l] = Tail(versions[l])
        /\ \A k \in Listeners \ { l } : versions'[k] = versions[k]
    BY <1>0, <1>8, <2>2 DEF Carry, StatusTypeOK
  <2>5. /\ SyncRestaurantRow(d) \in Standing /\ SyncRestaurantToPostgres(d) \in Standing
        /\ SyncRestaurantRow(d).status = sqlRow.status /\ SyncRestaurantRow(d).active = d.active
        /\ owned => SyncRestaurantToPostgres(d).status = StatusRead(d) /\ SyncRestaurantToPostgres(d).active = d.active
        /\ ~owned => SyncRestaurantToPostgres(d) = sqlRow
    BY <1>0, <2>2, SyncTypes DEF SyncRestaurantRow, SyncRestaurantToPostgres, Standing
  <2>6. sqlRow' = IF l = "syncRestaurant" THEN SyncRestaurantRow(d) ELSE SyncRestaurantToPostgres(d)
    BY <1>8 DEF Carry
  <2> HIDE DEF d
  <2>7. StatusTypeOK'
    <3>1. sqlRow' \in Standing
      BY <2>5, <2>6
    <3> QED
      BY <1>0, <1>8, <2>4, <3>1 DEF Carry, StatusTypeOK, Standing
  <2>8. LastIsDocument'
    BY <1>8, <2>2, <2>3, <2>4 DEF Carry, LastIsDocument, StatusIInv
  <2>9. Complete' <=> Complete
    BY <1>8 DEF Carry, Complete, NoneDeciding
  <2>10. RowFollows'
    <3>1. UNCHANGED << document, owned >> /\ StatusRead(document)' = StatusRead(document)
      BY <1>8 DEF Carry, StatusRead
    <3>2. CASE l = "syncRestaurant"
      <4>1. /\ sqlRow'.status = sqlRow.status /\ sqlRow'.active = d.active
            /\ versions'["syncRestaurantToPostgres"] = versions["syncRestaurantToPostgres"]
        BY <2>4, <2>5, <2>6, <3>2 DEF Listeners
      <4> QED
        BY <2>2, <2>3, <2>4, <2>9, <3>1, <3>2, <4>1 DEF RowFollows, Carried, StatusIInv
    <3>3. CASE l = "syncRestaurantToPostgres"
      <4>1. /\ versions'["syncRestaurant"] = versions["syncRestaurant"]
            /\ sqlRow' = SyncRestaurantToPostgres(d)
        BY <2>4, <2>6, <3>3 DEF Listeners
      <4> QED
        BY <2>2, <2>3, <2>4, <2>5, <2>9, <3>1, <3>3, <4>1 DEF RowFollows, Carried, StatusIInv
    <3> QED
      BY <3>2, <3>3 DEF Listeners
  <2>11. ~owned => sqlRow'.status = sqlRow.status
    BY <2>5, <2>6
  <2>12. DecidedAlone'
    BY <1>8, <2>11 DEF Carry, DecidedAlone, NoneDeciding, StatusIInv
  <2> QED
    BY <2>7, <2>8, <2>10, <2>12 DEF StatusIInv
<1>9. ASSUME NEW l \in Listeners, CarryFails(l) PROVE StatusIInv'
  <2>1. versions[l] \in Seq(Documents) /\ versions[l] # << >>
    BY <1>0, <1>9 DEF CarryFails, StatusTypeOK
  <2>2. /\ Tail(versions[l]) \in Seq(Documents)
        /\ Tail(versions[l]) # << >> => Tail(versions[l])[Len(Tail(versions[l]))] = versions[l][Len(versions[l])]
    BY <2>1, TailLast
  <2>3. /\ versions' \in [ Listeners -> Seq(Documents) ] /\ versions'[l] = Tail(versions[l])
        /\ \A k \in Listeners \ { l } : versions'[k] = versions[k]
    BY <1>0, <1>9, <2>2 DEF CarryFails, StatusTypeOK
  <2>4. StatusTypeOK'
    BY <1>0, <1>9, <2>3, FaultType DEF CarryFails, StatusTypeOK
  <2>5. LastIsDocument'
    BY <1>9, <2>1, <2>2, <2>3 DEF CarryFails, LastIsDocument, StatusIInv
  <2>6. RowFollows'
    BY <1>0, <1>9, FaultType DEF CarryFails, RowFollows, Complete
  <2> QED
    BY <1>9, <2>4, <2>5, <2>6 DEF CarryFails, StatusIInv, DecidedAlone, NoneDeciding
<1>10. ASSUME NEW j \in Jobs, JobReads(j) PROVE StatusIInv'
  <2>1. snapshot' \in [ Jobs -> Seq(Documents) ]
    BY <1>0, <1>10, EmptyVersions DEF JobReads, StatusTypeOK
  <2>2. StatusTypeOK'
    BY <1>0, <1>10, <2>1, MoveType DEF JobReads, StatusTypeOK
  <2>3. LastIsDocument' /\ RowFollows' /\ DecidedAlone'
    BY <1>10 DEF JobReads, StatusIInv, LastIsDocument, RowFollows, DecidedAlone, Complete, Carried, NoneDeciding, StatusRead
  <2> QED
    BY <2>2, <2>3 DEF StatusIInv
<1>11. ASSUME NEW j \in Jobs, JobWrites(j) PROVE StatusIInv'
  <2> DEFINE d == Head(snapshot[j])
  <2>1. d \in Documents /\ snapshot' \in [ Jobs -> Seq(Documents) ]
    <3>1. snapshot[j] \in Seq(Documents) /\ snapshot[j] # << >>
      BY <1>0, <1>11 DEF JobWrites, StatusTypeOK
    <3> QED
      BY <1>0, <1>11, <3>1, EmptyVersions, TailLast DEF JobWrites, StatusTypeOK
  <2>2. d.active \in BOOLEAN
    BY <2>1 DEF Documents
  <2>3. \/ sqlRow' = SyncRestaurantRow(d) /\ Echo(d.active)
        \/ owned /\ sqlRow' = SyncRestaurantToPostgres(d) /\ Echo(d.active)
        \/ UNCHANGED << sqlRow, echoes >>
    BY <1>11 DEF JobWrites
  <2> HIDE DEF d
  <2>4. CASE UNCHANGED << sqlRow, echoes >>
    <3>1. StatusTypeOK'
      BY <1>0, <1>11, <2>1, <2>4 DEF JobWrites, StatusTypeOK
    <3>2. LastIsDocument' /\ RowFollows' /\ DecidedAlone'
      BY <1>11, <2>4
         DEF JobWrites, StatusIInv, LastIsDocument, RowFollows, DecidedAlone, Complete, Carried, NoneDeciding, StatusRead
    <3> QED
      BY <3>1, <3>2 DEF StatusIInv
  <2>5. CASE Echo(d.active)
    <3>1. echoes' \in [ BOOLEAN -> Nat ] /\ echoes'[d.active] # 0
      BY <1>0, <2>2, <2>5, EchoType
    <3>2. sqlRow' \in Standing /\ (~owned => sqlRow'.status = sqlRow.status)
      <4>1. /\ SyncRestaurantRow(d) \in Standing /\ SyncRestaurantToPostgres(d) \in Standing
            /\ SyncRestaurantRow(d).status = sqlRow.status
        BY <1>0, <2>1, SyncTypes DEF SyncRestaurantRow, Standing
      <4> QED
        BY <1>0, <2>3, <4>1
    <3>3. StatusTypeOK'
      BY <1>0, <1>11, <2>1, <3>1, <3>2 DEF JobWrites, StatusTypeOK, Standing
    <3>4. LastIsDocument' /\ RowFollows'
      BY <1>11, <2>2, <3>1, Incomplete DEF JobWrites, Complete
    <3>5. DecidedAlone'
      BY <1>11, <3>2 DEF JobWrites, DecidedAlone, NoneDeciding, StatusIInv
    <3> QED
      BY <3>3, <3>4, <3>5 DEF StatusIInv
  <2> QED
    BY <2>3, <2>4, <2>5
<1>12. CASE StatusRestart
  <2>1. /\ echoes' \in [ BOOLEAN -> Nat ] /\ versions' \in [ Listeners -> Seq(Documents) ]
        /\ snapshot' \in [ Jobs -> Seq(Documents) ] /\ deciding' \in [ Deciders -> AccountStatus \cup { "idle" } ]
        /\ \A l \in Listeners : versions'[l] = << >>
        /\ \A a \in Deciders : deciding'[a] = "idle"
    BY <1>12, EmptyVersions DEF StatusRestart
  <2>2. StatusTypeOK'
    BY <1>0, <1>12, <2>1, FaultType DEF StatusRestart, StatusTypeOK, NoneDeciding
  <2>3. LastIsDocument' /\ RowFollows'
    BY <1>0, <1>12, <2>1, FaultType DEF StatusRestart, LastIsDocument, RowFollows, Complete
  <2>4. DecidedAlone'
    BY <1>12, <2>1 DEF StatusRestart, DecidedAlone, NoneDeciding, StatusIInv
  <2> QED
    BY <2>2, <2>3, <2>4 DEF StatusIInv
<1>13. CASE UNCHANGED statusVars
  BY <1>13 DEF statusVars, StatusIInv, StatusTypeOK, LastIsDocument, RowFollows, DecidedAlone, Complete, Carried,
               NoneDeciding, StatusRead
<1> QED
  BY <1>1, <1>2, <1>3, <1>4, <1>5, <1>6, <1>7, <1>8, <1>9, <1>10, <1>11, <1>12, <1>13 DEF StatusNext

LEMMA StatusAlways == StatusSpec => []StatusIInv
<1>1. StatusIInv /\ [StatusNext]_statusVars => StatusIInv'
  BY StatusInductive
<1> QED
  BY <1>1, StatusInitial, PTL DEF StatusSpec

\* However decisions, app writes, mirrors, listeners and jobs interleave, the row of a
\* restaurant comes to say what its document says, status and isActive, once everything
\* has arrived; and whatever failed before, the next write of the document makes good.
THEOREM StandingFollows == StatusSpec => []StandingInv
<1>1. StatusIInv => StandingInv
  <2> SUFFICES ASSUME StatusIInv PROVE StandingInv
    OBVIOUS
  <2>1. Arrived /\ ~behind => Complete /\ \A l \in Listeners : Carried(l)
    BY DEF Arrived, Complete, Carried
  <2> QED
    BY <2>1 DEF StandingInv, StandingAgrees, StatusIInv, RowFollows, Listeners
<1> QED
  BY <1>1, StatusAlways, PTL

\* The status an administrator or an app put last, with no decision running into it, and
\* which reached the document, is what the row comes to say: no echo, job or other
\* statement takes it back.
THEOREM DecisionsStand == StatusSpec => []DecisionStands
<1>1. StatusIInv => DecisionStands
  <2> SUFFICES ASSUME StatusIInv, Arrived, ~behind, clear
               PROVE  sqlRow.status = IF owned THEN StatusRead([ status |-> decided, active |-> TRUE ]) ELSE decided
    BY DEF DecisionStands
  <2>1. Complete /\ Carried("syncRestaurantToPostgres") /\ NoneDeciding
    BY DEF Arrived, Complete, Carried, Listeners
  <2>2. CASE ~owned
    BY <2>2 DEF StatusIInv, DecidedAlone
  <2>3. CASE owned
    <3>1. document.status = decided /\ decided # "none" /\ sqlRow.status = StatusRead(document)
      BY <2>1, <2>3 DEF StatusIInv, DecidedAlone, RowFollows
    <3>2. StatusRead(document) = StatusRead([ status |-> decided, active |-> TRUE ])
      BY <3>1 DEF StatusRead
    <3> QED
      BY <2>3, <3>1, <3>2
  <2> QED
    BY <2>2, <2>3
<1> QED
  BY <1>1, StatusAlways, PTL
=============================================================================

---------------------------- MODULE Applications ----------------------------
(***************************************************************************)
(* How a user becomes a driver or a vendor, and how an administrator       *)
(* decides about it.  A decision is written into PostgreSQL (the role of   *)
(* the user, a driver profile, a restaurant) and into Firestore (the       *)
(* application, the user document, the restaurant document) in one call of *)
(* many statements.  There are three ways to it:                           *)
(*   - AdminService.approve/rejectFirebaseVendor/DriverApplication, for an *)
(*     application the app put into Firestore;                             *)
(*   - AdminService.approve/rejectDriver, approve/rejectRestaurant and     *)
(*     updateVendorStatus, for the rows of PostgreSQL;                     *)
(*   - OnboardingService, whose transaction calls Firestore in its middle. *)
(* A user submits at most one restaurant here (the bound on                *)
(* submitRestaurantApplication, which has none).                           *)
(*                                                                         *)
(* Not here are the writers that answer these: Prisma's mirror of every    *)
(* users and restaurants row, and the listeners and jobs that carry roles  *)
(* and statuses from the documents back into the rows.  What a user's role *)
(* or an account's status is once they have run is not claimed here;       *)
(* Accounts has them for an account and RestaurantStatus for a restaurant. *)
(* None of them decides an application, makes a second restaurant of one,  *)
(* unlinks a row or keeps a call waiting, which is what is claimed here.   *)
(***************************************************************************)
EXTENDS Naturals, FiniteSets

CONSTANTS
  Users,
  Admins,        \* slots for concurrent calls
  Overlapping,   \* the kinds of users about whom two calls may be made at a time
  RowKinds,      \* the kinds of users whose rows AdminService decides about
  FailingSteps   \* the steps before which a call may fail or its process stop

\* A user applies in Firestore, as a driver or a vendor, or through OnboardingService.
Kinds == { "driver", "vendor", "onboarding" }

FirebaseSteps == { "mark", "general", "userdoc", "find", "create", "restdoc", "profile",
                   "grant", "refresh", "withdraw" }
RowSteps == { "accept", "promote", "driverdoc", "activate", "ownerrole", "ownerdoc",
              "restaurantdoc", "vendorstatus", "statusdoc", "statusowner" }
OnboardingSteps == { "applied", "begin", "sync", "commit", "late" }
Steps == FirebaseSteps \cup RowSteps \cup OnboardingSteps

ASSUME ApplicationsAssumption ==
  /\ Users # {}
  /\ Overlapping \subseteq Kinds /\ RowKinds \subseteq Kinds
  /\ FailingSteps \subseteq Steps

VARIABLES
  application, \* driver_applications or vendor_applications, and the copy in applications
  row,         \* users: role, status, and whether firebaseUid is set
  profile,     \* driver_profiles.applicationStatus, "none" without a profile
  restaurant,  \* restaurants: how many the user owns and their status; each gets a
               \* firebaseId when it is created
  doc,         \* the Firestore document users/<uid>: role, status, applicationStatus
  restDoc,     \* the Firestore document of the restaurant: its status, "none" without one
  task         \* the calls in progress

vars == << application, row, profile, restaurant, doc, restDoc, task >>

Roles == { "CUSTOMER", "DRIVER", "VENDOR" }
Decisions == { "none", "pending", "approved", "rejected" }
Statuses == { "ACTIVE", "INACTIVE", "SUSPENDED", "PENDING_VERIFICATION", "BANNED" }
ProfileStates == { "none", "PENDING", "APPROVED", "REJECTED" }

Drivers == { u \in Users : application[u].kind = "driver" }
Vendors == { u \in Users : application[u].kind = "vendor" }
Onboarders == { u \in Users : application[u].kind = "onboarding" }

TaskStates ==
  [ pc : { "idle" } \cup Steps, user : Users, decision : Decisions,
    status : Statuses, role : Roles, seen : Statuses \cup { "none" } ]

TypeOK ==
  /\ application \in [ Users -> [ kind : Kinds, status : Decisions, general : Decisions ] ]
  /\ row \in [ Users -> [ role : Roles, status : Statuses, linked : BOOLEAN ] ]
  /\ profile \in [ Users -> ProfileStates ]
  /\ restaurant \in [ Users -> [ count : Nat, status : Statuses ] ]
  /\ doc \in [ Users -> [ role : Roles, status : Statuses, application : Decisions ] ]
  /\ restDoc \in [ Users -> Statuses \cup { "none" } ]
  /\ task \in [ Admins -> TaskStates ]

IdleTask ==
  [ pc |-> "idle", user |-> CHOOSE u \in Users : TRUE, decision |-> "none",
    status |-> "ACTIVE", role |-> "CUSTOMER", seen |-> "none" ]

\* Whoever applies in the app has a Firebase account, which a row may be linked to or
\* not; an onboarding driver has registered by e-mail as a customer, an onboarding
\* vendor as a vendor.
Init ==
  /\ \E kind \in [ Users -> Kinds ] :
       application = [ u \in Users |-> LET s == IF kind[u] = "onboarding" THEN "none" ELSE "pending"
                                      IN [ kind |-> kind[u], status |-> s, general |-> s ] ]
  /\ row \in [ Users -> [ role : { "CUSTOMER", "VENDOR" }, status : { "ACTIVE" }, linked : BOOLEAN ] ]
  /\ \A u \in Users \ Onboarders : row[u].role = "CUSTOMER"
  /\ profile = [ u \in Users |-> "none" ]
  /\ restaurant = [ u \in Users |-> [ count |-> 0, status |-> "PENDING_VERIFICATION" ] ]
  /\ doc = [ u \in Users |-> [ role |-> row[u].role, status |-> "ACTIVE",
                               application |-> application[u].status ] ]
  /\ restDoc = [ u \in Users |-> "none" ]
  /\ task = [ a \in Admins |-> IdleTask ]

(***************************************************************************)
(* Helpers                                                                 *)
(***************************************************************************)
At(a, pc) == task[a].pc = pc

Goto(a, pc) == task' = [ task EXCEPT ![a].pc = pc ]

Finish(a) == task' = [ task EXCEPT ![a] = IdleTask ]

\* The bound on overlap: one call about a user of a kind that is not in Overlapping.
MayBegin(a, u) ==
  /\ At(a, "idle")
  /\ application[u].kind \in Overlapping \/ \A b \in Admins : At(b, "idle") \/ task[b].user # u

Begin(a, u, decision, pc) ==
  /\ MayBegin(a, u)
  /\ task' = [ task EXCEPT ![a] = [ IdleTask EXCEPT !.pc = pc, !.user = u, !.decision = decision ] ]

\* The transaction of an onboarding approval holds the rows of the user while it
\* waits for Firestore; another statement that writes them waits for it.
Unlocked(u) == \A a \in Admins : ~(task[a].pc \in { "sync", "commit" } /\ task[a].user = u)

SetRole(u, role) == Unlocked(u) /\ row' = [ row EXCEPT ![u].role = role ]

SetProfile(u, status) == Unlocked(u) /\ profile' = [ profile EXCEPT ![u] = status ]

SetRestaurant(u, status) == Unlocked(u) /\ restaurant' = [ restaurant EXCEPT ![u].status = status ]

StatusOf(decision) == IF decision = "approved" THEN "ACTIVE" ELSE "INACTIVE"

\* A write to Firestore inside try and catch: the call goes on whether or not it
\* succeeded.
Tried(u, new) == doc' = [ doc EXCEPT ![u] = new ] \/ UNCHANGED doc

TriedRest(u, status) == restDoc' = [ restDoc EXCEPT ![u] = status ] \/ UNCHANGED restDoc

(***************************************************************************)
(* approve/rejectFirebaseVendorApplication, ...FirebaseDriverApplication   *)
(***************************************************************************)

\* Mutant: a decided application can be decided again.
DecideAgain(a, u, decision) ==
  /\ application[u].status # "none"
  /\ Begin(a, u, decision, "mark")
  /\ UNCHANGED << application, row, profile, restaurant, doc, restDoc >>

\* The application is read; one that was decided is refused.
DecideApplication(a, u, decision) ==
  /\ application[u].status = "pending"
  /\ Begin(a, u, decision, "mark")
  /\ UNCHANGED << application, row, profile, restaurant, doc, restDoc >>

MarkApplication(a) ==
  /\ At(a, "mark")
  /\ application' = [ application EXCEPT ![task[a].user].status = task[a].decision ]
  /\ Goto(a, "general")
  /\ UNCHANGED << row, profile, restaurant, doc, restDoc >>

MarkGeneral(a) ==
  /\ At(a, "general")
  /\ \/ application' = [ application EXCEPT ![task[a].user].general = task[a].decision ]
     \/ UNCHANGED application
  /\ Goto(a, "userdoc")
  /\ UNCHANGED << row, profile, restaurant, doc, restDoc >>

\* An approval writes the new role into the user document, a rejection no role.
MarkUserDoc(a) ==
  LET u == task[a].user
      role == IF task[a].decision = "rejected" THEN doc[u].role
              ELSE IF u \in Vendors THEN "VENDOR" ELSE "DRIVER"
  IN /\ At(a, "userdoc")
     /\ Tried(u, [ role |-> role, status |-> StatusOf(task[a].decision), application |-> task[a].decision ])
     /\ Goto(a, "find")
     /\ UNCHANGED << application, row, profile, restaurant, restDoc >>

\* The row is looked up by firebaseUid; without one there is nothing left to do.
FindRow(a) ==
  LET u == task[a].user
  IN /\ At(a, "find")
     /\ IF ~row[u].linked THEN Finish(a)
        ELSE Goto(a, IF task[a].decision = "rejected" THEN "withdraw"
                     ELSE IF u \in Vendors THEN "create" ELSE "profile")
     /\ UNCHANGED << application, row, profile, restaurant, doc, restDoc >>

CreateRestaurant(a) ==
  LET u == task[a].user
  IN /\ At(a, "create")
     /\ restaurant' = [ restaurant EXCEPT ![u] =
          [ count |-> @.count + 1, status |-> "ACTIVE" ] ]
     /\ Goto(a, "restdoc")
     /\ UNCHANGED << application, row, profile, doc, restDoc >>

\* The document of the new restaurant, in try and catch, and the menu sections.
CreateRestDoc(a) ==
  LET u == task[a].user
  IN /\ At(a, "restdoc")
     /\ TriedRest(u, "ACTIVE")
     /\ Goto(a, "grant")
     /\ UNCHANGED << application, row, profile, restaurant, doc >>

\* Mutant: the call ends with the profile and the role is never granted.
UpsertProfileOnly(a) ==
  /\ At(a, "profile")
  /\ SetProfile(task[a].user, "APPROVED")
  /\ Finish(a)
  /\ UNCHANGED << application, row, restaurant, doc, restDoc >>

UpsertProfile(a) ==
  /\ At(a, "profile")
  /\ SetProfile(task[a].user, "APPROVED")
  /\ Goto(a, "grant")
  /\ UNCHANGED << application, row, restaurant, doc, restDoc >>

\* Mutant: the role is written as the application spells the kind.
GrantRoleLowercase(a) ==
  LET u == task[a].user
  IN /\ At(a, "grant")
     /\ SetRole(u, IF u \in Vendors THEN "vendor" ELSE "driver")
     /\ IF u \in Vendors THEN Finish(a) ELSE Goto(a, "refresh")
     /\ UNCHANGED << application, profile, restaurant, doc, restDoc >>

GrantRole(a) ==
  LET u == task[a].user
  IN /\ At(a, "grant")
     /\ SetRole(u, IF u \in Vendors THEN "VENDOR" ELSE "DRIVER")
     /\ IF u \in Vendors THEN Finish(a) ELSE Goto(a, "refresh")
     /\ UNCHANGED << application, profile, restaurant, doc, restDoc >>

RefreshDriverDoc(a) ==
  LET u == task[a].user
  IN /\ At(a, "refresh")
     /\ Tried(u, [ role |-> "DRIVER", status |-> "ACTIVE", application |-> "approved" ])
     /\ Finish(a)
     /\ UNCHANGED << application, row, profile, restaurant, restDoc >>

\* updateMany: all restaurants of the owner, or the profile, if there are any.
Withdraw(a) ==
  LET u == task[a].user
  IN /\ At(a, "withdraw")
     /\ \/ u \in Vendors /\ SetRestaurant(u, "INACTIVE") /\ UNCHANGED profile
        \/ u \in Drivers /\ profile[u] # "none" /\ SetProfile(u, "REJECTED") /\ UNCHANGED restaurant
        \/ u \in Drivers /\ profile[u] = "none" /\ UNCHANGED << profile, restaurant >>
     /\ Finish(a)
     /\ UNCHANGED << application, row, doc, restDoc >>

(***************************************************************************)
(* approveDriver and rejectDriver: they look at no earlier decision, nor at *)
(* the status of the account.                                              *)
(***************************************************************************)
DecideDriver(a, u, decision) ==
  /\ application[u].kind \in RowKinds
  /\ profile[u] # "none"
  /\ Begin(a, u, decision, "accept")
  /\ UNCHANGED << application, row, profile, restaurant, doc, restDoc >>

AcceptDriver(a) ==
  /\ At(a, "accept")
  /\ SetProfile(task[a].user, IF task[a].decision = "approved" THEN "APPROVED" ELSE "REJECTED")
  /\ Goto(a, "promote")
  /\ UNCHANGED << application, row, restaurant, doc, restDoc >>

PromoteDriver(a) ==
  /\ At(a, "promote")
  /\ SetRole(task[a].user, IF task[a].decision = "approved" THEN "DRIVER" ELSE "CUSTOMER")
  /\ Goto(a, "driverdoc")
  /\ UNCHANGED << application, profile, restaurant, doc, restDoc >>

\* The user document, and the driver's document along with it.
MarkDriverDoc(a) ==
  LET u == task[a].user
      role == IF task[a].decision = "approved" THEN "DRIVER" ELSE "CUSTOMER"
  IN /\ At(a, "driverdoc")
     /\ \/ /\ row[u].linked
           /\ Tried(u, [ role |-> role, status |-> StatusOf(task[a].decision), application |-> task[a].decision ])
        \/ ~row[u].linked /\ UNCHANGED doc
     /\ Finish(a)
     /\ UNCHANGED << application, row, profile, restaurant, restDoc >>

(***************************************************************************)
(* approveRestaurant, rejectRestaurant and updateVendorStatus              *)
(***************************************************************************)
DecideRestaurant(a, u, decision) ==
  /\ application[u].kind \in RowKinds
  /\ restaurant[u].count > 0
  /\ Begin(a, u, decision, "activate")
  /\ UNCHANGED << application, row, profile, restaurant, doc, restDoc >>

ActivateRestaurant(a) ==
  /\ At(a, "activate")
  /\ SetRestaurant(task[a].user, StatusOf(task[a].decision))
  /\ Goto(a, IF task[a].decision = "approved" THEN "ownerrole" ELSE "ownerdoc")
  /\ UNCHANGED << application, row, profile, doc, restDoc >>

OwnerRole(a) ==
  /\ At(a, "ownerrole")
  /\ SetRole(task[a].user, "VENDOR")
  /\ Goto(a, "ownerdoc")
  /\ UNCHANGED << application, profile, restaurant, doc, restDoc >>

\* Both documents are written in one try: when the first write fails the second is
\* not made.
MarkOwnerDoc(a) ==
  LET u == task[a].user
      approved == task[a].decision = "approved"
  IN /\ At(a, "ownerdoc")
     /\ \/ /\ row[u].linked
           /\ doc' = [ doc EXCEPT ![u] = [ role |-> IF approved THEN "VENDOR" ELSE @.role,
                       status |-> StatusOf(task[a].decision), application |-> task[a].decision ] ]
           /\ Goto(a, "restaurantdoc")
        \/ ~row[u].linked /\ Goto(a, "restaurantdoc") /\ UNCHANGED doc
        \/ row[u].linked /\ Finish(a) /\ UNCHANGED doc
     /\ UNCHANGED << application, row, profile, restaurant, restDoc >>

MarkRestaurantDoc(a) ==
  LET u == task[a].user
  IN /\ At(a, "restaurantdoc")
     /\ TriedRest(u, StatusOf(task[a].decision))
     /\ Finish(a)
     /\ UNCHANGED << application, row, profile, restaurant, doc >>

UpdateVendorStatus(a, u, status) ==
  /\ application[u].kind \in RowKinds
  /\ restaurant[u].count > 0
  /\ MayBegin(a, u)
  /\ task' = [ task EXCEPT ![a] = [ IdleTask EXCEPT !.pc = "vendorstatus", !.user = u, !.status = status ] ]
  /\ UNCHANGED << application, row, profile, restaurant, doc, restDoc >>

WriteVendorStatus(a) ==
  /\ At(a, "vendorstatus")
  /\ SetRestaurant(task[a].user, task[a].status)
  /\ Goto(a, "statusdoc")
  /\ UNCHANGED << application, row, profile, doc, restDoc >>

MarkStatusDoc(a) ==
  LET u == task[a].user
  IN /\ At(a, "statusdoc")
     /\ \/ /\ restDoc' = [ restDoc EXCEPT ![u] = task[a].status ]
           /\ Goto(a, "statusowner")
        \/ Finish(a) /\ UNCHANGED restDoc
     /\ UNCHANGED << application, row, profile, restaurant, doc >>

MarkStatusOwner(a) ==
  LET u == task[a].user
  IN /\ At(a, "statusowner")
     /\ \/ row[u].linked /\ Tried(u, [ doc[u] EXCEPT !.status = task[a].status ])
        \/ ~row[u].linked /\ UNCHANGED doc
     /\ Finish(a)
     /\ UNCHANGED << application, row, profile, restaurant, restDoc >>

(***************************************************************************)
(* OnboardingService                                                       *)
(***************************************************************************)

\* submitDriverApplication grants the role at once, before any review.
SubmitDriver(a, u) ==
  /\ row[u].role \in { "CUSTOMER", "DRIVER" }
  /\ MayBegin(a, u)
  /\ SetRole(u, "DRIVER")
  /\ task' = [ task EXCEPT ![a] = [ IdleTask EXCEPT !.pc = "applied", !.user = u ] ]
  /\ UNCHANGED << application, profile, restaurant, doc, restDoc >>

SubmitDriverProfile(a) ==
  /\ At(a, "applied")
  /\ SetProfile(task[a].user, "PENDING")
  /\ Finish(a)
  /\ UNCHANGED << application, row, restaurant, doc, restDoc >>

SubmitRestaurant(u) ==
  /\ row[u].role = "VENDOR"
  /\ restaurant[u].count = 0
  /\ Unlocked(u)
  /\ restaurant' = [ restaurant EXCEPT ![u] =
       [ count |-> @.count + 1, status |-> "PENDING_VERIFICATION" ] ]
  /\ UNCHANGED << application, row, profile, doc, restDoc, task >>

\* approveApplication reads the role before it begins its transaction.
ApproveOnboarding(a, u) ==
  /\ MayBegin(a, u)
  /\ task' = [ task EXCEPT ![a] = [ IdleTask EXCEPT !.pc = "begin", !.user = u, !.role = row[u].role ] ]
  /\ UNCHANGED << application, row, profile, restaurant, doc, restDoc >>

\* The first statements of the transaction write the rows; nobody sees them before
\* the commit, not even syncToFirebase, which reads through another connection.
\* Updating a driver profile that does not exist throws.
BeginApproval(a) ==
  LET u == task[a].user
  IN /\ At(a, "begin")
     /\ Unlocked(u)
     /\ IF task[a].role = "DRIVER" /\ profile[u] = "none"
        THEN Finish(a)
        ELSE task' = [ task EXCEPT ![a].pc = "sync",
                ![a].seen = IF restaurant[u].count > 0 THEN restaurant[u].status ELSE "none" ]
     /\ UNCHANGED << application, row, profile, restaurant, doc, restDoc >>

\* Linking the user writes a row that the transaction holds.
NeedsLink(u) == ~row[u].linked

SyncToFirebase(a) ==
  LET u == task[a].user
  IN /\ At(a, "sync")
     /\ ~NeedsLink(u)
     /\ restDoc' = IF task[a].seen = "none" THEN restDoc ELSE [ restDoc EXCEPT ![u] = task[a].seen ]
     /\ Goto(a, "commit")
     /\ UNCHANGED << application, row, profile, restaurant, doc >>

\* Mutant: the lock is waited for without a limit.
ApprovalWaits(a) == FALSE /\ UNCHANGED vars

\* The transaction waits for itself.  After five seconds Prisma rolls it back,
\* which lets the update go on.
ApprovalTimesOut(a) ==
  /\ At(a, "sync")
  /\ NeedsLink(task[a].user)
  /\ Goto(a, "late")
  /\ UNCHANGED << application, row, profile, restaurant, doc, restDoc >>

\* syncToFirebase goes on after the rollback; the next statement of the
\* transaction throws.
LateLink(a) ==
  LET u == task[a].user
  IN /\ At(a, "late")
     /\ Unlocked(u)
     /\ row' = [ row EXCEPT ![u].linked = TRUE ]
     /\ restDoc' = IF task[a].seen = "none" THEN restDoc ELSE [ restDoc EXCEPT ![u] = task[a].seen ]
     /\ Finish(a)
     /\ UNCHANGED << application, profile, restaurant, doc >>

CommitApproval(a) ==
  LET u == task[a].user
  IN /\ At(a, "commit")
     /\ row' = [ row EXCEPT ![u].status = "ACTIVE" ]
     /\ profile' = IF task[a].role = "DRIVER" THEN [ profile EXCEPT ![u] = "APPROVED" ] ELSE profile
     /\ restaurant' = IF task[a].role = "VENDOR" THEN [ restaurant EXCEPT ![u].status = "ACTIVE" ] ELSE restaurant
     /\ Finish(a)
     /\ UNCHANGED << application, doc, restDoc >>

\* rejectApplication is one transaction of its own, and tells Firestore nothing.
RejectOnboarding(u) ==
  /\ Unlocked(u)
  /\ row[u].role = "DRIVER" => profile[u] # "none"
  /\ row' = [ row EXCEPT ![u].status = "INACTIVE" ]
  /\ profile' = IF row[u].role = "DRIVER" THEN [ profile EXCEPT ![u] = "REJECTED" ] ELSE profile
  /\ restaurant' = IF row[u].role = "VENDOR" THEN [ restaurant EXCEPT ![u].status = "BANNED" ] ELSE restaurant
  /\ UNCHANGED << application, doc, restDoc, task >>

(***************************************************************************)
(* The specification                                                       *)
(***************************************************************************)

\* A statement throws or the process stops: what was written stays written.
Fail(a) ==
  /\ task[a].pc \in FailingSteps
  /\ Finish(a)
  /\ UNCHANGED << application, row, profile, restaurant, doc, restDoc >>

\* The steps of a call that has begun.
FirebaseStep(a) ==
  \/ MarkApplication(a) \/ MarkGeneral(a) \/ MarkUserDoc(a) \/ FindRow(a)
  \/ CreateRestaurant(a) \/ CreateRestDoc(a) \/ UpsertProfile(a) \/ GrantRole(a)
  \/ RefreshDriverDoc(a) \/ Withdraw(a)

RowStep(a) ==
  \/ AcceptDriver(a) \/ PromoteDriver(a) \/ MarkDriverDoc(a)
  \/ ActivateRestaurant(a) \/ OwnerRole(a) \/ MarkOwnerDoc(a) \/ MarkRestaurantDoc(a)
  \/ WriteVendorStatus(a) \/ MarkStatusDoc(a) \/ MarkStatusOwner(a)

OnboardingStep(a) ==
  \/ SubmitDriverProfile(a) \/ BeginApproval(a) \/ SyncToFirebase(a)
  \/ ApprovalTimesOut(a) \/ LateLink(a) \/ CommitApproval(a)

Begins(a) ==
  \/ \E u \in Drivers \cup Vendors, decision \in { "approved", "rejected" } : DecideApplication(a, u, decision)
  \/ \E u \in Users, decision \in { "approved", "rejected" } :
        DecideDriver(a, u, decision) \/ DecideRestaurant(a, u, decision)
  \/ \E u \in Users, status \in { "ACTIVE", "SUSPENDED" } : UpdateVendorStatus(a, u, status)
  \/ \E u \in Onboarders : SubmitDriver(a, u) \/ ApproveOnboarding(a, u)

Next ==
  \/ \E a \in Admins : Begins(a) \/ FirebaseStep(a) \/ RowStep(a) \/ OnboardingStep(a) \/ Fail(a)
  \/ \E u \in Onboarders : SubmitRestaurant(u) \/ RejectOnboarding(u)

Spec == Init /\ [][Next]_vars

\* A call that has begun goes on, and Prisma enforces its time limit.  A statement that
\* waits for rows gets them: PostgreSQL grants a lock in the order it was asked for.
FairSpec ==
  Spec /\ \A a \in Admins : SF_vars(FirebaseStep(a) \/ RowStep(a) \/ OnboardingStep(a))

(***************************************************************************)
(* Properties                                                              *)
(***************************************************************************)

\* A vendor has the restaurant the application was for, once, and none before the
\* application was approved, wherever a decision stopped and was taken again.
OneRestaurantIfApproved ==
  \A u \in Vendors :
    restaurant[u].count <= (IF application[u].status = "approved" THEN 1 ELSE 0)

\* A decision in Firestore that was approved reaches the row of the user, where there is
\* one that the account is linked to.
DecisionReachesRow ==
  \A a \in Admins, u \in Users :
    (At(a, "userdoc") /\ task[a].user = u /\ task[a].decision = "approved" /\ row[u].linked)
      ~> row[u].role = (IF u \in Vendors THEN "VENDOR" ELSE "DRIVER")

\* Every call ends, also the approval that waits for rows its own transaction holds.
CallsEnd == \A a \in Admins : ~At(a, "idle") ~> At(a, "idle")

\* Whatever was decided, and wherever it stopped, an applicant has what was approved and no more.
ApplicationsInv == TypeOK /\ OneRestaurantIfApproved

\* A decision that was begun ends, and an approval reaches the user.
DecisionsEnd == CallsEnd /\ DecisionReachesRow
=============================================================================

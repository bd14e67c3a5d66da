------------------------------ MODULE Accounts ------------------------------
(***************************************************************************)
(* One person's account and the tokens issued for it.  The account is a    *)
(* row of PostgreSQL and documents of the Firestore collection users; the  *)
(* credentials are kept by Supabase and by Firebase Auth.                  *)
(*   - A write of the row schedules a mirror into the document of its      *)
(*     firebaseUid, or of its own id when it has none.                     *)
(*   - The users listener carries every version of a document into the     *)
(*     row, with role, status and firebaseUid, and mirrors nothing.        *)
(*   - A job (twice a day, and at the start of the process) carries all    *)
(*     documents over and bans who is in neither listing of Firebase.      *)
(*   - Calls that sign in, and their token for Firebase, write both.       *)
(* So the firebaseUid of the row moves among three ids: that of the row    *)
(* itself, that of Firebase Auth, and that of the vendor's restaurant.     *)
(*                                                                         *)
(* There is one email: looking a row up by email, by Supabase id or by     *)
(* firebaseUid finds the same row.                                         *)
(***************************************************************************)
EXTENDS Naturals, Sequences, FiniteSets, Bags

CONSTANTS
  Sessions,   \* slots for the calls of the person's devices
  Scenarios   \* what an instance has: the operations, how the account begins, the firebaseId
              \* of the restaurant, and bounds on the inputs, on the faults, on the jobs that
              \* start while something is on its way, and on what may be on its way when a
              \* session starts

Roles == { "CUSTOMER", "VENDOR", "DRIVER" }
Statuses == { "ACTIVE", "BANNED" }     \* the other statuses are let in like ACTIVE
Ids == { "row", "auth", "shop" }       \* ids of documents, and values of firebaseUid
Fields == { "role", "status", "link" }
Operations ==
  { "register", "login", "social", "oauth", "refresh", "password", "profile", "app", "remove",
    "status", "role", "delete", "job" }

ASSUME AccountsAssumption ==
  Scenarios \subseteq
    [ operations : SUBSET Operations, begin : { "nobody", "signedUp", "linked", "customer" },
      role : Roles, restaurant : { "none", "unset", "shop" },
      inputs : Nat, faults : Nat, rushed : Nat, behind : Nat ]

VARIABLES
  scenario,
  row,         \* the row: link is firebaseUid, supabase that its supabaseId is set
  doc,         \* the documents
  supabase,    \* the Supabase account: the role in its metadata, or "none"
  auth,        \* there is a Firebase Auth account
  restaurant,  \* the firebaseId of the vendor's restaurant
  access, refresh,  \* the roles in the tokens that are valid
  mirrors,     \* the mirrors on their way, a bag
  inbox,       \* the versions of a document the listener has not been called with
  callback,    \* the listener's callback for a document
  session,     \* the calls of the person's devices
  admin,       \* the administrator's updateUserStatus
  job,         \* syncAllData
  inputs, faults, rushed,
  expected,    \* history: role, status and link as the last inputs made them
  sure         \* history: the fields nothing has overlapped with, and "agree"

vars == << scenario, row, doc, supabase, auth, restaurant, access, refresh, mirrors, inbox,
           callback, session, admin, job, inputs, faults, rushed, expected, sure >>
account == << row, mirrors >>
documents == << doc, inbox >>
tokens == << access, refresh >>
external == << supabase, auth, restaurant >>
history == << inputs, faults, rushed, expected, sure >>

Rows == [ there : BOOLEAN, role : Roles, status : Statuses, link : Ids \cup { "none" },
          supabase : BOOLEAN, deleted : BOOLEAN ]
Docs == [ there : BOOLEAN, role : Roles \cup { "none" }, status : Statuses \cup { "none" } ]
Mirrors == [ id : Ids, role : Roles, status : Statuses ]

Callbacks == [ pc : { "idle", "write" }, existing : BOOLEAN, doc : Docs ]

SessionStates ==
  [ pc : { "idle", "registerCreate", "registerLink", "find", "create", "update", "check",
           "tokens", "skeleton", "password", "resolve", "linkRow", "doc" },
    kind : { "none", "register", "login", "social", "oauth", "refresh", "profile", "password" },
    user : Rows,                     \* the row as this call has it
    uid : Ids \cup { "none" } ]      \* the firebaseUid it has resolved

JobStates ==
  [ pc : { "idle", "users", "write", "ban" }, snapshot : [ Ids -> Docs ], todo : SUBSET Ids,
    of : Ids \cup { "none" }, existing : BOOLEAN, active : SUBSET Ids ]

TypeOK ==
  /\ scenario \in Scenarios
  /\ row \in Rows
  /\ doc \in [ Ids -> Docs ]
  /\ supabase \in Roles \cup { "none" }
  /\ auth \in BOOLEAN
  /\ restaurant \in Ids \cup { "none", "unset" }
  /\ access \subseteq Roles
  /\ refresh \subseteq Roles
  /\ BagToSet(mirrors) \subseteq Mirrors
  /\ inbox \in [ Ids -> Seq(Docs) ]
  /\ callback \in [ Ids -> Callbacks ]
  /\ session \in [ Sessions -> SessionStates ]
  /\ admin \in [ pc : { "idle", "row", "doc" }, link : Ids \cup { "none" }, status : Statuses ]
  /\ job \in JobStates
  /\ inputs \in 0 .. scenario.inputs
  /\ faults \in 0 .. scenario.faults
  /\ rushed \in 0 .. scenario.rushed
  /\ expected \in [ role : Roles, status : Statuses, link : Ids \cup { "none" } ]
  /\ sure \subseteq Fields \cup { "agree" }

NoRow == [ there |-> FALSE, role |-> "CUSTOMER", status |-> "ACTIVE", link |-> "none",
           supabase |-> FALSE, deleted |-> FALSE ]
NewRow(role, status, link, linked) ==
  [ there |-> TRUE, role |-> role, status |-> status, link |-> link, supabase |-> linked,
    deleted |-> FALSE ]
NoDoc == [ there |-> FALSE, role |-> "none", status |-> "none" ]
Doc(role, status) == [ there |-> TRUE, role |-> role, status |-> status ]

IdleSession == [ pc |-> "idle", kind |-> "none", user |-> NoRow, uid |-> "none" ]
IdleCallback == [ pc |-> "idle", existing |-> FALSE, doc |-> NoDoc ]
IdleAdmin == [ pc |-> "idle", link |-> "none", status |-> "ACTIVE" ]
IdleJob == [ pc |-> "idle", snapshot |-> [ d \in Ids |-> NoDoc ], todo |-> {}, of |-> "none",
             existing |-> FALSE, active |-> {} ]

\* Nobody; somebody who signed up in an application; a vendor or driver with a row that is
\* linked to Firebase Auth; a customer who registered by email.
Init ==
  /\ scenario \in Scenarios
  /\ LET r == scenario.role  b == scenario.begin IN
       /\ row = CASE b = "linked" -> NewRow(r, "ACTIVE", "auth", TRUE)
                  [] b = "customer" -> NewRow("CUSTOMER", "ACTIVE", "row", TRUE)
                  [] OTHER -> NoRow
       /\ doc = [ d \in Ids |->
                    IF (b \in { "linked", "signedUp" } /\ d = "auth") \/ (b = "customer" /\ d = "row")
                      THEN Doc(IF b = "customer" THEN "CUSTOMER" ELSE r, "ACTIVE") ELSE NoDoc ]
       /\ supabase = IF row.there THEN row.role ELSE "none"
       /\ auth = (b \in { "linked", "signedUp" })
       /\ inbox = [ d \in Ids |->
                      IF b = "signedUp" /\ d = "auth" THEN << doc[d] >> ELSE << >> ]
       /\ expected = [ role |-> IF b = "customer" THEN "CUSTOMER" ELSE r, status |-> "ACTIVE",
                       link |-> IF b = "customer" THEN "row" ELSE "auth" ]
  /\ restaurant = scenario.restaurant
  /\ access = {} /\ refresh = {}
  /\ mirrors = EmptyBag
  /\ callback = [ d \in Ids |-> IdleCallback ]
  /\ session = [ s \in Sessions |-> IdleSession ]
  /\ admin = IdleAdmin
  /\ job = IdleJob
  /\ inputs = 0 /\ faults = 0 /\ rushed = 0
  /\ sure = Fields \cup { "agree" }

(***************************************************************************)
(* Helpers                                                                 *)
(***************************************************************************)
Allowed(operation) == operation \in scenario.operations

SessionsIdle == \A s \in Sessions : session[s].pc = "idle"

\* No write is on its way between the row and the documents.
Still == mirrors = EmptyBag /\ \A d \in Ids : inbox[d] = << >> /\ callback[d].pc = "idle"

\* Nothing but the person's own calls is under way.
Settled == Still /\ admin.pc = "idle" /\ job.pc = "idle"

Quiet == Settled /\ SessionsIdle

\* No other device's call is under way.
Alone(s) == \A t \in Sessions \ { s } : session[t].pc = "idle"

\* No document but that of the row's firebaseUid.
OneDocument == \A d \in Ids : doc[d].there => d = row.link

\* Mutant: the mirror of a row without firebaseUid has no document to go to.
MirrorOfLinked(r) == [ id |-> r.link, role |-> r.role, status |-> r.status ]

\* The mirror writes role and status of the result, and the document is that of its
\* firebaseUid, or of its own id.
MirrorOf(r) ==
  [ id |-> IF r.link = "none" THEN "row" ELSE r.link, role |-> r.role, status |-> r.status ]

\* A write through Prisma, and one with the mirror switched off.
Write(r) == row' = r /\ mirrors' = mirrors (+) SetToBag({ MirrorOf(r) })
WriteBypassed(r) == row' = r /\ UNCHANGED mirrors

PutDoc(d, v) ==
  /\ doc' = [ doc EXCEPT ![d] = v ]
  /\ inbox' = [ inbox EXCEPT ![d] = Append(@, v) ]

\* Mutant: the role of a row that exists is not taken from the document.
CarriedStatusOnly(r, d, v) ==
  [ r EXCEPT !.link = d, !.deleted = FALSE, !.status = IF v.status = "none" THEN @ ELSE v.status ]

\* What syncUserToPostgres makes of the row: what the document says, and no longer deleted.
Carried(r, d, v) ==
  [ r EXCEPT !.link = d, !.deleted = FALSE,
             !.role = IF v.role = "none" THEN @ ELSE v.role,
             !.status = IF v.status = "none" THEN @ ELSE v.status ]
CarriedNew(d, v) == Carried(NewRow("CUSTOMER", "ACTIVE", d, FALSE), d, v)

\* The users listener on removal of a document.
Banned(r) == [ r EXCEPT !.status = "BANNED", !.deleted = TRUE ]

\* An input that sets a field: an overlapping one leaves open which of them lasts.
Input(values, certain) ==
  /\ inputs < scenario.inputs
  /\ inputs' = inputs + 1
  /\ expected' = values
  /\ sure' = sure \cap (certain \cup { "agree" })
  /\ UNCHANGED << scenario, faults, rushed >>

\* Role and status can be told when nothing is under way and no other document is there
\* to be carried over.
Undisturbed == IF Settled /\ OneDocument THEN Fields ELSE {}

\* Something is lost, or Firebase did not answer.
Fault(lost) ==
  /\ faults < scenario.faults
  /\ faults' = faults + 1
  /\ sure' = IF faults = 0 THEN sure \ lost ELSE {}
  /\ UNCHANGED << scenario, inputs, rushed, expected >>

Certain(fields) == sure' = sure \cap fields /\ UNCHANGED << scenario, inputs, faults, rushed, expected >>

NoNews == UNCHANGED << scenario, inputs, faults, rushed, expected, sure >>

\* What the row does not have yet is overwritten by the mirror of a call that writes it now.
Overtaken == { f \in { "role", "status" } : row[f] # expected[f] }
CertainButOvertaken == Certain((Fields \cup { "agree" }) \ Overtaken)

(***************************************************************************)
(* Sessions: AuthService                                                   *)
(***************************************************************************)
Go(s, next) == session' = [ session EXCEPT ![s] = next ]
Step(s, pc) == session' = [ session EXCEPT ![s].pc = pc ]
Finish(s) == Go(s, IdleSession)

\* Bounded: a device calls when little is on its way.
Starts(s, operation) ==
  /\ session[s].pc = "idle"
  /\ Allowed(operation)
  /\ Cardinality({ d \in Ids : inbox[d] # << >> }) + BagCardinality(mirrors) <= scenario.behind

Begin(s, pc, kind, user) == Go(s, [ pc |-> pc, kind |-> kind, user |-> user, uid |-> "none" ])

\* emailRegister refuses an email that either side knows.
EmailRegister(s) ==
  /\ Starts(s, "register") /\ ~row.there /\ supabase = "none"
  /\ \E role \in Roles \cap { scenario.role, "CUSTOMER" } :
       /\ supabase' = role
       /\ Begin(s, "registerCreate", "register", NewRow(role, "ACTIVE", "none", TRUE))
  /\ UNCHANGED << account, documents, tokens, auth, restaurant, callback, admin, job >>
  /\ NoNews

\* A row that somebody else has created in between breaks the unique email.
CreateRow(s, r, next) ==
  IF row.there
  THEN Finish(s) /\ UNCHANGED account /\ NoNews
  ELSE /\ Write(r)
       /\ Go(s, [ session[s] EXCEPT !.pc = next, !.user = r ])
       /\ expected' = [ role |-> r.role, status |-> r.status, link |-> MirrorOf(r).id ]
       /\ sure' = IF Settled /\ \A d \in Ids : ~doc[d].there THEN sure ELSE sure \ Fields
       /\ UNCHANGED << scenario, inputs, faults, rushed >>

RegisterCreate(s) ==
  /\ session[s].pc = "registerCreate"
  /\ CreateRow(s, session[s].user,
               IF session[s].user.role = "CUSTOMER" THEN "tokens" ELSE "registerLink")
  /\ UNCHANGED << documents, tokens, external, callback, admin, job >>

\* The Auth account of a vendor or driver is created, or one that exists is linked.  The
\* mirror of the new row has a document of its own by then: which of the two the row is
\* linked to in the end depends on the listener.  A failure is logged.
RegisterLink(s) ==
  /\ session[s].pc = "registerLink"
  /\ Step(s, "tokens")
  /\ \/ /\ auth' = TRUE
        /\ Write([ row EXCEPT !.link = "auth" ])
        /\ Certain(((Fields \cup { "agree" }) \ { "link" }) \ Overtaken)
     \/ auth' \in { auth, TRUE } /\ UNCHANGED account /\ Fault({})
  /\ UNCHANGED << documents, tokens, supabase, restaurant, callback, admin, job >>

\* emailLogin first gives an older row its Supabase account, then signs in there.
EmailLogin(s) ==
  /\ Starts(s, "login")
  /\ \/ supabase # "none" /\ UNCHANGED << account, external >> /\ NoNews
     \/ /\ supabase = "none" /\ row.there /\ ~row.supabase
        /\ supabase' = row.role
        /\ Write([ row EXCEPT !.supabase = TRUE ]) /\ CertainButOvertaken
        /\ UNCHANGED << auth, restaurant >>
  /\ Begin(s, "find", "login", NoRow)
  /\ UNCHANGED << documents, tokens, callback, admin, job >>

\* socialSignIn refuses a row it reads as banned, and finds or makes the Supabase account.
SocialSignIn(s) ==
  /\ Starts(s, "social")
  /\ ~(row.there /\ row.status = "BANNED")
  /\ supabase' = IF supabase = "none" THEN "CUSTOMER" ELSE supabase
  /\ Begin(s, "find", "social", NoRow)
  /\ UNCHANGED << account, documents, tokens, auth, restaurant, callback, admin, job >>
  /\ NoNews

\* handleOAuthCallback: Supabase has let the person in, with an account of its own.
HandleOAuthCallback(s) ==
  /\ Starts(s, "oauth")
  /\ supabase' = IF supabase = "none" THEN "CUSTOMER" ELSE supabase
  /\ Begin(s, "find", "oauth", NoRow)
  /\ UNCHANGED << account, documents, tokens, auth, restaurant, callback, admin, job >>
  /\ NoNews

FindUser(s) ==
  /\ session[s].pc = "find"
  /\ Go(s, [ session[s] EXCEPT !.user = row,
                               !.pc = IF ~row.there THEN "create"
                                      ELSE IF session[s].kind = "login" /\ row.supabase THEN "check"
                                      ELSE "update" ])
  /\ UNCHANGED << account, documents, tokens, external, callback, admin, job >>
  /\ NoNews

\* The role of a row made at sign-in: from the metadata of the Supabase account, from the
\* request of a social sign-in, or the default.
RolesAtSignIn(kind) ==
  CASE kind = "login" -> { supabase }
    [] kind = "social" -> { scenario.role, "CUSTOMER" }
    [] kind = "oauth" -> { "CUSTOMER" }

AfterSignIn(kind) == IF kind = "login" THEN "check" ELSE "tokens"

CreateFound(s) ==
  /\ session[s].pc = "create"
  /\ \E role \in RolesAtSignIn(session[s].kind) :
       CreateRow(s, NewRow(role, "ACTIVE", "none", TRUE), AfterSignIn(session[s].kind))
  /\ UNCHANGED << documents, tokens, external, callback, admin, job >>

\* The result of the update is the row as it is now, but only emailLogin looks at it.
UpdateFound(s) ==
  /\ session[s].pc = "update"
  /\ LET r == [ row EXCEPT !.supabase = TRUE ] IN
       /\ Write(r)
       /\ Go(s, [ session[s] EXCEPT !.user = r, !.pc = AfterSignIn(session[s].kind) ])
  /\ CertainButOvertaken
  /\ UNCHANGED << documents, tokens, external, callback, admin, job >>

\* Mutant: the role is taken from the token that is refreshed.
RefreshTokenPayload(s) ==
  /\ Starts(s, "refresh") /\ row.there
  /\ \E role \in refresh : Begin(s, "check", "refresh", [ row EXCEPT !.role = role ])
  /\ UNCHANGED << account, documents, tokens, external, callback, admin, job >>
  /\ NoNews

\* refreshToken reads the row of the token's subject; the token stays valid.
RefreshToken(s) ==
  /\ Starts(s, "refresh") /\ refresh # {} /\ row.there
  /\ Begin(s, "check", "refresh", row)
  /\ UNCHANGED << account, documents, tokens, external, callback, admin, job >>
  /\ NoNews

\* getCurrentUser, and any other call, is let in by the access token alone.
GetCurrentUser(s) ==
  /\ Starts(s, "profile") /\ access # {} /\ row.there
  /\ Begin(s, "resolve", "profile", row)
  /\ UNCHANGED << account, documents, tokens, external, callback, admin, job >>
  /\ NoNews

\* Both tokens carry the role the call has read.
GenerateTokens(user) == access' = access \cup { user.role } /\ refresh' = refresh \cup { user.role }

\* Mutant: only emailLogin looks at the status.
CheckBanAtLogin(s) ==
  /\ session[s].pc = "check"
  /\ IF session[s].user.status = "BANNED" /\ session[s].kind = "login"
     THEN Finish(s) /\ UNCHANGED tokens
     ELSE Step(s, "resolve") /\ GenerateTokens(session[s].user)
  /\ UNCHANGED << account, documents, external, callback, admin, job >>
  /\ NoNews

\* emailLogin and refreshToken refuse a banned row before they make tokens.
CheckBan(s) ==
  /\ session[s].pc = "check"
  /\ IF session[s].user.status = "BANNED"
     THEN Finish(s) /\ UNCHANGED tokens
     ELSE Step(s, "resolve") /\ GenerateTokens(session[s].user)
  /\ UNCHANGED << account, documents, external, callback, admin, job >>
  /\ NoNews

\* emailRegister, socialSignIn and handleOAuthCallback make them without another look.
IssueTokens(s) ==
  /\ session[s].pc = "tokens"
  /\ GenerateTokens(session[s].user)
  /\ Finish(s)
  /\ UNCHANGED << account, documents, external, callback, admin, job >>
  /\ NoNews

\* The id syncAndGetFirebaseToken makes a token for: what the row is linked to, the Auth
\* account of the email, or the id of the row; and the restaurant of a vendor has its own.
OwnId(user) ==
  IF user.link # "none" THEN user.link ELSE IF auth THEN "auth" ELSE "row"
ResolvedId(user) ==
  IF user.role = "VENDOR" /\ restaurant \in Ids THEN restaurant ELSE OwnId(user)

ResolveId(s) ==
  LET user == session[s].user  uid == ResolvedId(user) IN
  /\ session[s].pc = "resolve"
  /\ IF user.role = "CUSTOMER"
     THEN Finish(s) /\ UNCHANGED restaurant /\ NoNews
     ELSE /\ Go(s, [ session[s] EXCEPT !.uid = uid, !.pc = IF user.link # uid THEN "linkRow" ELSE "doc" ])
          /\ restaurant' = IF user.role = "VENDOR" /\ restaurant = "unset" THEN uid ELSE restaurant
          /\ expected' = [ expected EXCEPT !.link = uid ]
          /\ sure' = IF Settled /\ Alone(s) THEN sure ELSE sure \ { "link" }
          /\ UNCHANGED << scenario, inputs, faults, rushed >>
  /\ UNCHANGED << account, documents, tokens, supabase, auth, callback, admin, job >>

\* A version of the document before, which is still on its way, takes the link back.
LinkRow(s) ==
  /\ session[s].pc = "linkRow"
  /\ Write([ row EXCEPT !.link = session[s].uid ])
  /\ Step(s, "doc")
  /\ Certain(((IF Settled /\ Alone(s) THEN Fields ELSE Fields \ { "link" }) \cup { "agree" }) \ Overtaken)
  /\ UNCHANGED << documents, tokens, external, callback, admin, job >>

\* Mutant: the status the call has read goes along.
WriteUsersDocStatus(s) ==
  /\ session[s].pc = "doc"
  /\ PutDoc(session[s].uid, Doc(session[s].user.role, session[s].user.status))
  /\ IF session[s].user.role = expected.role THEN NoNews ELSE Certain({ "status", "link", "agree" })
  /\ Finish(s)
  /\ UNCHANGED << account, tokens, external, callback, admin, job >>

\* The document gets the role the call has read, which may be the one before, and keeps
\* its status.
WriteUsersDoc(s) ==
  /\ session[s].pc = "doc"
  /\ LET d == session[s].uid IN PutDoc(d, Doc(session[s].user.role, doc[d].status))
  /\ IF session[s].user.role = expected.role THEN NoNews ELSE Certain({ "status", "link", "agree" })
  /\ Finish(s)
  /\ UNCHANGED << account, tokens, external, callback, admin, job >>

\* firebaseSyncPassword, of somebody Firebase Auth knows: a row is made as a vendor's.
FirebaseSyncPassword(s) ==
  /\ Starts(s, "password") /\ auth
  /\ Begin(s, IF row.there THEN "password" ELSE "skeleton", "password", row)
  /\ UNCHANGED << account, documents, tokens, external, callback, admin, job >>
  /\ NoNews

CreateSkeleton(s) ==
  /\ session[s].pc = "skeleton"
  /\ CreateRow(s, NewRow("VENDOR", "ACTIVE", "auth", FALSE), "password")
  /\ UNCHANGED << documents, tokens, external, callback, admin, job >>

\* A row without a supabaseId gets one, and is linked to Firebase Auth again.
SyncPassword(s) ==
  /\ session[s].pc = "password"
  /\ IF session[s].user.supabase
     THEN UNCHANGED << account, supabase >> /\ NoNews
     ELSE /\ supabase' = IF supabase = "none" THEN session[s].user.role ELSE supabase
          /\ Write([ row EXCEPT !.supabase = TRUE, !.link = "auth" ])
          /\ expected' = [ expected EXCEPT !.link = "auth" ]
          /\ sure' = (IF Settled /\ Alone(s) THEN sure ELSE sure \ { "link" }) \ Overtaken
          /\ UNCHANGED << scenario, inputs, faults, rushed >>
  /\ Finish(s)
  /\ UNCHANGED << documents, tokens, auth, restaurant, callback, admin, job >>

\* 15 minutes and 7 days after; logging out ends neither.
AccessExpires(role) ==
  /\ role \in access
  /\ access' = access \ { role }
  /\ UNCHANGED << account, documents, refresh, external, callback, session, admin, job >>
  /\ NoNews

RefreshExpires(role) ==
  /\ role \in refresh
  /\ refresh' = refresh \ { role }
  /\ UNCHANGED << account, documents, access, external, callback, session, admin, job >>
  /\ NoNews

(***************************************************************************)
(* Administrators, and what people write themselves                        *)
(***************************************************************************)
\* updateUserStatus reads the account, writes the row, and then the status into the
\* document of the firebaseUid it has read.
UpdateUserStatus(status) ==
  /\ Allowed("status") /\ admin.pc = "idle" /\ row.there
  /\ admin' = [ pc |-> "row", link |-> row.link, status |-> status ]
  /\ Input([ expected EXCEPT !.status = status ], Undisturbed)
  /\ UNCHANGED << account, documents, tokens, external, callback, session, job >>

StatusToRow ==
  /\ admin.pc = "row"
  /\ Write([ row EXCEPT !.status = admin.status ])
  /\ admin' = [ admin EXCEPT !.pc = "doc" ]
  /\ IF Still /\ row.link = admin.link THEN NoNews ELSE Certain((Fields \cup { "agree" }) \ { "status" })
  /\ UNCHANGED << documents, tokens, external, callback, session, job >>

\* update fails for a document that is not there; a failure is logged.
StatusToDoc ==
  /\ admin.pc = "doc"
  /\ admin' = IdleAdmin
  /\ \/ /\ IF admin.link # "none" /\ doc[admin.link].there
           THEN PutDoc(admin.link, [ doc[admin.link] EXCEPT !.status = admin.status ])
           ELSE UNCHANGED documents
        /\ NoNews
     \/ UNCHANGED documents /\ Fault({})
  /\ UNCHANGED << account, tokens, external, callback, session, job >>

\* updateUserRole, and updateProfile of somebody with an access token.
UpdateUserRole(role) ==
  /\ Allowed("role") /\ row.there
  /\ Write([ row EXCEPT !.role = role ])
  /\ Input([ expected EXCEPT !.role = role ], Undisturbed)
  /\ UNCHANGED << documents, tokens, external, callback, session, admin, job >>

UpdateProfile(role) ==
  /\ Allowed("profile") /\ row.there /\ access # {}
  /\ Write([ row EXCEPT !.role = role ])
  /\ Input([ expected EXCEPT !.role = role ], Undisturbed)
  /\ UNCHANGED << documents, tokens, external, callback, session, admin, job >>

\* The mirror of this write is a version of the document like any other.
DeleteUser ==
  /\ Allowed("delete") /\ row.there
  /\ Write([ row EXCEPT !.deleted = TRUE ])
  /\ Input(expected, Fields \ Overtaken)
  /\ UNCHANGED << documents, tokens, external, callback, session, admin, job >>

\* An application or the console of Firebase writes the document of an Auth account.
AppSet(role, status) ==
  /\ Allowed("app")
  /\ auth' = TRUE
  /\ PutDoc("auth", Doc(role, status))
  /\ Input([ role |-> role, status |-> status, link |-> "auth" ],
           IF Quiet /\ \A d \in Ids : doc[d].there => d = "auth" THEN Fields ELSE {})
  /\ UNCHANGED << account, tokens, supabase, restaurant, callback, session, admin, job >>

\* The document goes, with the Auth account or without it.
AppRemove ==
  /\ Allowed("remove") /\ doc["auth"].there
  /\ auth' \in { auth, FALSE }
  /\ PutDoc("auth", NoDoc)
  /\ Input([ expected EXCEPT !.status = "BANNED" ], IF Quiet /\ OneDocument THEN Fields ELSE {})
  /\ UNCHANGED << account, tokens, supabase, restaurant, callback, session, admin, job >>

(***************************************************************************)
(* Mirrors, the listener, and the job                                      *)
(***************************************************************************)
\* A set with merge, whatever the document holds by then.
MirrorWrite(m) ==
  /\ BagIn(m, mirrors)
  /\ mirrors' = mirrors (-) SetToBag({ m })
  /\ PutDoc(m.id, Doc(m.role, m.status))
  /\ UNCHANGED << row, tokens, external, callback, session, admin, job >>
  /\ NoNews

\* Nobody repeats a mirror that failed.  A status is written by updateUserStatus as well.
MirrorLost(m) ==
  /\ BagIn(m, mirrors)
  /\ mirrors' = mirrors (-) SetToBag({ m })
  /\ Fault({ "role", "link", "agree" })
  /\ UNCHANGED << row, documents, tokens, external, callback, session, admin, job >>

\* A removal bans the row of that id in one statement; a version without one looks the row
\* up first.  Bound: one callback at a time for each document.
Called(d) ==
  /\ callback[d].pc = "idle" /\ inbox[d] # << >>
  /\ inbox' = [ inbox EXCEPT ![d] = Tail(@) ]
  /\ LET v == Head(inbox[d]) IN
       IF v.there
       THEN /\ callback' = [ callback EXCEPT ![d] =
                               [ pc |-> "write", existing |-> row.there, doc |-> v ] ]
            /\ UNCHANGED row
       ELSE /\ row' = IF row.there /\ d \in { row.link, "row" } THEN Banned(row) ELSE row
            /\ UNCHANGED callback
  /\ UNCHANGED << doc, mirrors, tokens, external, session, admin, job >>
  /\ NoNews

\* syncUserToPostgres: a row that was found is updated, else one is created, which fails
\* when there is one by now.
SyncedRow(existing, d, v) ==
  IF existing THEN Carried(row, d, v) ELSE IF row.there THEN row ELSE CarriedNew(d, v)

SyncUserToPostgres(d) ==
  /\ callback[d].pc = "write"
  /\ WriteBypassed(SyncedRow(callback[d].existing, d, callback[d].doc))
  /\ callback' = [ callback EXCEPT ![d] = IdleCallback ]
  /\ UNCHANGED << documents, tokens, external, session, admin, job >>
  /\ NoNews

\* syncAllData takes a snapshot of the documents, or goes on with nothing.  A job that
\* starts while something is on its way may carry over what is older.
JobStart ==
  /\ Allowed("job") /\ job.pc = "idle"
  /\ IF Settled THEN UNCHANGED rushed ELSE rushed < scenario.rushed /\ rushed' = rushed + 1
  /\ LET found == { d \in Ids : doc[d].there } IN
       \/ /\ job' = [ IdleJob EXCEPT !.pc = "users", !.snapshot = doc, !.todo = found, !.active = found ]
          /\ sure' = CASE ~Settled -> {}
                       [] Settled /\ ~OneDocument -> sure \cap { "agree" }
                       [] Settled /\ OneDocument -> IF SessionsIdle THEN sure ELSE sure \ { "link" }
          /\ UNCHANGED << scenario, inputs, faults, expected >>
       \/ /\ job' = [ IdleJob EXCEPT !.pc = "users" ]
          /\ faults < scenario.faults /\ faults' = faults + 1
          /\ sure' = {}
          /\ UNCHANGED << scenario, inputs, expected >>
  /\ UNCHANGED << account, documents, tokens, external, callback, session, admin >>

JobRead(d) ==
  /\ job.pc = "users" /\ d \in job.todo
  /\ job' = [ job EXCEPT !.pc = "write", !.of = d, !.existing = row.there, !.todo = @ \ { d } ]
  /\ UNCHANGED << account, documents, tokens, external, callback, session, admin >>
  /\ NoNews

\* Mutant: the job only makes the rows that are missing.
JobWriteMissing ==
  /\ job.pc = "write"
  /\ IF ~row.there THEN Write(CarriedNew(job.of, job.snapshot[job.of])) ELSE UNCHANGED account
  /\ job' = [ job EXCEPT !.pc = "users" ]
  /\ UNCHANGED << documents, tokens, external, callback, session, admin >>
  /\ NoNews

\* Here the mirror is on: the document is written again.
JobWrite ==
  /\ job.pc = "write"
  /\ LET r == SyncedRow(job.existing, job.of, job.snapshot[job.of]) IN
       IF job.existing \/ ~row.there THEN Write(r) ELSE UNCHANGED account
  /\ job' = [ job EXCEPT !.pc = "users" ]
  /\ UNCHANGED << documents, tokens, external, callback, session, admin >>
  /\ NoNews

\* The accounts of Firebase Auth, a listing of them that breaks off, and the row.
Missing(active) == row.there /\ row.link # "none" /\ ~row.deleted /\ row.link \notin active

JobList ==
  /\ job.pc = "users" /\ job.todo = {}
  /\ \E listed \in BOOLEAN :
       LET active == job.active \cup (IF auth /\ listed THEN { "auth" } ELSE {}) IN
       /\ job' = IF Missing(active) THEN [ job EXCEPT !.pc = "ban", !.active = active ] ELSE IdleJob
       /\ IF listed
          THEN NoNews
          ELSE /\ faults < scenario.faults /\ faults' = faults + 1
               /\ sure' = {}
               /\ UNCHANGED << scenario, inputs, rushed, expected >>
  /\ UNCHANGED << account, documents, tokens, external, callback, session, admin >>

\* The account may have come back since the listing.
JobBan ==
  /\ job.pc = "ban"
  /\ WriteBypassed(Banned(row))
  /\ job' = IdleJob
  /\ IF Still /\ row.link \notin job.active /\ \A d \in Ids : ~doc[d].there
     THEN expected' = [ expected EXCEPT !.status = "BANNED" ] /\ UNCHANGED sure
     ELSE sure' = (IF doc[row.link].there THEN {} ELSE sure \cap { "agree" }) /\ UNCHANGED expected
  /\ UNCHANGED << documents, tokens, external, callback, session, admin, scenario, inputs, faults, rushed >>

\* The process ends: what it had scheduled or begun is gone, and the listener starts anew
\* with the documents as they are.
Restart ==
  /\ Fault(Fields \cup { "agree" })
  /\ mirrors' = EmptyBag
  /\ inbox' = [ d \in Ids |-> << >> ]
  /\ callback' = [ d \in Ids |-> IdleCallback ]
  /\ session' = [ s \in Sessions |-> IdleSession ]
  /\ admin' = IdleAdmin /\ job' = IdleJob
  /\ UNCHANGED << row, doc, tokens, external >>

(***************************************************************************)
(* Specification                                                           *)
(***************************************************************************)
Start(s) ==
  \/ EmailRegister(s) \/ EmailLogin(s) \/ SocialSignIn(s) \/ HandleOAuthCallback(s)
  \/ RefreshToken(s) \/ GetCurrentUser(s) \/ FirebaseSyncPassword(s)

Continue(s) ==
  \/ RegisterCreate(s) \/ RegisterLink(s) \/ FindUser(s) \/ CreateFound(s) \/ UpdateFound(s)
  \/ CheckBan(s) \/ IssueTokens(s) \/ ResolveId(s) \/ LinkRow(s) \/ WriteUsersDoc(s)
  \/ CreateSkeleton(s) \/ SyncPassword(s)

Decide ==
  \/ \E status \in Statuses : UpdateUserStatus(status)
  \/ \E role \in { scenario.role, "CUSTOMER" } : UpdateUserRole(role) \/ UpdateProfile(role)
  \/ DeleteUser
  \/ \E role \in { scenario.role, "CUSTOMER" }, status \in Statuses : AppSet(role, status)
  \/ AppRemove

JobContinue == (\E d \in Ids : JobRead(d)) \/ JobWrite \/ JobList \/ JobBan

Next ==
  \/ \E s \in Sessions : Start(s) \/ Continue(s)
  \/ \E role \in Roles : AccessExpires(role) \/ RefreshExpires(role)
  \/ Decide \/ StatusToRow \/ StatusToDoc
  \/ \E m \in BagToSet(mirrors) : MirrorWrite(m) \/ MirrorLost(m)
  \/ \E d \in Ids : Called(d) \/ SyncUserToPostgres(d)
  \/ JobStart \/ JobContinue
  \/ Restart

\* What the process has begun goes on, tokens expire, and the clock starts the job again
\* and again, whatever else is going on then.
Fairness ==
  /\ \A s \in Sessions : WF_vars(Continue(s))
  /\ \A role \in Roles : WF_vars(AccessExpires(role)) /\ WF_vars(RefreshExpires(role))
  /\ WF_vars(StatusToRow) /\ WF_vars(StatusToDoc)
  /\ WF_vars(\E m \in BagToSet(mirrors) : MirrorWrite(m))
  /\ \A d \in Ids : WF_vars(Called(d)) /\ WF_vars(SyncUserToPostgres(d))
  /\ SF_vars(JobStart)
  /\ WF_vars(JobContinue)

Spec == Init /\ [][Next]_vars /\ Fairness

(***************************************************************************)
(* Properties                                                              *)
(***************************************************************************)
\* The row is as the document of its firebaseUid says, as far as that says anything.
Agree ==
  (row.there /\ row.link # "none") =>
    LET d == doc[row.link] IN
      d.there => d.role \in { "none", row.role } /\ d.status \in { "none", row.status }

\* Administrators, applications, the person's devices and the job write row and documents
\* in any order: when nothing is on its way any more the two agree.
Converged == (Quiet /\ "agree" \in sure) => Agree

\* A ban, a change of the role and a new link stay what they were made, whatever the
\* person's own calls, the mirrors' echoes and the job carry about, unless a second document
\* or something on its way was there already.  A ban outlasts a lost mirror or a lost write
\* of the document.
LastInputWins == (Quiet /\ row.there) => \A f \in sure \cap Fields : row[f] = expected[f]

\* After a lost mirror, a restart or a listing that broke off and banned somebody who is
\* there, the job brings row and document together again.
EventuallyAgree == <>[](Quiet => Agree)

\* Tokens cannot be taken back, but somebody who stays banned runs out of them, though his
\* devices go on to log in and to refresh (a sign-in over OAuth never looks at the status).
BannedLosesAccess ==
  (<>[](row.status = "BANNED")) => ("oauth" \in scenario.operations \/ <>[](access = {}))

\* A token has the role of its time; once a role stays, tokens with another one run out.
TokensFollowRole == \A role \in Roles : (<>[](row.role = role)) => <>[](access \subseteq { role })

\* Row, documents and tokens are of their kinds, and in quiet row and document agree.
AccountsInv == TypeOK /\ Converged

\* Tokens that should not be held any more run out.
TokensRunOut == BannedLosesAccess /\ TokensFollowRole
=============================================================================

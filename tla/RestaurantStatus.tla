-------------------------- MODULE RestaurantStatus --------------------------
(***************************************************************************)
(* The standing of one restaurant that has a row and a document: its       *)
(* status, and whether it is active.  A decision of an administrator       *)
(* writes both into the row, and later both into the document.  The mirror *)
(* of any statement that writes the row carries isActive to the document   *)
(* and not the status; it has the values of that statement, which may be   *)
(* old when it arrives.  Two listeners carry every version of the document *)
(* into the row: that of orders/firebase-sync.service.ts isActive, that of *)
(* firebase/firebase-sync.service.ts both, if it knows the owner.  Jobs of *)
(* both services write what they have read of the document into the row.   *)
(*                                                                         *)
(* Bounds: the two listeners see every version, in order, one at a time    *)
(* each.  Not here: the other fields of the document (MenuSync); removals; *)
(* updateMany of restaurants, which schedules no mirror (OnboardingService *)
(* and rejectFirebaseVendorApplication); OnboardingService.syncToFirebase, *)
(* which makes the row's id the document's owner.                          *)
(***************************************************************************)
EXTENDS Naturals, Sequences

CONSTANTS
  Deciders,       \* slots for concurrent calls of administrators
  AdminStatuses,  \* the statuses administrators decide on
  AppStatuses,    \* those an app puts into the document
  MaxMoves,       \* the decisions, app writes, statements about other fields, and jobs
  MaxFaults       \* the failing writes and callbacks, and the restarts

\* What a restaurant may be given; nothing gives it PENDING_SUSPENSION.
AccountStatus == { "ACTIVE", "INACTIVE", "SUSPENDED", "BANNED", "PENDING_VERIFICATION" }

\* What a document may say, in capitals; "none" when it says nothing.
Spellings == AccountStatus \cup { "PENDING", "none" }

ASSUME RestaurantStatusAssumption ==
  /\ AdminStatuses \subseteq AccountStatus
  /\ AppStatuses \subseteq Spellings \ { "none" }
  /\ MaxMoves \in Nat /\ MaxFaults \in Nat

Documents == [ status : Spellings, active : BOOLEAN ]

\* The two classes named FirebaseSyncService: what each has by way of listener and job.
Listeners == { "syncRestaurant", "syncRestaurantToPostgres" }
Jobs == { "initialSyncRestaurants", "syncAllData" }

VARIABLES
  sqlRow,     \* restaurants.status and isActive
  document,   \* the same two fields of the document
  owned,      \* whether the document's ownerId is the firebaseUid of a user
  echoes,     \* how many writes of each isActive are on their way to the document
  versions,   \* the versions of the document each listener has not carried
  snapshot,   \* what a job has read of the document and not written, if it has
  deciding,   \* the status a call has put into the row and not yet into the document
  moves, breaks,
  decided,    \* history: the last status an administrator or an app has put
  clear,      \* history: that was done alone, and on both sides
  behind      \* history: something failed, and the document was not written since

statusVars ==
  << sqlRow, document, owned, echoes, versions, snapshot, deciding, moves, breaks, decided, clear, behind >>

StatusTypeOK ==
  /\ sqlRow \in [ status : AccountStatus, active : BOOLEAN ]
  /\ document \in Documents
  /\ owned \in BOOLEAN
  /\ echoes \in [ BOOLEAN -> Nat ]
  /\ versions \in [ Listeners -> Seq(Documents) ]
  /\ snapshot \in [ Jobs -> Seq(Documents) ]
  /\ deciding \in [ Deciders -> AccountStatus \cup { "idle" } ]
  /\ moves \in 0 .. MaxMoves /\ breaks \in 0 .. MaxFaults
  /\ decided \in Spellings
  /\ clear \in BOOLEAN /\ behind \in BOOLEAN

\* An approved application has made the restaurant with its document, or it was created in
\* PostgreSQL and mirrored, which gives the document neither owner nor status.
StatusInit ==
  /\ owned \in BOOLEAN
  /\ sqlRow = [ status |-> IF owned THEN "ACTIVE" ELSE "PENDING_VERIFICATION", active |-> TRUE ]
  /\ document = [ status |-> IF owned THEN "ACTIVE" ELSE "none", active |-> TRUE ]
  /\ echoes = [ b \in BOOLEAN |-> 0 ]
  /\ versions = [ l \in Listeners |-> << >> ]
  /\ snapshot = [ j \in Jobs |-> << >> ]
  /\ deciding = [ a \in Deciders |-> "idle" ]
  /\ moves = 0 /\ breaks = 0
  /\ decided = "ACTIVE" /\ clear = FALSE /\ behind = FALSE

(***************************************************************************)
(* Helpers                                                                 *)
(***************************************************************************)
Move == moves < MaxMoves /\ moves' = moves + 1 /\ UNCHANGED breaks

Fault == breaks < MaxFaults /\ breaks' = breaks + 1 /\ behind' = TRUE /\ UNCHANGED moves

NoneDeciding == \A a \in Deciders : deciding[a] = "idle"

\* A statement about the row schedules the mirror of its result.
Echo(active) == echoes' = [ echoes EXCEPT ![active] = @ + 1 ]

\* Every write of the document is a version: all of them set updatedAt.
PutDocument(d) ==
  /\ document' = d
  /\ versions' = [ l \in Listeners |-> Append(versions[l], d) ]
  /\ behind' = FALSE

\* How syncRestaurantToPostgres reads a status: it knows "pending", and takes what it does
\* not know for active; without one isActive decides.
StatusRead(d) ==
  CASE d.status \in AccountStatus \ { "PENDING_VERIFICATION" } -> d.status
    [] d.status = "PENDING" -> "PENDING_VERIFICATION"
    [] d.status = "none" /\ ~d.active -> "SUSPENDED"
    [] OTHER -> "ACTIVE"

\* What the two make of the row.
SyncRestaurantRow(d) == [ sqlRow EXCEPT !.active = d.active ]

SyncRestaurantToPostgres(d) ==
  IF owned THEN [ status |-> StatusRead(d), active |-> d.active ] ELSE sqlRow

(***************************************************************************)
(* approveRestaurant, rejectRestaurant and updateVendorStatus              *)
(***************************************************************************)
DecideRow(a, status) ==
  /\ deciding[a] = "idle"
  /\ Move
  /\ sqlRow' = [ status |-> status, active |-> status = "ACTIVE" ]
  /\ Echo(status = "ACTIVE")
  /\ deciding' = [ deciding EXCEPT ![a] = status ]
  /\ decided' = status
  /\ clear' = NoneDeciding
  /\ UNCHANGED << document, owned, versions, snapshot, behind >>

\* Mutant: the document is only told whether the restaurant is active.
DecideDocumentActive(a) ==
  /\ deciding[a] # "idle"
  /\ PutDocument([ document EXCEPT !.active = (deciding[a] = "ACTIVE") ])
  /\ deciding' = [ deciding EXCEPT ![a] = "idle" ]
  /\ UNCHANGED << sqlRow, owned, echoes, snapshot, moves, breaks, decided, clear >>

DecideDocument(a) ==
  /\ deciding[a] # "idle"
  /\ PutDocument([ status |-> deciding[a], active |-> deciding[a] = "ACTIVE" ])
  /\ deciding' = [ deciding EXCEPT ![a] = "idle" ]
  /\ UNCHANGED << sqlRow, owned, echoes, snapshot, moves, breaks, decided, clear >>

\* The write, or that of the owner's document before it, fails: a warning is logged.
DecideFails(a) ==
  /\ deciding[a] # "idle"
  /\ Fault
  /\ deciding' = [ deciding EXCEPT ![a] = "idle" ]
  /\ clear' = FALSE
  /\ UNCHANGED << sqlRow, document, owned, echoes, versions, snapshot, decided >>

(***************************************************************************)
(* Rows into documents                                                     *)
(***************************************************************************)

\* A statement about other fields of the row (update, toggleOpen, a review, a settlement);
\* the reading of syncToFirebase after it; that of the reconciliation, when name, isActive
\* or isOpen differ.
OtherUpdate ==
  /\ Move
  /\ Echo(sqlRow.active)
  /\ UNCHANGED << sqlRow, document, owned, versions, snapshot, deciding, decided, clear, behind >>

EchoWrites(active) ==
  /\ echoes[active] > 0
  /\ echoes' = [ echoes EXCEPT ![active] = @ - 1 ]
  /\ PutDocument([ document EXCEPT !.active = active ])
  /\ UNCHANGED << sqlRow, owned, snapshot, deciding, moves, breaks, decided, clear >>

EchoLost(active) ==
  /\ echoes[active] > 0
  /\ Fault
  /\ echoes' = [ echoes EXCEPT ![active] = @ - 1 ]
  /\ UNCHANGED << sqlRow, document, owned, versions, snapshot, deciding, decided, clear >>

(***************************************************************************)
(* Documents into rows                                                     *)
(***************************************************************************)

\* The status an app writes reaches the row of a restaurant whose owner is known.
AppPuts(status, active) ==
  /\ Move
  /\ PutDocument([ status |-> status, active |-> active ])
  /\ decided' = IF owned THEN status ELSE decided
  /\ clear' = IF owned THEN NoneDeciding ELSE clear
  /\ UNCHANGED << sqlRow, owned, echoes, snapshot, deciding >>

\* A callback with the next version, mirror off.
Carry(l) ==
  /\ versions[l] # << >>
  /\ sqlRow' = IF l = "syncRestaurant" THEN SyncRestaurantRow(Head(versions[l]))
              ELSE SyncRestaurantToPostgres(Head(versions[l]))
  /\ versions' = [ versions EXCEPT ![l] = Tail(@) ]
  /\ UNCHANGED << document, owned, echoes, snapshot, deciding, moves, breaks, decided, clear, behind >>

CarryFails(l) ==
  /\ versions[l] # << >>
  /\ Fault
  /\ versions' = [ versions EXCEPT ![l] = Tail(@) ]
  /\ UNCHANGED << sqlRow, document, owned, echoes, snapshot, deciding, decided, clear >>

JobReads(j) ==
  /\ snapshot[j] = << >>
  /\ Move
  /\ snapshot' = [ snapshot EXCEPT ![j] = << document >> ]
  /\ UNCHANGED << sqlRow, document, owned, echoes, versions, deciding, decided, clear, behind >>

\* Mutant: the jobs write as the listeners do.
JobWritesUnechoed(j) ==
  /\ snapshot[j] # << >>
  /\ sqlRow' = IF j = "initialSyncRestaurants" THEN SyncRestaurantRow(Head(snapshot[j]))
              ELSE SyncRestaurantToPostgres(Head(snapshot[j]))
  /\ snapshot' = [ snapshot EXCEPT ![j] = << >> ]
  /\ UNCHANGED << document, owned, echoes, versions, deciding, moves, breaks, decided, clear, behind >>

\* The mirror is on; syncRestaurantToPostgres makes no statement without an owner.
JobWrites(j) ==
  LET d == Head(snapshot[j])
  IN /\ snapshot[j] # << >>
     /\ \/ j = "initialSyncRestaurants" /\ sqlRow' = SyncRestaurantRow(d) /\ Echo(d.active)
        \/ j = "syncAllData" /\ owned /\ sqlRow' = SyncRestaurantToPostgres(d) /\ Echo(d.active)
        \/ j = "syncAllData" /\ ~owned /\ UNCHANGED << sqlRow, echoes >>
     /\ snapshot' = [ snapshot EXCEPT ![j] = << >> ]
     /\ UNCHANGED << document, owned, versions, deciding, moves, breaks, decided, clear, behind >>

\* The server stops and starts.  The listeners skip the first snapshot.
StatusRestart ==
  /\ Fault
  /\ echoes' = [ b \in BOOLEAN |-> 0 ]
  /\ versions' = [ l \in Listeners |-> << >> ]
  /\ snapshot' = [ j \in Jobs |-> << >> ]
  /\ deciding' = [ a \in Deciders |-> "idle" ]
  /\ clear' = (clear /\ NoneDeciding)
  /\ UNCHANGED << sqlRow, document, owned, decided >>

StatusNext ==
  \/ \E a \in Deciders : (\E s \in AdminStatuses : DecideRow(a, s)) \/ DecideDocument(a) \/ DecideFails(a)
  \/ OtherUpdate
  \/ \E active \in BOOLEAN : EchoWrites(active) \/ EchoLost(active)
  \/ \E s \in AppStatuses, active \in BOOLEAN : AppPuts(s, active)
  \/ \E l \in Listeners : Carry(l) \/ CarryFails(l)
  \/ \E j \in Jobs : JobReads(j) \/ JobWrites(j)
  \/ StatusRestart

StatusSpec == StatusInit /\ [][StatusNext]_statusVars

(***************************************************************************)
(* Properties                                                              *)
(***************************************************************************)

\* Nothing is on its way to the document or from it.  A job may have read it.
Arrived ==
  /\ \A b \in BOOLEAN : echoes[b] = 0
  /\ \A l \in Listeners : versions[l] = << >>
  /\ NoneDeciding

\* However decisions, app writes, mirrors, listeners and jobs interleave: when everything
\* has arrived, the row says what the document says, also the status, which no mirror
\* carries (each mirror makes a version, and that brings the document's status back).
\* Whatever was lost or failed, the next write of the document by anyone makes good.
StandingAgrees ==
  Arrived /\ ~behind =>
    /\ sqlRow.active = document.active
    /\ owned => sqlRow.status = StatusRead(document)

\* The status put last stands, whatever mirrors, listeners, jobs and other updates did
\* meanwhile, if no other decision ran into it and it reached the document.  One that
\* syncRestaurantToPostgres knows the owner of stands as that reads it: of
\* PENDING_VERIFICATION it makes ACTIVE.
DecisionStands ==
  Arrived /\ ~behind /\ clear =>
    sqlRow.status = IF owned THEN StatusRead([ status |-> decided, active |-> TRUE ]) ELSE decided

\* The two sides of a restaurant's standing agree once everything has arrived.
StandingInv == StatusTypeOK /\ StandingAgrees
=============================================================================

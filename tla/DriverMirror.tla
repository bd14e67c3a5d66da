---------------------------- MODULE DriverMirror ----------------------------
(***************************************************************************)
(* A driver's wallet and number of trips, kept twice: in the rows of user  *)
(* and profile in PostgreSQL and in the document of driverProfiles; and the*)
(* ride of TransportService that pays into both.                           *)
(*   - A ride is kept in a document, which is read and written, and in a   *)
(*     row, which only follows.                                            *)
(*   - A payment made in PostgreSQL is copied into the document by a       *)
(*     statement that reads the rows again.                                *)
(*   - A write of the profile through Prisma schedules a mirror of its     *)
(*     trips, with the extension of PrismaService.                         *)
(*   - The listener carries each version of the document into the rows,    *)
(*     wallet first, as absolute values; so does a job every twelve hours. *)
(* Every payment is of one unit, the fare of the ride too.                 *)
(***************************************************************************)
EXTENDS Naturals, Integers, Sequences, Bags, FiniteSets

CONSTANTS
  Calls,      \* requests and callbacks that can be in progress at one time
  Scenarios   \* what an instance has: its operations, the updates a ride gets, whether the
              \* ride begins accepted, how close inputs follow each other, and bounds on the
              \* inputs and on the faults

Statuses == { "pending", "accepted", "arrived", "started", "arrivedAtDestination", "completed", "cancelled" }

\* An update that names no status leaves that of the document alone.
Updates == [ status : Statuses \cup { "unnamed" }, driver : BOOLEAN ]

ASSUME DriverMirrorAssumption ==
  /\ IsFiniteSet(Calls)
  /\ Scenarios \subseteq
       [ operations : SUBSET { "ride", "patch", "adjust", "delivered", "settled", "profile", "setwallet", "ping", "jobs" },
         updates : SUBSET Updates, accepted : BOOLEAN, pace : { "quiet", "serial", "overlapping" },
         inputs : Nat, faults : Nat ]

VARIABLES
  scenario,   \* the member of Scenarios this behaviour is of
  sql,        \* wallet of the user's row, trips of the profile's row
  doc,        \* wallet and trips of the document
  mirrors,    \* the trips the extension is about to write, a bag
  inbox,      \* the versions of the document its listener has not been called with
  listener,   \* the callback of the listener
  job,        \* initialSyncDrivers
  calls,      \* what each call does next and has read
  ride,       \* status and driver of its document, status of its row
  entries,    \* the driverWalletTransactions of the ride
  inputs, faults,
  history     \* how often the ride became completed, what was paid otherwise, the trips
              \* made, and whether the last update of the ride reaches its row

vars == << scenario, sql, doc, mirrors, inbox, listener, job, calls, ride, entries, inputs, faults, history >>
accounts == << sql, doc, mirrors, inbox >>

RowStatuses == { "PENDING", "ACCEPTED", "ARRIVING", "STARTED", "COMPLETED", "CANCELLED" }

Accounts == [ wallet : Int, trips : Nat ]

Callbacks == [ pc : { "idle", "user", "profile" }, version : Accounts ]

CallStates ==
  [ pc : { "idle", "create", "read", "credit", "entry", "wallet", "trips", "row", "doc",
           "earn", "fields", "statsRead", "statsWrite", "ping" },
    update : Updates, adjusts : BOOLEAN, transaction : BOOLEAN, stats : Accounts ]

TypeOK ==
  /\ scenario \in Scenarios
  /\ sql \in Accounts
  /\ doc \in Accounts
  /\ BagToSet(mirrors) \subseteq Nat
  /\ inbox \in Seq(Accounts)
  /\ listener \in Callbacks
  /\ job \in Callbacks
  /\ calls \in [ Calls -> CallStates ]
  /\ ride \in [ status : Statuses \cup { "absent" }, driver : BOOLEAN, row : RowStatuses \cup { "absent" } ]
  /\ entries \in Nat
  /\ inputs \in 0 .. scenario.inputs
  /\ faults \in 0 .. scenario.faults
  /\ history \in [ completions : Nat, paid : Int, trips : Nat, mirrored : BOOLEAN ]

NoMoney == [ wallet |-> 0, trips |-> 0 ]
NoUpdate == [ status |-> "unnamed", driver |-> FALSE ]
IdleCallback == [ pc |-> "idle", version |-> NoMoney ]

IdleCall ==
  [ pc |-> "idle", update |-> NoUpdate, adjusts |-> FALSE, transaction |-> FALSE, stats |-> NoMoney ]

Init ==
  /\ scenario \in Scenarios
  /\ sql = NoMoney
  /\ doc = NoMoney
  /\ mirrors = EmptyBag
  /\ inbox = << >>
  /\ listener = IdleCallback
  /\ job = IdleCallback
  /\ calls = [ c \in Calls |-> IdleCall ]
  /\ ride = IF scenario.accepted
              THEN [ status |-> "accepted", driver |-> TRUE, row |-> "PENDING" ]
              ELSE [ status |-> "absent", driver |-> FALSE, row |-> "absent" ]
  /\ entries = 0
  /\ inputs = 0 /\ faults = 0
  /\ history = [ completions |-> 0, paid |-> 0, trips |-> 0, mirrored |-> ~ scenario.accepted ]

(***************************************************************************)
(* Helpers                                                                 *)
(***************************************************************************)
InProgress(c) == calls[c].pc # "idle" \/ calls[c].transaction

\* Everything written has been carried to the other side.
Carried == mirrors = EmptyBag /\ inbox = << >> /\ listener.pc = "idle"

Quiet == Carried /\ job.pc = "idle" /\ \A c \in Calls : ~ InProgress(c)

\* The settlement's transaction holds the locks of user and profile.
Locked == \E c \in Calls : calls[c].transaction

At(c, pc) == calls[c].pc = pc
Go(c, pc) == calls' = [ calls EXCEPT ![c].pc = pc ]
End(c) == calls' = [ calls EXCEPT ![c] = IdleCall ]

\* A write of the document is a version for the listener: each sets a time of its own.
PutDoc(value) ==
  /\ doc' = value
  /\ inbox' = Append(inbox, value)

\* A statement on the user's row, and one on the profile's, which schedules a mirror.
AddToWallet(n) == ~ Locked /\ sql' = [ sql EXCEPT !.wallet = @ + n ]

\* Mutant: the write is not mirrored.
WriteProfileUnmirrored(trips) ==
  ~ Locked /\ sql' = [ sql EXCEPT !.trips = trips ] /\ UNCHANGED mirrors

WriteProfile(trips) ==
  /\ ~ Locked
  /\ sql' = [ sql EXCEPT !.trips = trips ]
  /\ mirrors' = mirrors (+) SetToBag({ trips })

\* A request, or a callback of the orders listener, begins.
Input(c, operation, start) ==
  /\ operation \in scenario.operations
  /\ inputs < scenario.inputs
  /\ ~ InProgress(c)
  /\ scenario.pace = "serial" => \A d \in Calls : ~ InProgress(d)
  /\ scenario.pace = "quiet" => Quiet
  /\ inputs' = inputs + 1
  /\ calls' = [ calls EXCEPT ![c] = start ]
  /\ UNCHANGED << scenario, listener, job, faults >>

(***************************************************************************)
(* TransportService                                                        *)
(***************************************************************************)

\* createRideGateway: the document, with a driver if the request names one, and then its
\* row.
CreateRide(c) ==
  /\ ride.status = "absent"
  /\ Input(c, "ride", [ IdleCall EXCEPT !.pc = "create" ])
  /\ \E driver \in BOOLEAN : ride' = [ ride EXCEPT !.status = "pending", !.driver = driver ]
  /\ UNCHANGED << accounts, entries, history >>

CreateRow(c) ==
  /\ At(c, "create")
  /\ ride' = [ ride EXCEPT !.row = "PENDING" ]
  /\ End(c)
  /\ UNCHANGED << scenario, accounts, listener, job, entries, inputs, faults, history >>

UpdateRide(c, u) ==
  /\ u \in scenario.updates
  /\ ride.status # "absent"
  /\ Input(c, "ride", [ IdleCall EXCEPT !.pc = "read", !.update = u ])
  /\ history' = [ history EXCEPT !.mirrored = u.status # "unnamed" /\ ~ u.driver ]
  /\ UNCHANGED << accounts, ride, entries >>

\* The ride pays when it has a driver and its document does not say completed yet.
\* Mutant: whatever its document says.
PaysAlways(u) == u.status = "completed" /\ ride.driver

Pays(u) == u.status = "completed" /\ ride.driver /\ ride.status # "completed"

ReadRide(c) ==
  /\ At(c, "read")
  /\ Go(c, IF Pays(calls[c].update) THEN "credit" ELSE "row")
  /\ UNCHANGED << scenario, accounts, listener, job, ride, entries, inputs, faults, history >>

\* Mutant: the wallet of the document is forgotten.
CreditDocTrips(c) ==
  /\ At(c, "credit")
  /\ PutDoc([ doc EXCEPT !.trips = @ + 1 ])
  /\ Go(c, "entry")
  /\ UNCHANGED << scenario, sql, mirrors, listener, job, ride, entries, inputs, faults, history >>

CreditDoc(c) ==
  /\ At(c, "credit")
  /\ PutDoc([ wallet |-> doc.wallet + 1, trips |-> doc.trips + 1 ])
  /\ Go(c, "entry")
  /\ UNCHANGED << scenario, sql, mirrors, listener, job, ride, entries, inputs, faults, history >>

AddEntry(c) ==
  /\ At(c, "entry")
  /\ entries' = entries + 1
  /\ Go(c, "wallet")
  /\ UNCHANGED << scenario, accounts, listener, job, ride, inputs, faults, history >>

CreditUser(c) ==
  /\ At(c, "wallet")
  /\ AddToWallet(1)
  /\ Go(c, "trips")
  /\ UNCHANGED << scenario, doc, mirrors, inbox, listener, job, ride, entries, inputs, faults, history >>

\* Mutant: the trips of the row are forgotten.
CreditProfileEarnings(c) ==
  /\ At(c, "trips")
  /\ WriteProfile(sql.trips)
  /\ Go(c, "row")
  /\ UNCHANGED << scenario, doc, inbox, listener, job, ride, entries, inputs, faults, history >>

CreditProfile(c) ==
  /\ At(c, "trips")
  /\ WriteProfile(sql.trips + 1)
  /\ Go(c, "row")
  /\ UNCHANGED << scenario, doc, inbox, listener, job, ride, entries, inputs, faults, history >>

\* What the row says for the status of an update; for one that names none, too.
\* Mutant: the row gets the status of the apps.
RowStatusAsIs(s) == s

RowStatus(s) ==
  CASE s = "pending" -> "PENDING"
    [] s = "accepted" -> "ACCEPTED"
    [] s = "arrived" -> "ARRIVING"
    [] s \in { "started", "arrivedAtDestination" } -> "STARTED"
    [] s = "completed" -> "COMPLETED"
    [] OTHER -> "CANCELLED"

\* An update that names a driver gives the row the id of an account where it refers to a
\* profile: the statement fails, which is logged.
\* Mutant: a final row is not written any more.
WriteRowUntilFinal(c) ==
  /\ At(c, "row")
  /\ LET u == calls[c].update IN
       ride' = IF u.driver \/ ride.row \in { "absent", "COMPLETED", "CANCELLED" } THEN ride
               ELSE [ ride EXCEPT !.row = RowStatus(u.status) ]
  /\ Go(c, "doc")
  /\ UNCHANGED << scenario, accounts, listener, job, entries, inputs, faults, history >>

WriteRow(c) ==
  /\ At(c, "row")
  /\ LET u == calls[c].update IN
       ride' = IF u.driver \/ ride.row = "absent" THEN ride
               ELSE [ ride EXCEPT !.row = RowStatus(u.status) ]
  /\ Go(c, "doc")
  /\ UNCHANGED << scenario, accounts, listener, job, entries, inputs, faults, history >>

\* History: the ride becomes completed, with a driver who is to be paid.
Completes(u) == u.status = "completed" /\ ride.driver /\ ride.status # "completed"

WriteRide(c) ==
  /\ At(c, "doc")
  /\ LET u == calls[c].update IN
       /\ ride' = [ ride EXCEPT !.status = IF u.status = "unnamed" THEN @ ELSE u.status,
                                !.driver = @ \/ u.driver ]
       /\ history' = IF Completes(u)
                       THEN [ history EXCEPT !.completions = @ + 1, !.trips = @ + 1 ]
                       ELSE history
  /\ End(c)
  /\ UNCHANGED << scenario, accounts, listener, job, entries, inputs, faults >>

\* updateStatus writes the row alone.
PatchRide(c, s) ==
  /\ ride.row # "absent"
  /\ Input(c, "patch", IdleCall)
  /\ ride' = [ ride EXCEPT !.row = s ]
  /\ history' = [ history EXCEPT !.mirrored = FALSE ]
  /\ UNCHANGED << accounts, entries >>

(***************************************************************************)
(* Payments in PostgreSQL, and their copy in the document                  *)
(***************************************************************************)

\* adjustWalletBalanceManually: one transaction; the copy is of the wallet alone.
AdjustWallet(c, n) ==
  /\ AddToWallet(n)
  /\ Input(c, "adjust", [ IdleCall EXCEPT !.pc = "statsRead", !.adjusts = TRUE ])
  /\ history' = [ history EXCEPT !.paid = @ + n ]
  /\ UNCHANGED << doc, mirrors, inbox, ride, entries >>

\* handleDelivered of an order paid online: the share, then the trip, then the copy.
HandleDelivered(c) ==
  /\ AddToWallet(1)
  /\ Input(c, "delivered", [ IdleCall EXCEPT !.pc = "earn" ])
  /\ history' = [ history EXCEPT !.paid = @ + 1, !.trips = @ + 1 ]
  /\ UNCHANGED << doc, mirrors, inbox, ride, entries >>

EarnTrip(c) ==
  /\ At(c, "earn")
  /\ WriteProfile(sql.trips + 1)
  /\ Go(c, "statsRead")
  /\ UNCHANGED << scenario, doc, inbox, listener, job, ride, entries, inputs, faults, history >>

\* handleOrderDeliveredInternal: the copy is scheduled before the transaction ends.  The
\* callback it runs in keeps the extension from mirroring.
SettleOrder(c) ==
  /\ ~ Locked
  /\ Input(c, "settled", [ IdleCall EXCEPT !.pc = "statsRead", !.transaction = TRUE ])
  /\ UNCHANGED << accounts, ride, entries, history >>

Commit(c) ==
  /\ calls[c].transaction
  /\ sql' = [ wallet |-> sql.wallet + 1, trips |-> sql.trips + 1 ]
  /\ calls' = [ calls EXCEPT ![c].transaction = FALSE ]
  /\ history' = [ history EXCEPT !.paid = @ + 1, !.trips = @ + 1 ]
  /\ UNCHANGED << scenario, doc, mirrors, inbox, listener, job, ride, entries, inputs, faults >>

\* DriversService.updateProfile with a wallet balance, which is n more than the wallet.
SetWallet(c, n) ==
  /\ AddToWallet(n)
  /\ \E pc \in { "fields", "statsRead" } : Input(c, "setwallet", [ IdleCall EXCEPT !.pc = pc ])
  /\ history' = [ history EXCEPT !.paid = @ + n ]
  /\ UNCHANGED << doc, mirrors, inbox, ride, entries >>

\* It writes the profile if the request names other fields too.
SetFields(c) ==
  /\ At(c, "fields")
  /\ WriteProfile(sql.trips)
  /\ Go(c, "statsRead")
  /\ UNCHANGED << scenario, doc, inbox, listener, job, ride, entries, inputs, faults, history >>

\* Without a balance it writes the profile and copies.
UpdateProfile(c) ==
  /\ WriteProfile(sql.trips)
  /\ Input(c, "profile", [ IdleCall EXCEPT !.pc = "statsRead" ])
  /\ UNCHANGED << doc, inbox, ride, entries, history >>

\* updateLocation and toggleAvailability write the profile, and then fields of the document
\* that are not kept here.
Ping(c) ==
  /\ WriteProfile(sql.trips)
  /\ Input(c, "ping", [ IdleCall EXCEPT !.pc = "ping" ])
  /\ UNCHANGED << doc, inbox, ride, entries, history >>

PingDoc(c) ==
  /\ At(c, "ping")
  /\ PutDoc(doc)
  /\ End(c)
  /\ UNCHANGED << scenario, sql, mirrors, listener, job, ride, entries, inputs, faults, history >>

\* The copy reads both rows and writes what it read.
ReadStats(c) ==
  /\ At(c, "statsRead")
  /\ calls' = [ calls EXCEPT ![c].pc = "statsWrite", ![c].stats = sql ]
  /\ UNCHANGED << scenario, accounts, listener, job, ride, entries, inputs, faults, history >>

WriteStats(c) ==
  /\ At(c, "statsWrite")
  /\ PutDoc(IF calls[c].adjusts THEN [ doc EXCEPT !.wallet = calls[c].stats.wallet ]
            ELSE calls[c].stats)
  /\ calls' = [ calls EXCEPT ![c] = [ IdleCall EXCEPT !.transaction = calls[c].transaction ] ]
  /\ UNCHANGED << scenario, sql, mirrors, listener, job, ride, entries, inputs, faults, history >>

(***************************************************************************)
(* The mirror, the listener and the job                                    *)
(***************************************************************************)
MirrorTrips(trips) ==
  /\ trips \in BagToSet(mirrors)
  /\ mirrors' = mirrors (-) SetToBag({ trips })
  /\ PutDoc([ doc EXCEPT !.trips = trips ])
  /\ UNCHANGED << scenario, sql, listener, job, calls, ride, entries, inputs, faults, history >>

\* syncDriver writes the user, and then the profile.
\* Mutant: a wallet of zero counts as one that is not there.
WalletFromNonzero(version) ==
  ~ Locked /\ sql' = [ sql EXCEPT !.wallet = IF version.wallet = 0 THEN @ ELSE version.wallet ]

WalletFrom(version) == ~ Locked /\ sql' = [ sql EXCEPT !.wallet = version.wallet ]

\* A callback does not mirror what it writes.
\* Mutant: the callback does mirror it.
TripsFromMirrored(version) == WriteProfile(version.trips)

TripsFrom(version) ==
  /\ ~ Locked
  /\ sql' = [ sql EXCEPT !.trips = version.trips ]
  /\ UNCHANGED mirrors

SyncDriverUser ==
  /\ listener.pc = "idle"
  /\ inbox # << >>
  /\ WalletFrom(Head(inbox))
  /\ listener' = [ pc |-> "profile", version |-> Head(inbox) ]
  /\ inbox' = Tail(inbox)
  /\ UNCHANGED << scenario, doc, mirrors, job, calls, ride, entries, inputs, faults, history >>

SyncDriverProfile ==
  /\ listener.pc = "profile"
  /\ TripsFrom(listener.version)
  /\ listener' = IdleCallback
  /\ UNCHANGED << scenario, doc, inbox, job, calls, ride, entries, inputs, faults, history >>

\* initialSyncDrivers is no callback: what it writes to the profile is mirrored.  It runs
\* every twelve hours, by when everything has been carried.
JobRead ==
  /\ "jobs" \in scenario.operations
  /\ Carried
  /\ job.pc = "idle"
  /\ job' = [ pc |-> "user", version |-> doc ]
  /\ UNCHANGED << scenario, accounts, listener, calls, ride, entries, inputs, faults, history >>

JobUser ==
  /\ job.pc = "user"
  /\ WalletFrom(job.version)
  /\ job' = [ job EXCEPT !.pc = "profile" ]
  /\ UNCHANGED << scenario, doc, mirrors, inbox, listener, calls, ride, entries, inputs, faults, history >>

JobProfile ==
  /\ job.pc = "profile"
  /\ WriteProfile(job.version.trips)
  /\ job' = IdleCallback
  /\ UNCHANGED << scenario, doc, inbox, listener, calls, ride, entries, inputs, faults, history >>

(***************************************************************************)
(* Faults                                                                  *)
(***************************************************************************)
Fault ==
  /\ faults < scenario.faults
  /\ faults' = faults + 1
  /\ UNCHANGED << scenario, ride, entries, inputs, history >>

\* A failure of the payment's statements in PostgreSQL, or of the row, is logged and the
\* update goes on; any other failure ends the call.
StepFails(c) ==
  /\ At(c, "create") \/ At(c, "credit") \/ At(c, "entry") \/ At(c, "doc") \/ At(c, "earn")
     \/ At(c, "fields") \/ At(c, "statsWrite")
  /\ calls' = [ calls EXCEPT ![c] = [ IdleCall EXCEPT !.transaction = calls[c].transaction ] ]
  /\ Fault
  /\ UNCHANGED << accounts, listener, job >>

StepLogged(c) ==
  /\ \/ (At(c, "wallet") \/ At(c, "trips")) /\ Go(c, "row")
     \/ At(c, "row") /\ Go(c, "doc")
  /\ Fault
  /\ UNCHANGED << accounts, listener, job >>

MirrorLost(trips) ==
  /\ trips \in BagToSet(mirrors)
  /\ mirrors' = mirrors (-) SetToBag({ trips })
  /\ Fault
  /\ UNCHANGED << sql, doc, inbox, listener, job, calls >>

\* The process starts again: what was on its way is gone, and the listener skips the
\* snapshot it begins with.
Restart ==
  /\ mirrors' = EmptyBag
  /\ inbox' = << >>
  /\ listener' = IdleCallback
  /\ job' = IdleCallback
  /\ calls' = [ c \in Calls |-> IdleCall ]
  /\ Fault
  /\ UNCHANGED << sql, doc >>

(***************************************************************************)
(* Specification                                                           *)
(***************************************************************************)
Begin(c) ==
  \/ CreateRide(c)
  \/ \E u \in Updates : UpdateRide(c, u)
  \/ \E s \in RowStatuses : PatchRide(c, s)
  \/ \E n \in { 1, -1 } : AdjustWallet(c, n)
  \/ HandleDelivered(c)
  \/ SettleOrder(c)
  \/ \E n \in { 1, -1 } : SetWallet(c, n)
  \/ UpdateProfile(c)
  \/ Ping(c)

GoOn(c) ==
  \/ CreateRow(c) \/ ReadRide(c) \/ CreditDoc(c) \/ AddEntry(c) \/ CreditUser(c)
  \/ CreditProfile(c) \/ WriteRow(c) \/ WriteRide(c) \/ EarnTrip(c) \/ SetFields(c)
  \/ PingDoc(c) \/ ReadStats(c) \/ WriteStats(c)

Mirrored == \E trips \in BagToSet(mirrors) : MirrorTrips(trips)

SyncDriver == SyncDriverUser \/ SyncDriverProfile

Job == JobRead \/ JobUser \/ JobProfile

Faults ==
  \/ \E c \in Calls : StepFails(c) \/ StepLogged(c)
  \/ \E trips \in BagToSet(mirrors) : MirrorLost(trips)
  \/ Restart

Next ==
  \/ \E c \in Calls : Begin(c) \/ GoOn(c) \/ Commit(c)
  \/ Mirrored
  \/ SyncDriver
  \/ Job
  \/ Faults

\* What has begun goes on, versions are delivered, and the job runs again and again.
\* Nothing makes requests arrive or faults happen.
Fairness ==
  /\ \A c \in Calls : WF_vars(GoOn(c)) /\ WF_vars(Commit(c))
  /\ WF_vars(Mirrored)
  /\ WF_vars(SyncDriver)
  /\ WF_vars(Job)

Spec == Init /\ [][Next]_vars /\ Fairness

(***************************************************************************)
(* Properties                                                              *)
(***************************************************************************)

\* However payments, copies, mirrors and callbacks interleave, once nothing is on its way
\* and nothing failed, the rows say what the document says: every write of a row is
\* followed by a version of the document, which overwrites it.
WalletsAgree == Quiet /\ faults = 0 => sql = doc

\* A ride that becomes completed, or an adjustment, made when everything was quiet arrives
\* once, although the ride pays into document and row and the listener carries the document
\* into the row between the two.  A settlement of an order makes no such promise, nor does
\* a profile with a balance and other fields: the mirror of its trips carries the old
\* wallet back; and a settlement's copy may precede its commit.
\* Nor does an adjustment while the job runs, which may carry the old wallet back too.
CreditsArrive ==
  /\ scenario.pace = "quiet" /\ faults = 0 /\ Quiet
  /\ scenario.operations \cap { "delivered", "settled", "setwallet", "jobs" } = {}
  => doc.wallet = history.completions + history.paid

\* Inputs that do not disturb each other lose no trip: the document counts every ride and
\* every order that handleDelivered settles.  A ride may count twice.
TripsCounted ==
  scenario.pace = "quiet" /\ faults = 0 /\ Quiet /\ scenario.operations \cap { "settled", "jobs" } = {}
  => doc.trips >= history.trips

\* Updates of a ride that do not overlap, whatever their order, make one entry each time the
\* ride becomes completed: an update that repeats completed does not pay, and one after a
\* cancellation does.
RidesPayOnce ==
  /\ scenario.pace # "overlapping" /\ faults = 0
  /\ \A c \in Calls : ~ InProgress(c)
  => entries = history.completions

\* Between updates that do not overlap, the row of a ride says what its document says, when
\* the last update named a status and no driver; whatever the updates before it left behind.
RowFollowsRide ==
  /\ scenario.pace # "overlapping" /\ faults = 0 /\ history.mirrored
  /\ ride.status # "absent"
  /\ \A c \in Calls : ~ InProgress(c)
  => ride.row = RowStatus(ride.status)

\* Mirror and listener do not answer each other for ever, and no call waits for ever for the
\* locks of a settlement: again and again, everything is quiet.
EventuallyQuiet == []<>Quiet

\* After a failed statement, a lost mirror or a restart the job makes both sides agree in
\* the end; without faults they do so by themselves.
EventuallyAgree ==
  scenario.faults = 0 \/ "jobs" \in scenario.operations => <>[](sql = doc)

\* Rows and document are wallets, and in quiet the same one.
MirrorInv == TypeOK /\ WalletsAgree

\* Payments that do not disturb each other arrive, with their trips.
PaymentsArrive == CreditsArrive /\ TripsCounted

\* The two sides come to rest again and again, and agree in the end.
EventuallyAtRest == EventuallyQuiet /\ EventuallyAgree
=============================================================================

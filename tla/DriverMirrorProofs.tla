-------------------------- MODULE DriverMirrorProofs --------------------------
(***************************************************************************)
(* Theorems about DriverMirror, for any scenarios: any number of calls in  *)
(* progress, of updates of the ride, of inputs and of faults.              *)
(***************************************************************************)
EXTENDS DriverMirror, DataTheorems, TLAPS

(***************************************************************************)
(* Bags                                                                    *)
(***************************************************************************)

LEMMA BagWith ==
  ASSUME NEW B, NEW t
  PROVE  B (+) SetToBag({ t }) # EmptyBag /\ BagToSet(B (+) SetToBag({ t })) = BagToSet(B) \cup { t }
BY DEF (+), SetToBag, EmptyBag, BagToSet

LEMMA BagWithout == ASSUME NEW B, NEW t PROVE BagToSet(B (-) SetToBag({ t })) \subseteq BagToSet(B)
BY DEF (-), SetToBag, BagToSet

LEMMA BagEmpty == BagToSet(EmptyBag) = {}
BY DEF EmptyBag, SetToBag, BagToSet

(***************************************************************************)
(* The type of the state                                                   *)
(***************************************************************************)

LEMMA ScenarioType ==
  ASSUME scenario \in Scenarios
  PROVE  scenario.inputs \in Nat /\ scenario.faults \in Nat /\ scenario.accepted \in BOOLEAN
BY DriverMirrorAssumption

LEMMA IdleType == NoMoney \in Accounts /\ IdleCall \in CallStates /\ IdleCallback \in Callbacks
<1>1. NoMoney \in Accounts
  BY DEF NoMoney, Accounts
<1>2. NoUpdate \in Updates
  BY DEF NoUpdate, Updates
<1> QED
  BY <1>1, <1>2 DEF IdleCall, CallStates, IdleCallback, Callbacks

LEMMA TypeInit == Init => TypeOK
<1> SUFFICES ASSUME Init PROVE TypeOK
  OBVIOUS
<1>1. scenario.inputs \in Nat /\ scenario.faults \in Nat /\ scenario.accepted \in BOOLEAN
  BY ScenarioType DEF Init
<1>2. /\ sql \in Accounts /\ doc \in Accounts /\ inbox \in Seq(Accounts)
      /\ listener \in Callbacks /\ job \in Callbacks /\ calls \in [ Calls -> CallStates ]
  BY IdleType DEF Init
<1>3. BagToSet(mirrors) \subseteq Nat
  BY BagEmpty DEF Init
<1>4. ride \in [ status : Statuses \cup { "absent" }, driver : BOOLEAN, row : RowStatuses \cup { "absent" } ]
  BY DEF Init, Statuses, RowStatuses
<1>5. history \in [ completions : Nat, paid : Int, trips : Nat, mirrored : BOOLEAN ]
  BY <1>1 DEF Init
<1> QED
  BY <1>1, <1>2, <1>3, <1>4, <1>5 DEF Init, TypeOK

LEMMA RowStatusType == \A s : RowStatus(s) \in RowStatuses
BY DEF RowStatus, RowStatuses

\* What the actions do with the accounts.
LEMMA PutDocType ==
  ASSUME TypeOK, NEW value \in Accounts, PutDoc(value)
  PROVE  doc' \in Accounts /\ inbox' \in Seq(Accounts)
BY DEF TypeOK, PutDoc

LEMMA WriteProfileType ==
  ASSUME TypeOK, NEW trips \in Nat, WriteProfile(trips)
  PROVE  sql' \in Accounts /\ BagToSet(mirrors') \subseteq Nat /\ mirrors' # EmptyBag
<1>1. sql' \in Accounts
  BY DEF TypeOK, WriteProfile, Accounts
<1>2. mirrors' = mirrors (+) SetToBag({ trips }) /\ BagToSet(mirrors) \subseteq Nat
  BY DEF TypeOK, WriteProfile
<1>3. mirrors' # EmptyBag /\ BagToSet(mirrors') = BagToSet(mirrors) \cup { trips }
  BY <1>2, BagWith
<1> QED
  BY <1>1, <1>2, <1>3

LEMMA AddToWalletType ==
  ASSUME TypeOK, NEW n \in Int, AddToWallet(n)
  PROVE  sql' \in Accounts
<1>1. sql \in Accounts /\ sql.wallet + n \in Int /\ sql' = [ sql EXCEPT !.wallet = sql.wallet + n ]
  BY DEF TypeOK, AddToWallet, Accounts
<1>2. \A w \in Int : [ sql EXCEPT !.wallet = w ] \in Accounts
  BY <1>1 DEF Accounts
<1> QED
  BY <1>1, <1>2

HistorySet == [ completions : Nat, paid : Int, trips : Nat, mirrored : BOOLEAN ]

LEMMA HistoryType ==
  ASSUME TypeOK
  PROVE  /\ [ history EXCEPT !.paid = @ + 1, !.trips = @ + 1 ] \in HistorySet
         /\ [ history EXCEPT !.completions = @ + 1, !.trips = @ + 1 ] \in HistorySet
<1>1. history \in HistorySet /\ history.paid + 1 \in Int /\ history.trips + 1 \in Nat /\ history.completions + 1 \in Nat
  BY DEF TypeOK, HistorySet
<1>2. \A p \in Int, t \in Nat : [ history EXCEPT !.paid = p, !.trips = t ] \in HistorySet
  BY <1>1 DEF HistorySet
<1>3. \A n \in Nat, t \in Nat : [ history EXCEPT !.completions = n, !.trips = t ] \in HistorySet
  BY <1>1 DEF HistorySet
<1> QED
  BY <1>1, <1>2, <1>3

\* An input starts a call.
Starts == [ pc : { "idle", "create", "read", "earn", "fields", "statsRead", "ping" }, update : Updates,
            adjusts : BOOLEAN, transaction : BOOLEAN, stats : { NoMoney } ]

LEMMA InputType ==
  ASSUME TypeOK, NEW c \in Calls, NEW operation, NEW start \in Starts, Input(c, operation, start)
  PROVE  /\ scenario' \in Scenarios /\ listener' \in Callbacks /\ job' \in Callbacks
         /\ calls' \in [ Calls -> CallStates ]
         /\ inputs' \in 0 .. scenario'.inputs /\ faults' \in 0 .. scenario'.faults
<1>1. start \in CallStates
  BY IdleType DEF Starts, CallStates
<1>2. calls' \in [ Calls -> CallStates ]
  BY <1>1 DEF TypeOK, Input
<1>3. inputs' \in 0 .. scenario'.inputs /\ faults' \in 0 .. scenario'.faults
  BY ScenarioType DEF TypeOK, Input
<1> QED
  BY <1>2, <1>3 DEF TypeOK, Input

LEMMA BeginType == ASSUME TypeOK, NEW c \in Calls, Begin(c) PROVE TypeOK'
<1>0. /\ IdleCall \in Starts
      /\ \A pc \in { "create", "earn", "fields", "ping", "statsRead" } : [ IdleCall EXCEPT !.pc = pc ] \in Starts
      /\ [ IdleCall EXCEPT !.pc = "statsRead", !.adjusts = TRUE ] \in Starts
      /\ [ IdleCall EXCEPT !.pc = "statsRead", !.transaction = TRUE ] \in Starts
  <2>1. IdleCall \in Starts
    BY DEF Starts, IdleCall, NoUpdate, Updates
  <2> QED
    BY <2>1 DEF Starts
<1>01. \A u \in Updates : [ IdleCall EXCEPT !.pc = "read", !.update = u ] \in Starts
  BY DEF Starts, IdleCall, NoUpdate, Updates
<1>1. CASE CreateRide(c)
  BY <1>0, <1>1, InputType DEF CreateRide, TypeOK, accounts, Statuses
<1>2. CASE \E u \in Updates : UpdateRide(c, u)
  <2>1. PICK u \in Updates : UpdateRide(c, u)
    BY <1>2
  <2> QED
    BY <1>01, <2>1, InputType DEF UpdateRide, TypeOK, accounts
<1>3. CASE \E s \in RowStatuses : PatchRide(c, s)
  BY <1>0, <1>3, InputType DEF PatchRide, TypeOK, accounts
<1>4. CASE \E n \in { 1, -1 } : AdjustWallet(c, n)
  <2>1. PICK n \in { 1, -1 } : AdjustWallet(c, n)
    BY <1>4
  <2>2. sql' \in Accounts
    BY <2>1, AddToWalletType DEF AdjustWallet
  <2>3. history' \in [ completions : Nat, paid : Int, trips : Nat, mirrored : BOOLEAN ]
    BY <2>1 DEF AdjustWallet, TypeOK
  <2> QED
    BY <1>0, <2>1, <2>2, <2>3, InputType DEF AdjustWallet, TypeOK
<1>5. CASE HandleDelivered(c)
  <2>1. sql' \in Accounts
    BY <1>5, AddToWalletType DEF HandleDelivered
  <2>2. history' \in [ completions : Nat, paid : Int, trips : Nat, mirrored : BOOLEAN ]
    BY <1>5, HistoryType DEF HandleDelivered, HistorySet
  <2> QED
    BY <1>0, <1>5, <2>1, <2>2, InputType DEF HandleDelivered, TypeOK
<1>6. CASE SettleOrder(c)
  BY <1>0, <1>6, InputType DEF SettleOrder, TypeOK, accounts
<1>7. CASE UpdateProfile(c) \/ Ping(c)
  <2>1. sql.trips \in Nat
    BY DEF TypeOK, Accounts
  <2> QED
    BY <1>0, <1>7, <2>1, InputType, WriteProfileType DEF UpdateProfile, Ping, TypeOK
<1>8. CASE \E n \in { 1, -1 } : SetWallet(c, n)
  <2>1. PICK n \in { 1, -1 } : SetWallet(c, n)
    BY <1>8
  <2>2. PICK pc \in { "fields", "statsRead" } : Input(c, "setwallet", [ IdleCall EXCEPT !.pc = pc ])
    BY <2>1 DEF SetWallet
  <2>3. sql' \in Accounts
    BY <2>1, AddToWalletType DEF SetWallet
  <2>4. history' \in [ completions : Nat, paid : Int, trips : Nat, mirrored : BOOLEAN ]
    BY <2>1 DEF SetWallet, TypeOK
  <2> QED
    BY <1>0, <2>1, <2>2, <2>3, <2>4, InputType DEF SetWallet, TypeOK
<1> QED
  BY <1>1, <1>2, <1>3, <1>4, <1>5, <1>6, <1>7, <1>8 DEF Begin

LEMMA GoOnType == ASSUME TypeOK, NEW c \in Calls, GoOn(c) PROVE TypeOK'
<1>0. /\ sql.trips \in Nat /\ sql.wallet \in Int /\ doc.trips \in Nat /\ doc.wallet \in Int
      /\ calls[c].update \in Updates /\ calls[c].stats \in Accounts
  BY DEF TypeOK, Accounts, CallStates
<1>1. doc' \in Accounts /\ inbox' \in Seq(Accounts)
  <2>1. /\ [ wallet |-> doc.wallet + 1, trips |-> doc.trips + 1 ] \in Accounts
        /\ doc \in Accounts
        /\ [ doc EXCEPT !.wallet = calls[c].stats.wallet ] \in Accounts
    <3>1. doc \in [ wallet : Int, trips : Nat ] /\ calls[c].stats.wallet \in Int
      BY <1>0 DEF TypeOK, Accounts
    <3> QED
      BY <1>0, <3>1 DEF Accounts
  <2>2. (UNCHANGED doc /\ UNCHANGED inbox) \/ \E value \in Accounts : PutDoc(value)
    BY <1>0, <2>1 DEF GoOn, CreateRow, ReadRide, CreditDoc, AddEntry, CreditUser, CreditProfile, WriteRow,
                      WriteRide, EarnTrip, SetFields, PingDoc, ReadStats, WriteStats, accounts
  <2> QED
    BY <2>2, PutDocType DEF TypeOK
<1>2. sql' \in Accounts /\ BagToSet(mirrors') \subseteq Nat
  <2>1. CASE CreditUser(c)
    BY <2>1, AddToWalletType DEF CreditUser, TypeOK
  <2>2. CASE CreditProfile(c) \/ EarnTrip(c) \/ SetFields(c)
    BY <1>0, <2>2, WriteProfileType DEF CreditProfile, EarnTrip, SetFields
  <2>3. CASE UNCHANGED << sql, mirrors >>
    BY <2>3 DEF TypeOK
  <2> QED
    BY <2>1, <2>2, <2>3
       DEF GoOn, CreateRow, ReadRide, CreditDoc, AddEntry, WriteRow, WriteRide, PingDoc, ReadStats, WriteStats,
           accounts
<1>3. calls' \in [ Calls -> CallStates ]
  <2>1. \A pc \in { "credit", "row", "entry", "wallet", "trips", "doc", "statsRead" } :
          Go(c, pc) => calls' \in [ Calls -> CallStates ]
    BY DEF Go, TypeOK, CallStates
  <2>2. End(c) => calls' \in [ Calls -> CallStates ]
    BY IdleType DEF End, TypeOK
  <2>3. ASSUME ReadStats(c) PROVE calls' \in [ Calls -> CallStates ]
    <3>1. [ calls[c] EXCEPT !.pc = "statsWrite", !.stats = sql ] \in CallStates
      BY DEF TypeOK, CallStates
    <3>2. calls' = [ calls EXCEPT ![c] = [ calls[c] EXCEPT !.pc = "statsWrite", !.stats = sql ] ]
      BY <2>3 DEF ReadStats, TypeOK, CallStates
    <3> QED
      BY <3>1, <3>2 DEF TypeOK
  <2>4. ASSUME WriteStats(c) PROVE calls' \in [ Calls -> CallStates ]
    <3>1. [ IdleCall EXCEPT !.transaction = calls[c].transaction ] \in CallStates
      BY IdleType DEF TypeOK, CallStates
    <3> QED
      BY <2>4, <3>1 DEF WriteStats, TypeOK
  <2> QED
    BY <2>1, <2>2, <2>3, <2>4
       DEF GoOn, CreateRow, ReadRide, CreditDoc, AddEntry, CreditUser, CreditProfile, WriteRow, WriteRide,
           EarnTrip, SetFields, PingDoc
<1>4. /\ ride' \in [ status : Statuses \cup { "absent" }, driver : BOOLEAN, row : RowStatuses \cup { "absent" } ]
      /\ history' \in [ completions : Nat, paid : Int, trips : Nat, mirrored : BOOLEAN ]
  <2>1. CASE CreateRow(c)
    BY <2>1 DEF CreateRow, TypeOK, RowStatuses
  <2>2. CASE WriteRow(c)
    BY <2>2, RowStatusType DEF WriteRow, TypeOK
  <2>3. CASE WriteRide(c)
    <3>1. /\ calls[c].update.status \in Statuses \cup { "unnamed" } /\ calls[c].update.driver \in BOOLEAN
          /\ ride.driver \in BOOLEAN
      BY <1>0 DEF Updates, TypeOK
    <3>2. ride' \in [ status : Statuses \cup { "absent" }, driver : BOOLEAN, row : RowStatuses \cup { "absent" } ]
      BY <2>3, <3>1 DEF WriteRide, TypeOK
    <3>3. history' \in HistorySet
      BY <2>3, HistoryType DEF WriteRide, TypeOK, HistorySet
    <3> QED
      BY <3>2, <3>3 DEF HistorySet
  <2>4. CASE UNCHANGED << ride, history >>
    BY <2>4 DEF TypeOK
  <2> QED
    BY <2>1, <2>2, <2>3, <2>4
       DEF GoOn, ReadRide, CreditDoc, AddEntry, CreditUser, CreditProfile, EarnTrip, SetFields, PingDoc, ReadStats,
           WriteStats
<1>5. /\ UNCHANGED << scenario, listener, job, inputs, faults >> /\ entries' \in Nat
  BY DEF GoOn, CreateRow, ReadRide, CreditDoc, AddEntry, CreditUser, CreditProfile, WriteRow, WriteRide,
         EarnTrip, SetFields, PingDoc, ReadStats, WriteStats, TypeOK
<1> QED
  BY <1>1, <1>2, <1>3, <1>4, <1>5 DEF TypeOK

\* The steps that are of no one call: a mirror, the listener, the job, and the end of the
\* settlement's transaction.
Carries == (\E c \in Calls : Commit(c)) \/ Mirrored \/ SyncDriver \/ Job

LEMMA CarriesType == ASSUME TypeOK, Carries PROVE TypeOK'
<1>1. ASSUME NEW c \in Calls, Commit(c) PROVE TypeOK'
  <2>0. [ calls[c] EXCEPT !.transaction = FALSE ] \in CallStates
    BY DEF TypeOK, CallStates
  <2>1. sql' \in Accounts /\ calls' \in [ Calls -> CallStates ]
    BY <1>1, <2>0 DEF Commit, TypeOK, Accounts
  <2>2. history' \in [ completions : Nat, paid : Int, trips : Nat, mirrored : BOOLEAN ]
    BY <1>1, HistoryType DEF Commit, HistorySet
  <2> QED
    BY <1>1, <2>1, <2>2 DEF Commit, TypeOK
<1>2. ASSUME NEW trips \in BagToSet(mirrors), MirrorTrips(trips) PROVE TypeOK'
  <2>1. trips \in Nat /\ BagToSet(mirrors') \subseteq Nat
    BY <1>2, BagWithout DEF MirrorTrips, TypeOK
  <2>2. [ doc EXCEPT !.trips = trips ] \in Accounts
    BY <2>1 DEF TypeOK, Accounts
  <2> QED
    BY <1>2, <2>1, <2>2, PutDocType DEF MirrorTrips, TypeOK
<1>3. CASE SyncDriverUser
  <2>1. inbox' \in Seq(Accounts) /\ Head(inbox) \in Accounts
    BY <1>3, TailLast DEF SyncDriverUser, TypeOK
  <2>2. sql' \in Accounts /\ listener' \in Callbacks
    BY <1>3, <2>1 DEF SyncDriverUser, WalletFrom, TypeOK, Accounts, Callbacks
  <2> QED
    BY <1>3, <2>1, <2>2 DEF SyncDriverUser, TypeOK
<1>4. CASE SyncDriverProfile
  <2>1. sql' \in Accounts
    BY <1>4 DEF SyncDriverProfile, TripsFrom, TypeOK, Accounts, Callbacks
  <2> QED
    BY <1>4, <2>1, IdleType DEF SyncDriverProfile, TripsFrom, TypeOK
<1>5. CASE JobRead
  BY <1>5 DEF JobRead, TypeOK, Callbacks, accounts
<1>6. CASE JobUser
  <2>1. sql' \in Accounts /\ job' \in Callbacks
    BY <1>6 DEF JobUser, WalletFrom, TypeOK, Accounts, Callbacks
  <2> QED
    BY <1>6, <2>1 DEF JobUser, TypeOK
<1>7. CASE JobProfile
  <2>1. job.version.trips \in Nat
    BY DEF TypeOK, Callbacks, Accounts
  <2> QED
    BY <1>7, <2>1, WriteProfileType, IdleType DEF JobProfile, TypeOK
<1> QED
  BY <1>1, <1>2, <1>3, <1>4, <1>5, <1>6, <1>7 DEF Carries, Mirrored, SyncDriver, Job

LEMMA FaultsType == ASSUME TypeOK, Faults PROVE TypeOK' /\ faults' # 0
<1>0. Fault
  BY DEF Faults, StepFails, StepLogged, MirrorLost, Restart
<1>1. faults' \in 0 .. scenario.faults /\ faults' # 0
  BY <1>0, ScenarioType DEF Fault, TypeOK
<1>2. ASSUME NEW c \in Calls, StepFails(c) \/ StepLogged(c) PROVE calls' \in [ Calls -> CallStates ]
  <2>1. [ IdleCall EXCEPT !.transaction = calls[c].transaction ] \in CallStates
    BY IdleType DEF TypeOK, CallStates
  <2> QED
    BY <1>2, <2>1 DEF StepFails, StepLogged, Go, TypeOK, CallStates
<1>3. /\ sql' \in Accounts /\ doc' \in Accounts /\ inbox' \in Seq(Accounts)
      /\ listener' \in Callbacks /\ job' \in Callbacks /\ calls' \in [ Calls -> CallStates ]
  <2>1. CASE Restart
    BY <2>1, IdleType DEF Restart, TypeOK
  <2>2. CASE \E c \in Calls : StepFails(c) \/ StepLogged(c)
    BY <1>2, <2>2 DEF StepFails, StepLogged, accounts, TypeOK
  <2>3. CASE \E trips \in BagToSet(mirrors) : MirrorLost(trips)
    BY <2>3 DEF MirrorLost, TypeOK
  <2> QED
    BY <2>1, <2>2, <2>3 DEF Faults
<1>4. BagToSet(mirrors') \subseteq Nat
  BY BagWithout, BagEmpty DEF Faults, StepFails, StepLogged, MirrorLost, Restart, accounts, TypeOK
<1> QED
  BY <1>0, <1>1, <1>3, <1>4 DEF Fault, TypeOK

LEMMA NextCases ==
  ASSUME [Next]_vars
  PROVE  (\E c \in Calls : Begin(c) \/ GoOn(c)) \/ Carries \/ Faults \/ UNCHANGED vars
BY DEF Next, Carries

LEMMA TypeInductive == TypeOK /\ [Next]_vars => TypeOK'
<1>1. TypeOK /\ UNCHANGED vars => TypeOK'
  BY DEF TypeOK, vars
<1> QED
  BY <1>1, NextCases, BeginType, GoOnType, CarriesType, FaultsType

(***************************************************************************)
(* In quiet the rows say what the document says                            *)
(***************************************************************************)

\* A call at one of these steps has yet to write the document, or a row that is mirrored.
OwingSteps == { "trips", "earn", "fields", "statsRead", "statsWrite" }

\* A version of the document is still to come after what was written into the rows.
Owing ==
  \/ mirrors # EmptyBag
  \/ job.pc = "profile"
  \/ \E c \in Calls : calls[c].pc \in OwingSteps

\* The last version on its way to the listener, or the one it is writing, is the document.
LastVersion ==
  /\ inbox # << >> => inbox[Len(inbox)] = doc
  /\ listener.pc = "profile" /\ inbox = << >> => listener.version = doc
  /\ listener.pc # "user"

\* A settlement that has made its copy before it commits: the version waits for its locks.
Settlements == \A c \in Calls : calls[c].transaction => calls[c].pc \in { "statsRead", "statsWrite" } \/ inbox # << >>

RowsFollow ==
  \/ Owing
  \/ inbox # << >>
  \/ sql.wallet = doc.wallet /\ (listener.pc = "profile" \/ sql.trips = doc.trips)

CarryParts == LastVersion /\ Settlements /\ RowsFollow

CarryInv == faults = 0 => CarryParts

LEMMA CarryInit == Init => CarryInv
BY DEF Init, CarryInv, CarryParts, LastVersion, Settlements, RowsFollow, IdleCall, IdleCallback

\* A write of the document makes everything right again.
LEMMA CarryPut ==
  ASSUME TypeOK, CarryParts, NEW value \in Accounts, PutDoc(value), UNCHANGED listener
  PROVE  CarryParts'
<1>1. inbox' # << >> /\ inbox'[Len(inbox')] = doc'
  <2>1. inbox \in Seq(Accounts) /\ inbox' = Append(inbox, value) /\ doc' = value
    BY DEF TypeOK, PutDoc
  <2> QED
    BY <2>1, AppendLast
<1> QED
  BY <1>1 DEF CarryParts, LastVersion, Settlements, RowsFollow

\* A step that leaves document, versions and listener alone.
LEMMA CarryStill ==
  ASSUME CarryParts, UNCHANGED << doc, inbox, listener >>, Settlements',
         Owing' \/ inbox # << >> \/ (UNCHANGED sql /\ (Owing => Owing'))
  PROVE  CarryParts'
BY DEF CarryParts, LastVersion, RowsFollow

LEMMA OwingKept ==
  ASSUME Owing, UNCHANGED job, NEW c \in Calls, \A d \in Calls \ { c } : calls'[d] = calls[d],
         mirrors' = mirrors \/ mirrors' # EmptyBag,
         calls[c].pc \notin OwingSteps \/ calls'[c].pc \in OwingSteps \/ mirrors' # EmptyBag
  PROVE  Owing'
BY DEF Owing

\* What the start of a call leaves.
LEMMA InputFrame ==
  ASSUME TypeOK, NEW c \in Calls, NEW operation, NEW start, Input(c, operation, start)
  PROVE  /\ ~InProgress(c) /\ calls[c].pc = "idle" /\ ~calls[c].transaction
         /\ calls'[c] = start /\ \A d \in Calls \ { c } : calls'[d] = calls[d]
         /\ operation \in scenario.operations
         /\ UNCHANGED << scenario, listener, job, faults >>
BY DEF Input, InProgress, TypeOK

LEMMA CarryBegin ==
  ASSUME TypeOK, TypeOK', CarryParts, NEW c \in Calls, Begin(c) PROVE CarryParts'
<1>1. ASSUME NEW operation, NEW start, Input(c, operation, start), UNCHANGED << doc, inbox >>,
             start.transaction => start.pc = "statsRead",
             mirrors' = mirrors \/ mirrors' # EmptyBag,
             UNCHANGED sql \/ start.pc \in OwingSteps \/ mirrors' # EmptyBag
      PROVE  CarryParts'
  <2>1. /\ calls[c].pc = "idle" /\ calls'[c] = start /\ \A d \in Calls \ { c } : calls'[d] = calls[d]
        /\ UNCHANGED << job, listener >>
    BY <1>1, InputFrame
  <2>2. Settlements'
    BY <1>1, <2>1 DEF CarryParts, Settlements
  <2>3. Owing => Owing'
    BY <1>1, <2>1, OwingKept DEF OwingSteps
  <2>4. start.pc \in OwingSteps \/ mirrors' # EmptyBag => Owing'
    BY <2>1 DEF Owing
  <2> QED
    BY <1>1, <2>1, <2>2, <2>3, <2>4, CarryStill
<1>0. /\ \A pc \in { "create", "earn", "fields", "ping", "statsRead" } :
           LET r == [ IdleCall EXCEPT !.pc = pc ] IN r.pc = pc /\ ~r.transaction
      /\ \A u : LET r == [ IdleCall EXCEPT !.pc = "read", !.update = u ] IN r.pc = "read" /\ ~r.transaction
      /\ LET r == [ IdleCall EXCEPT !.pc = "statsRead", !.adjusts = TRUE ] IN r.pc = "statsRead" /\ ~r.transaction
      /\ LET r == [ IdleCall EXCEPT !.pc = "statsRead", !.transaction = TRUE ] IN r.pc = "statsRead"
      /\ ~IdleCall.transaction
  BY DEF IdleCall
<1>2. CASE CreateRide(c) \/ (\E u \in Updates : UpdateRide(c, u)) \/ \E s \in RowStatuses : PatchRide(c, s)
  BY <1>0, <1>1, <1>2 DEF CreateRide, UpdateRide, PatchRide, accounts
<1>3. CASE \E n \in { 1, -1 } : AdjustWallet(c, n)
  BY <1>0, <1>1, <1>3 DEF AdjustWallet, OwingSteps
<1>4. CASE HandleDelivered(c)
  BY <1>0, <1>1, <1>4 DEF HandleDelivered, OwingSteps
<1>5. CASE SettleOrder(c)
  BY <1>0, <1>1, <1>5 DEF SettleOrder, accounts
<1>6. CASE UpdateProfile(c) \/ Ping(c)
  <2>1. mirrors' # EmptyBag
    BY <1>6, WriteProfileType DEF UpdateProfile, Ping, TypeOK, Accounts
  <2> QED
    BY <1>0, <1>1, <1>6, <2>1 DEF UpdateProfile, Ping
<1>7. CASE \E n \in { 1, -1 } : SetWallet(c, n)
  <2>1. PICK pc \in { "fields", "statsRead" } : Input(c, "setwallet", [ IdleCall EXCEPT !.pc = pc ])
    BY <1>7 DEF SetWallet
  <2>2. UNCHANGED << doc, inbox, mirrors >>
    BY <1>7 DEF SetWallet
  <2> QED
    BY <1>0, <1>1, <2>1, <2>2 DEF OwingSteps
<1> QED
  BY <1>2, <1>3, <1>4, <1>5, <1>6, <1>7 DEF Begin

LEMMA GoFrame ==
  ASSUME TypeOK, NEW c \in Calls, NEW pc, Go(c, pc)
  PROVE  /\ calls'[c] = [ calls[c] EXCEPT !.pc = pc ] /\ calls'[c].pc = pc
         /\ calls'[c].transaction = calls[c].transaction /\ calls'[c].update = calls[c].update
         /\ calls'[c].adjusts = calls[c].adjusts /\ calls'[c].stats = calls[c].stats
         /\ \A d \in Calls \ { c } : calls'[d] = calls[d]
BY DEF Go, TypeOK, CallStates

LEMMA EndFrame ==
  ASSUME TypeOK, NEW c \in Calls, End(c)
  PROVE  calls'[c] = IdleCall /\ calls'[c].pc = "idle" /\ ~calls'[c].transaction
         /\ \A d \in Calls \ { c } : calls'[d] = calls[d]
BY DEF End, TypeOK, IdleCall

LEMMA ReadStatsFrame ==
  ASSUME TypeOK, NEW c \in Calls, ReadStats(c)
  PROVE  /\ calls'[c].pc = "statsWrite" /\ calls'[c].stats = sql
         /\ calls'[c].transaction = calls[c].transaction /\ calls'[c].update = calls[c].update
         /\ calls'[c].adjusts = calls[c].adjusts
         /\ \A d \in Calls \ { c } : calls'[d] = calls[d]
BY DEF ReadStats, TypeOK, CallStates

LEMMA WriteStatsFrame ==
  ASSUME TypeOK, NEW c \in Calls, WriteStats(c)
  PROVE  /\ calls'[c].pc = "idle" /\ calls'[c].transaction = calls[c].transaction
         /\ \A d \in Calls \ { c } : calls'[d] = calls[d]
         /\ \E value \in Accounts : PutDoc(value)
<1>1. /\ calls[c].stats \in Accounts
      /\ [ doc EXCEPT !.wallet = calls[c].stats.wallet ] \in Accounts
  <2>1. calls[c].stats \in Accounts
    BY DEF TypeOK, CallStates
  <2> QED
    BY <2>1 DEF TypeOK, Accounts
<1>2. \E value \in Accounts : PutDoc(value)
  BY <1>1 DEF WriteStats
<1> QED
  BY <1>2 DEF WriteStats, TypeOK, IdleCall

LEMMA CarryGoOn ==
  ASSUME TypeOK, TypeOK', CarryParts, NEW c \in Calls, GoOn(c) PROVE CarryParts'
<1>0. sql.trips \in Nat /\ doc \in Accounts /\ doc.wallet \in Int /\ doc.trips \in Nat
  BY DEF TypeOK, Accounts
<1>1. CASE CreateRow(c) \/ ReadRide(c) \/ AddEntry(c) \/ WriteRow(c) \/ WriteRide(c)
  <2>1. UNCHANGED << sql, doc, mirrors, inbox, listener, job >> /\ calls[c].pc \notin OwingSteps
    BY <1>1 DEF CreateRow, ReadRide, AddEntry, WriteRow, WriteRide, accounts, At, OwingSteps
  <2>2. End(c) \/ \E pc : Go(c, pc)
    BY <1>1 DEF CreateRow, ReadRide, AddEntry, WriteRow, WriteRide
  <2>3. /\ \A d \in Calls \ { c } : calls'[d] = calls[d]
        /\ calls'[c].transaction => calls[c].transaction
    BY <2>2, EndFrame, GoFrame
  <2>4. Settlements'
    BY <2>1, <2>3 DEF CarryParts, Settlements, OwingSteps
  <2>5. Owing => Owing'
    BY <2>1, <2>3, OwingKept
  <2> QED
    BY <2>1, <2>4, <2>5, CarryStill
<1>2. CASE CreditDoc(c) \/ PingDoc(c) \/ WriteStats(c)
  <2>1. [ wallet |-> doc.wallet + 1, trips |-> doc.trips + 1 ] \in Accounts
    BY <1>0 DEF Accounts
  <2>2. UNCHANGED listener /\ \E value \in Accounts : PutDoc(value)
    BY <1>0, <1>2, <2>1, WriteStatsFrame DEF CreditDoc, PingDoc, WriteStats
  <2> QED
    BY <2>2, CarryPut
<1>3. CASE CreditUser(c)
  <2>1. /\ UNCHANGED << doc, mirrors, inbox, listener, job >> /\ Go(c, "trips") /\ calls[c].pc = "wallet"
    BY <1>3 DEF CreditUser, At
  <2>2. Settlements'
    BY <2>1, GoFrame DEF CarryParts, Settlements
  <2>3. Owing'
    BY <2>1, GoFrame DEF Owing, OwingSteps
  <2> QED
    BY <2>1, <2>2, <2>3, CarryStill
<1>4. CASE CreditProfile(c) \/ EarnTrip(c) \/ SetFields(c)
  <2>1. /\ UNCHANGED << doc, inbox, listener, job >> /\ calls[c].pc \in { "trips", "earn", "fields" }
        /\ Go(c, "row") \/ Go(c, "statsRead")
    BY <1>4 DEF CreditProfile, EarnTrip, SetFields, At
  <2>2. mirrors' # EmptyBag
    BY <1>0, <1>4, WriteProfileType DEF CreditProfile, EarnTrip, SetFields
  <2>3. Settlements'
    BY <2>1, GoFrame DEF CarryParts, Settlements
  <2> QED
    BY <2>1, <2>2, <2>3, CarryStill DEF Owing
<1>5. CASE ReadStats(c)
  <2>1. UNCHANGED << sql, doc, mirrors, inbox, listener, job >>
    BY <1>5 DEF ReadStats, accounts
  <2>2. Settlements'
    BY <1>5, <2>1, ReadStatsFrame DEF CarryParts, Settlements
  <2>3. Owing'
    BY <1>5, ReadStatsFrame DEF Owing, OwingSteps
  <2> QED
    BY <2>1, <2>2, <2>3, CarryStill
<1> QED
  BY <1>1, <1>2, <1>3, <1>4, <1>5 DEF GoOn

LEMMA CarryCarries ==
  ASSUME TypeOK, TypeOK', CarryParts, Carries PROVE CarryParts'
<1>1. ASSUME NEW c \in Calls, Commit(c) PROVE CarryParts'
  <2>1. /\ UNCHANGED << doc, mirrors, inbox, listener, job >> /\ calls[c].transaction
        /\ calls'[c].pc = calls[c].pc /\ ~calls'[c].transaction
        /\ \A d \in Calls \ { c } : calls'[d] = calls[d]
    BY <1>1 DEF Commit, TypeOK, CallStates
  <2>2. Settlements'
    BY <2>1 DEF CarryParts, Settlements
  <2>3. Owing' \/ inbox # << >>
    BY <2>1 DEF CarryParts, Settlements, Owing, OwingSteps
  <2> QED
    BY <2>1, <2>2, <2>3, CarryStill
<1>2. ASSUME NEW trips \in BagToSet(mirrors), MirrorTrips(trips) PROVE CarryParts'
  <2>1. trips \in Nat
    BY DEF TypeOK
  <2>2. [ doc EXCEPT !.trips = trips ] \in Accounts
    BY <2>1 DEF TypeOK, Accounts
  <2> QED
    BY <1>2, <2>2, CarryPut DEF MirrorTrips
<1>3. CASE SyncDriverUser
  <2>1. /\ inbox \in Seq(Accounts) /\ inbox # << >> /\ inbox' = Tail(inbox) /\ UNCHANGED << doc, mirrors, job, calls >>
        /\ listener' = [ pc |-> "profile", version |-> Head(inbox) ]
        /\ ~Locked /\ sql'.wallet = Head(inbox).wallet
    BY <1>3 DEF SyncDriverUser, WalletFrom, TypeOK, Accounts
  <2>2. /\ inbox' # << >> => inbox'[Len(inbox')] = doc
        /\ inbox' = << >> => Head(inbox) = doc
    BY <2>1, TailLast DEF CarryParts, LastVersion
  <2>3. LastVersion'
    BY <2>1, <2>2 DEF LastVersion
  <2>4. Settlements'
    BY <2>1 DEF Settlements, Locked
  <2>5. RowsFollow'
    BY <2>1, <2>2 DEF RowsFollow
  <2> QED
    BY <2>3, <2>4, <2>5 DEF CarryParts
<1>4. CASE SyncDriverProfile
  <2>1. /\ UNCHANGED << doc, inbox, mirrors, job, calls >> /\ listener.pc = "profile" /\ listener' = IdleCallback
        /\ sql'.wallet = sql.wallet /\ sql'.trips = listener.version.trips
    BY <1>4 DEF SyncDriverProfile, TripsFrom, TypeOK, Accounts
  <2>2. LastVersion' /\ Settlements'
    BY <2>1 DEF CarryParts, LastVersion, Settlements, IdleCallback
  <2>3. Owing => Owing'
    BY <2>1 DEF Owing
  <2>4. RowsFollow'
    BY <2>1, <2>3 DEF CarryParts, LastVersion, RowsFollow
  <2> QED
    BY <2>2, <2>4 DEF CarryParts
<1>5. CASE JobRead
  <2>1. UNCHANGED << sql, doc, mirrors, inbox, listener, calls >> /\ job.pc = "idle"
    BY <1>5 DEF JobRead, accounts
  <2>2. (Owing => Owing') /\ Settlements'
    BY <2>1 DEF Owing, CarryParts, Settlements
  <2> QED
    BY <2>1, <2>2, CarryStill
<1>6. CASE JobUser
  <2>1. UNCHANGED << doc, mirrors, inbox, listener, calls >> /\ job'.pc = "profile"
    BY <1>6 DEF JobUser, TypeOK, Callbacks
  <2>2. Owing' /\ Settlements'
    BY <2>1 DEF Owing, CarryParts, Settlements
  <2> QED
    BY <2>1, <2>2, CarryStill
<1>7. CASE JobProfile
  <2>1. job.version.trips \in Nat
    BY DEF TypeOK, Callbacks, Accounts
  <2>2. UNCHANGED << doc, inbox, listener, calls >> /\ mirrors' # EmptyBag
    BY <1>7, <2>1, WriteProfileType DEF JobProfile
  <2>3. Owing' /\ Settlements'
    BY <2>2 DEF Owing, CarryParts, Settlements
  <2> QED
    BY <2>2, <2>3, CarryStill
<1> QED
  BY <1>1, <1>2, <1>3, <1>4, <1>5, <1>6, <1>7 DEF Carries, Mirrored, SyncDriver, Job

\* A fault is counted.
LEMMA NoFaults ==
  ASSUME TypeOK, [Next]_vars, faults' = 0
  PROVE  faults = 0 /\ ((\E c \in Calls : Begin(c) \/ GoOn(c)) \/ Carries \/ UNCHANGED vars)
<1>1. (\E c \in Calls : Begin(c) \/ GoOn(c)) \/ Carries \/ UNCHANGED vars
  BY NextCases, FaultsType
<1>2. ASSUME NEW c \in Calls, Begin(c) PROVE UNCHANGED faults
  BY <1>2 DEF Begin, CreateRide, UpdateRide, PatchRide, AdjustWallet, HandleDelivered, SettleOrder,
              SetWallet, UpdateProfile, Ping, Input
<1>3. ASSUME NEW c \in Calls, GoOn(c) PROVE UNCHANGED faults
  BY <1>3 DEF GoOn, CreateRow, ReadRide, CreditDoc, AddEntry, CreditUser, CreditProfile, WriteRow, WriteRide,
              EarnTrip, SetFields, PingDoc, ReadStats, WriteStats
<1>4. Carries => UNCHANGED faults
  BY DEF Carries, Commit, Mirrored, MirrorTrips, SyncDriver, SyncDriverUser, SyncDriverProfile, Job, JobRead,
         JobUser, JobProfile
<1> QED
  BY <1>1, <1>2, <1>3, <1>4 DEF vars

LEMMA CarryInductive == ASSUME TypeOK, TypeOK', CarryInv, [Next]_vars PROVE CarryInv'
<1> SUFFICES ASSUME faults' = 0 PROVE CarryParts'
  BY DEF CarryInv
<1>1. CarryParts /\ ((\E c \in Calls : Begin(c) \/ GoOn(c)) \/ Carries \/ UNCHANGED vars)
  BY NoFaults DEF CarryInv
<1>2. UNCHANGED vars => CarryParts'
  BY <1>1 DEF vars, CarryParts, LastVersion, Settlements, RowsFollow, Owing
<1> QED
  BY <1>1, <1>2, CarryBegin, CarryGoOn, CarryCarries

\* Rows and document are wallets, and once nothing is on its way and nothing failed they say
\* the same: however the payments of TransportService, of the settlements and of the
\* administrators interleave with their copies, the mirrors of PrismaService, the listener
\* and the job.
THEOREM RowsAgree == Spec => []MirrorInv
<1>1. Init => TypeOK /\ CarryInv
  BY TypeInit, CarryInit
<1>2. (TypeOK /\ CarryInv) /\ [Next]_vars => (TypeOK /\ CarryInv)'
  BY TypeInductive, CarryInductive
<1>3. TypeOK /\ CarryInv => MirrorInv
  <2> SUFFICES ASSUME TypeOK, CarryParts, Quiet PROVE sql = doc
    BY DEF MirrorInv, WalletsAgree, CarryInv
  <2>1. ~Owing /\ inbox = << >> /\ listener.pc = "idle"
    BY DEF Quiet, Carried, Owing, OwingSteps, InProgress
  <2>2. sql.wallet = doc.wallet /\ sql.trips = doc.trips
    BY <2>1 DEF CarryParts, RowsFollow
  <2> QED
    BY <2>2 DEF TypeOK, Accounts
<1> QED
  BY <1>1, <1>2, <1>3, PTL DEF Spec

(***************************************************************************)
(* The ride pays once, and its row follows its document                    *)
(***************************************************************************)

RideSteps == { "create", "read", "credit", "entry", "wallet", "trips", "row", "doc" }

AtMostOne == \A c, d \in Calls : InProgress(c) /\ InProgress(d) => c = d

\* The update that the call makes pays, by what the document of the ride says now.
Due(c) == Pays(calls[c].update)

\* What an update of the ride has done at each of its steps.
RideCall(c) ==
  /\ At(c, "create") => ride.status = "pending" /\ entries = history.completions
  /\ calls[c].pc \in RideSteps \ { "create" } =>
       /\ ride.status # "absent" /\ ride.row # "absent"
       /\ history.mirrored => calls[c].update.status # "unnamed" /\ ~ calls[c].update.driver
  /\ At(c, "read") => entries = history.completions
  /\ calls[c].pc \in { "credit", "entry" } => Due(c) /\ entries = history.completions
  /\ calls[c].pc \in { "wallet", "trips" } => Due(c) /\ entries = history.completions + 1
  /\ calls[c].pc \in { "row", "doc" } => entries = history.completions + (IF Due(c) THEN 1 ELSE 0)
  /\ At(c, "doc") /\ history.mirrored => ride.row = RowStatus(calls[c].update.status)

\* What holds between two updates.
RideRests ==
  /\ entries = history.completions
  /\ ride.status # "absent" => ride.row # "absent"
  /\ history.mirrored /\ ride.status # "absent" => ride.row = RowStatus(ride.status)

RideParts ==
  /\ AtMostOne
  /\ \A c \in Calls : RideCall(c)
  /\ (\A c \in Calls : calls[c].pc \notin RideSteps) => RideRests

RideInv == scenario.pace # "overlapping" /\ faults = 0 => RideParts

LEMMA RideInit == Init => RideInv
<1> SUFFICES ASSUME Init PROVE RideParts
  BY DEF RideInv
<1>1. \A c \in Calls : calls[c].pc = "idle" /\ ~InProgress(c)
  BY DEF Init, IdleCall, InProgress
<1>2. AtMostOne /\ \A c \in Calls : RideCall(c)
  BY <1>1 DEF AtMostOne, RideCall, RideSteps, At
<1>3. RideRests
  BY ScenarioType DEF Init, RideRests
<1> QED
  BY <1>2, <1>3 DEF RideParts

\* What the invariant says of the ride.
RideKept ==
  /\ UNCHANGED << ride, entries >>
  /\ history'.completions = history.completions /\ history'.mirrored = history.mirrored

\* A step of no update.
LEMMA RideStill ==
  ASSUME RideParts, RideKept,
         \A c \in Calls : /\ InProgress(c)' => InProgress(c)
                         /\ \/ calls'[c].pc = calls[c].pc /\ calls'[c].update = calls[c].update
                            \/ calls[c].pc \notin RideSteps /\ calls'[c].pc \notin RideSteps
  PROVE  RideParts'
<1>1. AtMostOne'
  BY DEF RideParts, AtMostOne
<1>2. ASSUME NEW c \in Calls PROVE RideCall(c)'
  <2>1. RideCall(c)
    BY DEF RideParts
  <2>2. CASE calls'[c].pc = calls[c].pc /\ calls'[c].update = calls[c].update
    <3>1. Due(c)' <=> Due(c)
      BY <2>2 DEF Due, Pays, RideKept
    <3> QED
      BY <2>1, <2>2, <3>1 DEF RideCall, RideKept, At
  <2>3. CASE calls'[c].pc \notin RideSteps
    BY <2>3 DEF RideCall, RideSteps, At
  <2> QED
    BY <2>2, <2>3
<1>3. (\A c \in Calls : calls'[c].pc \notin RideSteps) => RideRests'
  BY DEF RideParts, RideRests, RideKept
<1> QED
  BY <1>1, <1>2, <1>3 DEF RideParts

\* A step of the only call in progress, or the start of one.
LEMMA RideOwn ==
  ASSUME NEW c \in Calls, \A d \in Calls \ { c } : ~InProgress(d) /\ calls'[d] = calls[d],
         RideCall(c)', calls'[c].pc \notin RideSteps => RideRests'
  PROVE  RideParts'
<1>1. \A d \in Calls \ { c } : ~InProgress(d)' /\ calls'[d].pc = "idle"
  BY DEF InProgress
<1>2. \A d \in Calls \ { c } : RideCall(d)'
  BY <1>1 DEF RideCall, RideSteps, At
<1> QED
  BY <1>1, <1>2 DEF RideParts, AtMostOne

LEMMA InputAlone ==
  ASSUME TypeOK, scenario.pace # "overlapping", NEW c \in Calls, NEW operation, NEW start, Input(c, operation, start)
  PROVE  \A d \in Calls : ~InProgress(d) /\ calls[d].pc = "idle"
<1>1. scenario.pace \in { "quiet", "serial" }
  BY DriverMirrorAssumption DEF TypeOK
<1> QED
  BY <1>1 DEF Input, Quiet, InProgress

LEMMA RideBegin ==
  ASSUME TypeOK, TypeOK', scenario.pace # "overlapping", RideParts, NEW c \in Calls, Begin(c)
  PROVE  RideParts'
<1>0. /\ \A pc \in { "create", "earn", "fields", "ping", "statsRead" } : [ IdleCall EXCEPT !.pc = pc ].pc = pc
      /\ \A u : LET r == [ IdleCall EXCEPT !.pc = "read", !.update = u ] IN r.pc = "read" /\ r.update = u
      /\ [ IdleCall EXCEPT !.pc = "statsRead", !.adjusts = TRUE ].pc = "statsRead"
      /\ [ IdleCall EXCEPT !.pc = "statsRead", !.transaction = TRUE ].pc = "statsRead"
      /\ IdleCall.pc = "idle"
  BY DEF IdleCall
<1>1. ASSUME NEW operation, NEW start, Input(c, operation, start)
      PROVE  /\ \A d \in Calls : ~InProgress(d) /\ calls[d].pc = "idle"
             /\ \A d \in Calls \ { c } : calls'[d] = calls[d]
             /\ calls'[c] = start /\ RideRests
  <2>1. \A d \in Calls : ~InProgress(d) /\ calls[d].pc = "idle"
    BY <1>1, InputAlone
  <2>2. RideRests
    BY <2>1 DEF RideParts, RideSteps
  <2> QED
    BY <1>1, <2>1, <2>2, InputFrame
<1>2. ASSUME NEW operation, NEW start, Input(c, operation, start), start.pc \notin RideSteps, RideKept
      PROVE  RideParts'
  <2>1. RideRests'
    BY <1>1, <1>2 DEF RideRests, RideKept
  <2>2. RideCall(c)'
    BY <1>1, <1>2 DEF RideCall, RideSteps, At
  <2> QED
    BY <1>1, <1>2, <2>1, <2>2, RideOwn
<1>3. CASE CreateRide(c)
  <2>1. /\ Input(c, "ride", [ IdleCall EXCEPT !.pc = "create" ]) /\ ride'.status = "pending"
        /\ UNCHANGED << entries, history >>
    BY <1>3 DEF CreateRide, TypeOK
  <2>2. calls'[c].pc = "create" /\ RideRests
    <3>1. calls'[c] = [ IdleCall EXCEPT !.pc = "create" ] /\ RideRests
      BY <1>1, <2>1
    <3> QED
      BY <1>0, <3>1
  <2>3. RideCall(c)'
    BY <2>1, <2>2 DEF RideCall, RideRests, RideSteps, At
  <2> QED
    BY <1>1, <2>1, <2>2, <2>3, RideOwn DEF RideSteps
<1>4. CASE \E u \in Updates : UpdateRide(c, u)
  <2>1. PICK u \in Updates : UpdateRide(c, u)
    BY <1>4
  <2>2. /\ Input(c, "ride", [ IdleCall EXCEPT !.pc = "read", !.update = u ]) /\ ride.status # "absent"
        /\ UNCHANGED << ride, entries >> /\ history'.completions = history.completions
        /\ history'.mirrored = (u.status # "unnamed" /\ ~ u.driver)
    BY <2>1 DEF UpdateRide, TypeOK
  <2>3. calls'[c].pc = "read" /\ calls'[c].update = u /\ RideRests
    <3>1. calls'[c] = [ IdleCall EXCEPT !.pc = "read", !.update = u ] /\ RideRests
      BY <1>1, <2>2
    <3> QED
      BY <1>0, <3>1
  <2>4. RideCall(c)'
    BY <2>2, <2>3 DEF RideCall, RideRests, RideSteps, At
  <2> QED
    BY <1>1, <2>2, <2>3, <2>4, RideOwn DEF RideSteps
<1>5. CASE \E s \in RowStatuses : PatchRide(c, s)
  <2>1. PICK s \in RowStatuses : PatchRide(c, s)
    BY <1>5
  <2>2. /\ Input(c, "patch", IdleCall) /\ ride' = [ ride EXCEPT !.row = s ]
        /\ history' = [ history EXCEPT !.mirrored = FALSE ] /\ UNCHANGED entries
    BY <2>1 DEF PatchRide
  <2>3. calls'[c].pc = "idle" /\ RideRests
    BY <1>0, <1>1, <2>2
  <2>4. ride'.row = s /\ s # "absent" /\ ~history'.mirrored /\ history'.completions = history.completions
    BY <2>2 DEF TypeOK, RowStatuses
  <2>5. RideCall(c)' /\ RideRests'
    BY <2>2, <2>3, <2>4 DEF RideCall, RideRests, RideSteps, At
  <2> QED
    BY <1>1, <2>2, <2>5, RideOwn
<1>6. CASE \/ (\E n \in { 1, -1 } : AdjustWallet(c, n) \/ SetWallet(c, n)) \/ HandleDelivered(c)
           \/ SettleOrder(c) \/ UpdateProfile(c) \/ Ping(c)
  <2>1. RideKept
    BY <1>6 DEF AdjustWallet, SetWallet, HandleDelivered, SettleOrder, UpdateProfile, Ping, RideKept, TypeOK
  <2>2. \E operation, start : Input(c, operation, start) /\ start.pc \notin RideSteps
    <3>1. CASE \E n \in { 1, -1 } : SetWallet(c, n)
      <4>1. PICK pc \in { "fields", "statsRead" } : Input(c, "setwallet", [ IdleCall EXCEPT !.pc = pc ])
        BY <3>1 DEF SetWallet
      <4> QED
        BY <1>0, <4>1 DEF RideSteps
    <3> QED
      BY <1>0, <1>6, <3>1 DEF AdjustWallet, HandleDelivered, SettleOrder, UpdateProfile, Ping, RideSteps
  <2> QED
    BY <1>2, <2>1, <2>2
<1> QED
  BY <1>3, <1>4, <1>5, <1>6 DEF Begin

LEMMA RideGoOn ==
  ASSUME TypeOK, TypeOK', RideParts, NEW c \in Calls, GoOn(c) PROVE RideParts'
<1>0. calls[c].pc # "idle"
  BY DEF GoOn, CreateRow, ReadRide, CreditDoc, AddEntry, CreditUser, CreditProfile, WriteRow, WriteRide,
         EarnTrip, SetFields, PingDoc, ReadStats, WriteStats, At
<1>1. RideCall(c) /\ \A d \in Calls \ { c } : ~InProgress(d)
  BY <1>0 DEF RideParts, AtMostOne, InProgress
<1>2. /\ history.completions \in Nat /\ entries \in Nat /\ calls[c].update.driver \in BOOLEAN
      /\ calls[c].update.status \in Statuses \cup { "unnamed" } /\ history.mirrored \in BOOLEAN
      /\ ride.driver \in BOOLEAN
  BY DEF TypeOK, CallStates, Updates
<1>3. ASSUME NEW pc, Go(c, pc)
      PROVE  /\ calls'[c].pc = pc /\ calls'[c].update = calls[c].update
             /\ \A d \in Calls \ { c } : ~InProgress(d) /\ calls'[d] = calls[d]
  BY <1>1, <1>3, GoFrame
<1>4. ASSUME End(c)
      PROVE  /\ calls'[c].pc = "idle" /\ \A d \in Calls \ { c } : ~InProgress(d) /\ calls'[d] = calls[d]
  BY <1>1, <1>4, EndFrame
<1>5. CASE CreateRow(c)
  <2>1. /\ ride'.row = "PENDING" /\ ride'.status = ride.status /\ UNCHANGED << entries, history >>
        /\ At(c, "create") /\ End(c)
    BY <1>5 DEF CreateRow, TypeOK
  <2>2. ride.status = "pending" /\ entries = history.completions
    BY <1>1, <2>1 DEF RideCall
  <2>3. RideRests'
    BY <2>1, <2>2 DEF RideRests, RowStatus
  <2>4. RideCall(c)'
    BY <1>4, <2>1 DEF RideCall, RideSteps, At
  <2> QED
    BY <1>4, <2>1, <2>3, <2>4, RideOwn
<1>6. CASE ReadRide(c) \/ CreditDoc(c) \/ CreditUser(c) \/ CreditProfile(c)
  <2>1. UNCHANGED << ride, entries, history >>
    BY <1>6 DEF ReadRide, CreditDoc, CreditUser, CreditProfile
  <2>2. \/ At(c, "read") /\ Go(c, "credit") /\ Due(c)
        \/ At(c, "read") /\ Go(c, "row") /\ ~Due(c)
        \/ At(c, "credit") /\ Go(c, "entry")
        \/ At(c, "wallet") /\ Go(c, "trips")
        \/ At(c, "trips") /\ Go(c, "row")
    BY <1>6 DEF ReadRide, CreditDoc, CreditUser, CreditProfile, Due
  <2>3. \E pc \in RideSteps \ { "create", "doc" } : Go(c, pc)
    BY <2>2 DEF RideSteps
  <2>4. Due(c)' <=> Due(c)
    BY <1>3, <2>1, <2>3 DEF Due, Pays
  <2>5. RideCall(c)'
    <3>1. CASE At(c, "read") /\ Go(c, "credit") /\ Due(c)
      BY <1>1, <1>3, <2>1, <2>4, <3>1 DEF RideCall, RideSteps, At
    <3>2. CASE At(c, "read") /\ Go(c, "row") /\ ~Due(c)
      BY <1>1, <1>2, <1>3, <2>1, <2>4, <3>2 DEF RideCall, RideSteps, At
    <3>3. CASE At(c, "credit") /\ Go(c, "entry")
      BY <1>1, <1>3, <2>1, <2>4, <3>3 DEF RideCall, RideSteps, At
    <3>4. CASE At(c, "wallet") /\ Go(c, "trips")
      BY <1>1, <1>3, <2>1, <2>4, <3>4 DEF RideCall, RideSteps, At
    <3>5. CASE At(c, "trips") /\ Go(c, "row")
      BY <1>1, <1>3, <2>1, <2>4, <3>5 DEF RideCall, RideSteps, At
    <3> QED
      BY <2>2, <3>1, <3>2, <3>3, <3>4, <3>5
  <2>6. calls'[c].pc \in RideSteps
    BY <1>3, <2>3
  <2> QED
    BY <1>3, <2>3, <2>5, <2>6, RideOwn
<1>7. CASE AddEntry(c)
  <2>1. /\ UNCHANGED << ride, history >> /\ entries' = entries + 1 /\ At(c, "entry") /\ Go(c, "wallet")
    BY <1>7 DEF AddEntry
  <2>2. Due(c)' <=> Due(c)
    BY <1>3, <2>1 DEF Due, Pays
  <2>3. RideCall(c)'
    BY <1>1, <1>3, <2>1, <2>2 DEF RideCall, RideSteps, At
  <2> QED
    BY <1>3, <2>1, <2>3, RideOwn DEF RideSteps
<1>8. CASE WriteRow(c)
  <2>1. /\ ride'.status = ride.status /\ ride'.driver = ride.driver /\ UNCHANGED << entries, history >>
        /\ At(c, "row") /\ Go(c, "doc")
        /\ ride'.row = IF calls[c].update.driver \/ ride.row = "absent" THEN ride.row
                       ELSE RowStatus(calls[c].update.status)
    BY <1>8 DEF WriteRow, TypeOK
  <2>2. Due(c)' <=> Due(c)
    BY <1>3, <2>1 DEF Due, Pays
  <2>3. ride.status # "absent" /\ ride.row # "absent"
        /\ (history.mirrored => calls[c].update.status # "unnamed" /\ ~ calls[c].update.driver)
        /\ entries = history.completions + (IF Due(c) THEN 1 ELSE 0)
    BY <1>1, <2>1 DEF RideCall, RideSteps, At
  <2>4. ride'.row # "absent"
    BY <2>1, <2>3, RowStatusType DEF RowStatuses
  <2>5. RideCall(c)'
    BY <1>3, <2>1, <2>2, <2>3, <2>4 DEF RideCall, RideSteps, At
  <2> QED
    BY <1>3, <2>1, <2>5, RideOwn DEF RideSteps
<1>9. CASE WriteRide(c)
  <2>1. /\ At(c, "doc") /\ End(c) /\ UNCHANGED entries /\ ride'.row = ride.row
        /\ ride'.status = IF calls[c].update.status = "unnamed" THEN ride.status ELSE calls[c].update.status
        /\ history'.mirrored = history.mirrored
        /\ history'.completions = history.completions + (IF Due(c) THEN 1 ELSE 0)
    BY <1>2, <1>9 DEF WriteRide, TypeOK, Completes, Due, Pays
  <2>2. /\ ride.row # "absent" /\ entries = history.completions + (IF Due(c) THEN 1 ELSE 0)
        /\ history.mirrored => /\ calls[c].update.status # "unnamed"
                               /\ ride.row = RowStatus(calls[c].update.status)
    BY <1>1, <2>1 DEF RideCall, RideSteps, At
  <2>3. RideRests'
    BY <2>1, <2>2 DEF RideRests
  <2>4. RideCall(c)'
    BY <1>4, <2>1 DEF RideCall, RideSteps, At
  <2> QED
    BY <1>4, <2>1, <2>3, <2>4, RideOwn
<1>10. CASE EarnTrip(c) \/ SetFields(c) \/ PingDoc(c) \/ ReadStats(c) \/ WriteStats(c)
  <2>1. RideKept /\ calls[c].pc \notin RideSteps
    BY <1>10 DEF EarnTrip, SetFields, PingDoc, ReadStats, WriteStats, RideKept, RideSteps, At
  <2>2. calls'[c].pc \notin RideSteps /\ \A d \in Calls \ { c } : calls'[d] = calls[d]
    <3>1. EarnTrip(c) \/ SetFields(c) => Go(c, "statsRead")
      BY DEF EarnTrip, SetFields
    <3>2. PingDoc(c) => End(c)
      BY DEF PingDoc
    <3>3. Go(c, "statsRead") \/ End(c) \/ ReadStats(c) \/ WriteStats(c)
      BY <1>10, <3>1, <3>2
    <3> QED
      BY <1>3, <1>4, <3>3, ReadStatsFrame, WriteStatsFrame DEF RideSteps
  <2>3. InProgress(c)
    BY <1>0 DEF InProgress
  <2>4. \A d \in Calls \ { c } : InProgress(d)' => InProgress(d)
    BY <2>2 DEF InProgress
  <2> QED
    BY <2>1, <2>2, <2>3, <2>4, RideStill
<1> QED
  BY <1>5, <1>6, <1>7, <1>8, <1>9, <1>10 DEF GoOn

LEMMA RideCarries ==
  ASSUME TypeOK, TypeOK', RideParts, Carries PROVE RideParts'
<1>1. RideKept
  BY DEF Carries, Commit, Mirrored, MirrorTrips, SyncDriver, SyncDriverUser, SyncDriverProfile, Job, JobRead,
         JobUser, JobProfile, RideKept, TypeOK
<1>2. ASSUME NEW c \in Calls, Commit(c), NEW d \in Calls
      PROVE  (InProgress(d)' => InProgress(d)) /\ calls'[d].pc = calls[d].pc /\ calls'[d].update = calls[d].update
  BY <1>2 DEF Commit, TypeOK, CallStates, InProgress
<1>3. (\E c \in Calls : Commit(c)) \/ UNCHANGED calls
  BY DEF Carries, Mirrored, MirrorTrips, SyncDriver, SyncDriverUser, SyncDriverProfile, Job, JobRead,
         JobUser, JobProfile
<1>4. UNCHANGED calls => \A d \in Calls : InProgress(d)' => InProgress(d)
  BY DEF InProgress
<1> QED
  BY <1>1, <1>2, <1>3, <1>4, RideStill

LEMMA ScenarioStays == ASSUME [Next]_vars PROVE UNCHANGED scenario
<1>1. ASSUME NEW c \in Calls, Begin(c) PROVE UNCHANGED scenario
  BY <1>1 DEF Begin, CreateRide, UpdateRide, PatchRide, AdjustWallet, HandleDelivered, SettleOrder,
              SetWallet, UpdateProfile, Ping, Input
<1>2. ASSUME NEW c \in Calls, GoOn(c) PROVE UNCHANGED scenario
  BY <1>2 DEF GoOn, CreateRow, ReadRide, CreditDoc, AddEntry, CreditUser, CreditProfile, WriteRow, WriteRide,
              EarnTrip, SetFields, PingDoc, ReadStats, WriteStats
<1>3. Carries \/ Faults => UNCHANGED scenario
  BY DEF Carries, Commit, Mirrored, MirrorTrips, SyncDriver, SyncDriverUser, SyncDriverProfile, Job, JobRead,
         JobUser, JobProfile, Faults, StepFails, StepLogged, MirrorLost, Restart, Fault
<1> QED
  BY <1>1, <1>2, <1>3, NextCases DEF vars

LEMMA RideInductive == ASSUME TypeOK, TypeOK', RideInv, [Next]_vars PROVE RideInv'
<1> SUFFICES ASSUME scenario.pace # "overlapping", faults' = 0 PROVE RideParts'
  BY ScenarioStays DEF RideInv
<1>1. RideParts /\ ((\E c \in Calls : Begin(c) \/ GoOn(c)) \/ Carries \/ UNCHANGED vars)
  BY NoFaults DEF RideInv
<1>2. ASSUME UNCHANGED vars PROVE RideParts'
  <2>1. RideKept /\ \A c \in Calls : /\ InProgress(c)' => InProgress(c)
                                     /\ calls'[c].pc = calls[c].pc /\ calls'[c].update = calls[c].update
    BY <1>2 DEF vars, RideKept, InProgress
  <2> QED
    BY <1>1, <2>1, RideStill
<1> QED
  BY <1>1, <1>2, RideBegin, RideGoOn, RideCarries

LEMMA RideAlways == Spec => [](TypeOK /\ RideInv)
<1>1. Init => TypeOK /\ RideInv
  BY TypeInit, RideInit
<1>2. (TypeOK /\ RideInv) /\ [Next]_vars => (TypeOK /\ RideInv)'
  BY TypeInductive, RideInductive
<1> QED
  BY <1>1, <1>2, PTL DEF Spec

\* A ride whose updates do not overlap makes one entry each time it becomes completed, for
\* any updates in any order: TransportService.updateRideGateway looks at what the
\* document says before it pays, and writes the document last.
THEOREM RideEntries == Spec => []RidesPayOnce
<1>1. RideInv => RidesPayOnce
  BY DEF RideInv, RideParts, RideRests, RidesPayOnce, InProgress, RideSteps
<1> QED
  BY <1>1, RideAlways, PTL

\* Between updates that do not overlap, the row of a ride says what its document says, if
\* the last update named a status and no driver: whatever updateStatus, or an update that
\* the row did not take, had left in the row before.
THEOREM RideRows == Spec => []RowFollowsRide
<1>1. RideInv => RowFollowsRide
  BY DEF RideInv, RideParts, RideRests, RowFollowsRide, InProgress, RideSteps
<1> QED
  BY <1>1, RideAlways, PTL

(***************************************************************************)
(* Payments that do not disturb each other arrive                          *)
(***************************************************************************)

\* The copy of the rows into the document is being made.
Copying(c) == calls[c].pc \in { "statsRead", "statsWrite" }

\* The ride has paid into the document and has not become completed yet.
Paying(c) == calls[c].pc \in { "entry", "wallet", "trips", "row", "doc" } /\ Due(c)

Credit == history.completions + history.paid

\* A copy finds the wallet that every payment has reached, and no version on its way takes
\* it back: an adjustment has begun when none was, and the others do not pay.
WalletCall(c) ==
  /\ ~ calls[c].transaction /\ ~ At(c, "earn") /\ ~ At(c, "fields")
  /\ Copying(c) =>
       /\ sql.wallet = Credit
       /\ At(c, "statsWrite") => calls[c].stats.wallet = Credit
       /\ calls[c].adjusts => Carried
       /\ ~ calls[c].adjusts => /\ doc.wallet = Credit
                               /\ \A i \in 1 .. Len(inbox) : inbox[i].wallet = Credit
  /\ Paying(c) => doc.wallet = Credit + 1

WalletParts ==
  /\ job.pc = "idle"
  /\ \A c \in Calls : WalletCall(c)
  /\ (\A c \in Calls : ~ Copying(c) /\ ~ Paying(c)) => doc.wallet = Credit

WalletScope ==
  /\ scenario.pace = "quiet" /\ faults = 0
  /\ scenario.operations \cap { "delivered", "settled", "setwallet", "jobs" } = {}

WalletInv == WalletScope => WalletParts

LEMMA WalletInit == Init => WalletInv
<1> SUFFICES ASSUME Init PROVE WalletParts
  BY DEF WalletInv
<1>1. \A c \in Calls : calls[c] = IdleCall /\ IdleCall.pc = "idle" /\ ~IdleCall.transaction
  BY DEF Init, IdleCall
<1>2. \A c \in Calls : WalletCall(c)
  BY <1>1 DEF WalletCall, Copying, Paying, At
<1>3. doc.wallet = Credit
  BY DEF Init, NoMoney, Credit
<1> QED
  BY <1>2, <1>3 DEF Init, IdleCallback, WalletParts

LEMMA CreditType == TypeOK => Credit \in Int /\ sql.wallet \in Int /\ doc.wallet \in Int /\ history.paid \in Int
                             /\ history.completions \in Nat
BY DEF TypeOK, Credit, Accounts

LEMMA WalletOwn ==
  ASSUME NEW c \in Calls, \A d \in Calls \ { c } : ~InProgress(d) /\ calls'[d] = calls[d],
         job'.pc = "idle", WalletCall(c)', Copying(c)' \/ Paying(c)' \/ (doc.wallet = Credit)'
  PROVE  WalletParts'
<1>1. \A d \in Calls \ { c } : ~calls'[d].transaction /\ calls'[d].pc = "idle"
  BY DEF InProgress
<1>2. \A d \in Calls \ { c } : WalletCall(d)'
  BY <1>1 DEF WalletCall, Copying, Paying, At
<1> QED
  BY <1>1, <1>2 DEF WalletParts

\* An input that waits for quiet finds that rows and document agree.
LEMMA InputQuiet ==
  ASSUME TypeOK, scenario.pace = "quiet", CarryParts, NEW c \in Calls, NEW operation, NEW start,
         Input(c, operation, start)
  PROVE  /\ Carried /\ sql = doc
         /\ \A d \in Calls : ~InProgress(d) /\ calls[d].pc = "idle"
<1>1. Quiet
  BY DEF Input
<1>2. ~Owing /\ inbox = << >> /\ listener.pc = "idle"
  BY <1>1 DEF Quiet, Carried, Owing, OwingSteps, InProgress
<1>3. sql = doc
  BY <1>2 DEF CarryParts, RowsFollow, TypeOK, Accounts
<1> QED
  BY <1>1, <1>3 DEF Quiet, InProgress

LEMMA WalletBegin ==
  ASSUME TypeOK, TypeOK', WalletScope, CarryParts, WalletParts, NEW c \in Calls, Begin(c)
  PROVE  WalletParts'
<1>0. /\ \A pc \in { "create", "ping", "statsRead" } :
           LET r == [ IdleCall EXCEPT !.pc = pc ] IN r.pc = pc /\ ~r.transaction /\ ~r.adjusts
      /\ \A u : LET r == [ IdleCall EXCEPT !.pc = "read", !.update = u ] IN r.pc = "read" /\ ~r.transaction
      /\ LET r == [ IdleCall EXCEPT !.pc = "statsRead", !.adjusts = TRUE ]
         IN  r.pc = "statsRead" /\ ~r.transaction /\ r.adjusts
      /\ IdleCall.pc = "idle" /\ ~IdleCall.transaction
  BY DEF IdleCall
<1>1. ASSUME NEW operation, NEW start, Input(c, operation, start)
      PROVE  /\ Carried /\ sql = doc /\ doc.wallet = Credit /\ job'.pc = "idle"
             /\ UNCHANGED listener
             /\ \A d \in Calls \ { c } : ~InProgress(d) /\ calls'[d] = calls[d]
             /\ calls'[c] = start /\ operation \in scenario.operations
  <2>1. /\ Carried /\ sql = doc /\ \A d \in Calls : ~InProgress(d) /\ calls[d].pc = "idle"
    BY <1>1, InputQuiet DEF WalletScope
  <2>2. doc.wallet = Credit
    BY <2>1 DEF WalletParts, Copying, Paying
  <2> QED
    BY <1>1, <2>1, <2>2, InputFrame DEF WalletParts
<1>2. ASSUME NEW operation, NEW start, Input(c, operation, start), start.pc \in { "idle", "create", "read", "ping" },
             ~start.transaction, UNCHANGED doc, Credit' = Credit
      PROVE  WalletParts'
  <2>1. WalletCall(c)' /\ (doc.wallet = Credit)'
    BY <1>1, <1>2 DEF WalletCall, Copying, Paying, At
  <2> QED
    BY <1>1, <1>2, <2>1, WalletOwn
<1>3. CASE CreateRide(c)
  BY <1>0, <1>2, <1>3 DEF CreateRide, accounts, Credit
<1>4. CASE \E u \in Updates : UpdateRide(c, u)
  <2>1. PICK u \in Updates : UpdateRide(c, u)
    BY <1>4
  <2>2. Credit' = Credit
    BY <2>1 DEF UpdateRide, Credit, TypeOK
  <2> QED
    BY <1>0, <1>2, <2>1, <2>2 DEF UpdateRide, accounts
<1>5. CASE \E s \in RowStatuses : PatchRide(c, s)
  <2>1. PICK s \in RowStatuses : PatchRide(c, s)
    BY <1>5
  <2>2. Credit' = Credit
    BY <2>1 DEF PatchRide, Credit, TypeOK
  <2> QED
    BY <1>0, <1>2, <2>1, <2>2 DEF PatchRide, accounts
<1>6. CASE Ping(c)
  BY <1>0, <1>2, <1>6 DEF Ping, Credit
<1>7. CASE \E n \in { 1, -1 } : AdjustWallet(c, n)
  <2>1. PICK n \in { 1, -1 } : AdjustWallet(c, n)
    BY <1>7
  <2>2. /\ Input(c, "adjust", [ IdleCall EXCEPT !.pc = "statsRead", !.adjusts = TRUE ])
        /\ sql'.wallet = sql.wallet + n /\ history'.paid = history.paid + n
        /\ history'.completions = history.completions /\ UNCHANGED << doc, mirrors, inbox >>
    BY <2>1 DEF AdjustWallet, AddToWallet, TypeOK, Accounts
  <2>3. /\ calls'[c].pc = "statsRead" /\ ~calls'[c].transaction /\ calls'[c].adjusts
        /\ Carried /\ sql = doc /\ doc.wallet = Credit /\ UNCHANGED listener
    <3>1. calls'[c] = [ IdleCall EXCEPT !.pc = "statsRead", !.adjusts = TRUE ]
      BY <1>1, <2>2
    <3> QED
      BY <1>0, <1>1, <2>2, <3>1
  <2>4. sql'.wallet = Credit' /\ Carried'
    BY <2>2, <2>3, CreditType DEF Credit, Carried
  <2>5. WalletCall(c)' /\ Copying(c)'
    BY <2>3, <2>4 DEF WalletCall, Copying, Paying, At
  <2> QED
    BY <1>1, <2>2, <2>5, WalletOwn
<1>8. CASE UpdateProfile(c)
  <2>1. /\ Input(c, "profile", [ IdleCall EXCEPT !.pc = "statsRead" ])
        /\ sql'.wallet = sql.wallet /\ UNCHANGED << doc, inbox, history >>
    BY <1>8 DEF UpdateProfile, WriteProfile, TypeOK, Accounts
  <2>2. /\ calls'[c].pc = "statsRead" /\ ~calls'[c].transaction /\ ~calls'[c].adjusts
        /\ Carried /\ sql = doc /\ doc.wallet = Credit
    <3>1. calls'[c] = [ IdleCall EXCEPT !.pc = "statsRead" ]
      BY <1>1, <2>1
    <3> QED
      BY <1>0, <1>1, <2>1, <3>1
  <2>3. Len(inbox') = 0 /\ Credit' = Credit
    BY <2>1, <2>2 DEF Carried, Credit
  <2>4. WalletCall(c)' /\ Copying(c)'
    BY <2>1, <2>2, <2>3 DEF WalletCall, Copying, Paying, At
  <2> QED
    BY <1>1, <2>1, <2>4, WalletOwn
<1>9. CASE HandleDelivered(c) \/ SettleOrder(c) \/ \E n \in { 1, -1 } : SetWallet(c, n)
  BY <1>9 DEF HandleDelivered, SettleOrder, SetWallet, Input, WalletScope
<1> QED
  BY <1>3, <1>4, <1>5, <1>6, <1>7, <1>8, <1>9 DEF Begin

LEMMA WalletGoOn ==
  ASSUME TypeOK, TypeOK', WalletScope, RideParts, WalletParts, NEW c \in Calls, GoOn(c)
  PROVE  WalletParts'
<1>0. calls[c].pc # "idle" /\ UNCHANGED job
  BY DEF GoOn, CreateRow, ReadRide, CreditDoc, AddEntry, CreditUser, CreditProfile, WriteRow, WriteRide,
         EarnTrip, SetFields, PingDoc, ReadStats, WriteStats, At
<1>1. /\ RideCall(c) /\ WalletCall(c) /\ job'.pc = "idle"
      /\ \A d \in Calls \ { c } : ~InProgress(d) /\ calls[d].pc = "idle"
  BY <1>0 DEF RideParts, AtMostOne, InProgress, WalletParts
<1>2. ~Copying(c) /\ ~Paying(c) => doc.wallet = Credit
  BY <1>1 DEF WalletParts, Copying, Paying
<1>3. ASSUME NEW pc, Go(c, pc)
      PROVE  /\ calls'[c].pc = pc /\ ~calls'[c].transaction /\ calls'[c].update = calls[c].update
             /\ \A d \in Calls \ { c } : ~InProgress(d) /\ calls'[d] = calls[d]
  BY <1>1, <1>3, GoFrame DEF WalletCall
<1>4. ASSUME End(c)
      PROVE  /\ calls'[c].pc = "idle" /\ ~calls'[c].transaction
             /\ \A d \in Calls \ { c } : ~InProgress(d) /\ calls'[d] = calls[d]
  BY <1>1, <1>4, EndFrame
<1>5. CASE CreateRow(c) \/ PingDoc(c)
  <2>1. /\ End(c) /\ calls[c].pc \in { "create", "ping" } /\ Credit' = Credit /\ doc' = doc
    BY <1>5 DEF CreateRow, PingDoc, PutDoc, accounts, At, Credit
  <2>2. doc.wallet = Credit
    BY <1>2, <2>1 DEF Copying, Paying
  <2>3. WalletCall(c)' /\ (doc.wallet = Credit)'
    BY <1>4, <2>1, <2>2 DEF WalletCall, Copying, Paying, At
  <2> QED
    BY <1>1, <1>4, <2>1, <2>3, WalletOwn
<1>6. CASE ReadRide(c)
  <2>1. /\ calls[c].pc = "read" /\ UNCHANGED << ride, doc >> /\ Credit' = Credit
        /\ Go(c, "credit") \/ (Go(c, "row") /\ ~Due(c))
    BY <1>6 DEF ReadRide, accounts, At, Due, Credit
  <2>2. doc.wallet = Credit
    BY <1>2, <2>1 DEF Copying, Paying
  <2>3. calls'[c].pc \in { "credit", "row" } /\ ~Paying(c)' /\ ~calls'[c].transaction
    BY <1>3, <2>1 DEF Paying, Due, Pays
  <2>4. WalletCall(c)' /\ (doc.wallet = Credit)'
    BY <2>1, <2>2, <2>3 DEF WalletCall, Copying, At
  <2> QED
    BY <1>1, <1>3, <2>1, <2>4, WalletOwn
<1>7. CASE CreditDoc(c)
  <2>1. /\ calls[c].pc = "credit" /\ Go(c, "entry") /\ UNCHANGED ride /\ Credit' = Credit
        /\ doc'.wallet = doc.wallet + 1
    BY <1>7 DEF CreditDoc, PutDoc, At, Credit
  <2>2. doc.wallet = Credit /\ Due(c)
    BY <1>1, <1>2, <2>1 DEF Copying, Paying, RideCall
  <2>3. calls'[c].pc = "entry" /\ Due(c)' /\ ~calls'[c].transaction
    BY <1>3, <2>1, <2>2 DEF Due, Pays
  <2>4. WalletCall(c)' /\ Paying(c)'
    BY <2>1, <2>2, <2>3 DEF WalletCall, Copying, Paying, At
  <2> QED
    BY <1>1, <1>3, <2>1, <2>4, WalletOwn
<1>8. CASE AddEntry(c) \/ CreditUser(c) \/ CreditProfile(c) \/ WriteRow(c)
  <2>1. /\ calls[c].pc \in { "entry", "wallet", "trips", "row" }
        /\ \E pc \in { "wallet", "trips", "row", "doc" } : Go(c, pc)
        /\ ride'.status = ride.status /\ ride'.driver = ride.driver /\ UNCHANGED doc /\ Credit' = Credit
    BY <1>8 DEF AddEntry, CreditUser, CreditProfile, WriteRow, accounts, At, Credit, TypeOK
  <2>2. /\ calls'[c].pc \in { "wallet", "trips", "row", "doc" } /\ ~calls'[c].transaction
        /\ Due(c)' <=> Due(c)
        /\ \A d \in Calls \ { c } : ~InProgress(d) /\ calls'[d] = calls[d]
    BY <1>3, <2>1 DEF Due, Pays
  <2>3. (Paying(c)' <=> Paying(c)) /\ ~Copying(c) /\ ~Copying(c)'
    BY <2>1, <2>2 DEF Paying, Copying
  <2>4. WalletCall(c)' /\ (Paying(c)' \/ (doc.wallet = Credit)')
    BY <1>1, <1>2, <2>1, <2>2, <2>3 DEF WalletCall, At
  <2> QED
    BY <1>1, <2>2, <2>4, WalletOwn
<1>9. CASE WriteRide(c)
  <2>1. /\ calls[c].pc = "doc" /\ End(c) /\ UNCHANGED doc /\ history'.paid = history.paid
        /\ history'.completions = history.completions + (IF Due(c) THEN 1 ELSE 0)
    <3>1. history.completions \in Nat
      BY CreditType
    <3> QED
      BY <1>9, <3>1 DEF WriteRide, accounts, At, Completes, Due, Pays, TypeOK
  <2>2. doc.wallet = Credit + (IF Due(c) THEN 1 ELSE 0)
    BY <1>1, <1>2, <2>1, CreditType DEF WalletCall, Copying, Paying
  <2>3. (doc.wallet = Credit)'
    BY <2>1, <2>2, CreditType DEF Credit
  <2>4. WalletCall(c)'
    BY <1>4, <2>1 DEF WalletCall, Copying, Paying, At
  <2> QED
    BY <1>1, <1>4, <2>1, <2>3, <2>4, WalletOwn
<1>10. CASE ReadStats(c)
  <2>1. /\ calls[c].pc = "statsRead" /\ UNCHANGED << sql, doc, mirrors, inbox, listener >> /\ Credit' = Credit
    BY <1>10 DEF ReadStats, accounts, At, Credit
  <2>2. /\ calls'[c].pc = "statsWrite" /\ calls'[c].stats = sql /\ ~calls'[c].transaction
        /\ calls'[c].adjusts = calls[c].adjusts
        /\ \A d \in Calls \ { c } : ~InProgress(d) /\ calls'[d] = calls[d]
    BY <1>1, <1>10, ReadStatsFrame DEF WalletCall
  <2>3. WalletCall(c)' /\ Copying(c)'
    BY <1>1, <2>1, <2>2 DEF WalletCall, Copying, Paying, At, Carried
  <2> QED
    BY <1>1, <2>2, <2>3, WalletOwn
<1>11. CASE WriteStats(c)
  <2>1. /\ calls[c].pc = "statsWrite" /\ Credit' = Credit
        /\ doc'.wallet = calls[c].stats.wallet
    BY <1>11 DEF WriteStats, PutDoc, At, Credit, TypeOK, Accounts
  <2>2. /\ calls'[c].pc = "idle" /\ ~calls'[c].transaction
        /\ \A d \in Calls \ { c } : ~InProgress(d) /\ calls'[d] = calls[d]
    BY <1>1, <1>11, WriteStatsFrame DEF WalletCall
  <2>3. calls[c].stats.wallet = Credit
    BY <1>1, <2>1 DEF WalletCall, Copying, At
  <2>4. WalletCall(c)' /\ (doc.wallet = Credit)'
    BY <2>1, <2>2, <2>3 DEF WalletCall, Copying, Paying, At
  <2> QED
    BY <1>1, <2>2, <2>4, WalletOwn
<1>12. CASE EarnTrip(c) \/ SetFields(c)
  BY <1>1, <1>12 DEF WalletCall, EarnTrip, SetFields
<1> QED
  BY <1>5, <1>6, <1>7, <1>8, <1>9, <1>10, <1>11, <1>12 DEF GoOn

LEMMA WalletCarries ==
  ASSUME TypeOK, TypeOK', WalletScope, WalletParts, Carries
  PROVE  WalletParts'
<1>1. Mirrored \/ SyncDriverUser \/ SyncDriverProfile
  BY DEF Carries, Commit, WalletParts, WalletCall, SyncDriver, Job, JobRead, JobUser, JobProfile, WalletScope
<1>2. /\ UNCHANGED << job, calls, ride, history >> /\ ~Carried /\ doc'.wallet = doc.wallet
  <2>1. UNCHANGED << job, calls, ride, history >>
    BY <1>1 DEF Mirrored, MirrorTrips, SyncDriverUser, SyncDriverProfile
  <2>2. ~Carried
    BY <1>1, BagEmpty DEF Mirrored, SyncDriverUser, SyncDriverProfile, Carried
  <2>3. doc'.wallet = doc.wallet
    BY <1>1 DEF Mirrored, MirrorTrips, PutDoc, SyncDriverUser, SyncDriverProfile, TypeOK, Accounts
  <2> QED
    BY <2>1, <2>2, <2>3
<1>3. Credit' = Credit /\ \A c \in Calls : (Copying(c)' <=> Copying(c)) /\ (Paying(c)' <=> Paying(c))
  BY <1>2 DEF Credit, Copying, Paying, Due, Pays
<1>4. ASSUME NEW c \in Calls, Copying(c)
      PROVE  /\ ~calls[c].adjusts /\ sql'.wallet = Credit /\ doc.wallet = Credit
             /\ \A i \in 1 .. Len(inbox') : inbox'[i].wallet = Credit
  <2>1. /\ ~calls[c].adjusts /\ sql.wallet = Credit /\ doc.wallet = Credit /\ inbox \in Seq(Accounts)
        /\ \A i \in 1 .. Len(inbox) : inbox[i].wallet = Credit
    BY <1>2, <1>4 DEF WalletParts, WalletCall, TypeOK
  <2>2. CASE Mirrored
    <3>1. PICK trips \in BagToSet(mirrors) : MirrorTrips(trips)
      BY <2>2 DEF Mirrored
    <3>2. /\ UNCHANGED sql /\ inbox' = Append(inbox, [ doc EXCEPT !.trips = trips ])
          /\ [ doc EXCEPT !.trips = trips ] \in Accounts /\ [ doc EXCEPT !.trips = trips ].wallet = doc.wallet
      BY <3>1 DEF MirrorTrips, PutDoc, TypeOK, Accounts
    <3> QED
      BY <2>1, <3>2, AppendLast
  <2>3. CASE SyncDriverUser
    <3>1. inbox # << >> /\ inbox' = Tail(inbox) /\ sql'.wallet = Head(inbox).wallet
      BY <2>3 DEF SyncDriverUser, WalletFrom, TypeOK, Accounts
    <3> QED
      BY <2>1, <3>1, TailLast
  <2>4. CASE SyncDriverProfile
    BY <2>1, <2>4 DEF SyncDriverProfile, TripsFrom, TypeOK, Accounts
  <2> QED
    BY <1>1, <2>1, <2>2, <2>3, <2>4
<1>5. ASSUME NEW c \in Calls PROVE WalletCall(c)'
  <2>1. WalletCall(c)
    BY DEF WalletParts
  <2> QED
    BY <1>2, <1>3, <1>4, <2>1 DEF WalletCall, At
<1> QED
  BY <1>2, <1>3, <1>5 DEF WalletParts

LEMMA WalletInductive ==
  ASSUME TypeOK, TypeOK', CarryInv, RideInv, WalletInv, [Next]_vars PROVE WalletInv'
<1> SUFFICES ASSUME WalletScope' PROVE WalletParts'
  BY DEF WalletInv
<1>1. /\ (\E c \in Calls : Begin(c) \/ GoOn(c)) \/ Carries \/ UNCHANGED vars
      /\ WalletScope /\ CarryParts /\ RideParts /\ WalletParts
  BY NoFaults, ScenarioStays DEF WalletScope, WalletInv, CarryInv, RideInv
<1>2. UNCHANGED vars => WalletParts'
  BY <1>1 DEF vars, WalletParts, WalletCall, Copying, Paying, Due, Pays, Credit, Carried, At
<1> QED
  BY <1>1, <1>2, WalletBegin, WalletGoOn, WalletCarries

\* What is on its way from one side to the other.
Versions(n) ==
  /\ \A i \in 1 .. Len(inbox) : inbox[i].trips >= n
  /\ listener.pc = "profile" => listener.version.trips >= n

Floating(n) == Versions(n) /\ sql.trips >= n /\ \A t \in BagToSet(mirrors) : t >= n

Made == history.trips

\* A trip is in the document, or on its way there with nothing behind it that would take it
\* back: a ride counts it in the document first, a settlement in the row.
TripsCall(c) ==
  /\ ~ calls[c].transaction
  /\ calls[c].pc \in { "read", "credit", "earn" } => Carried
  /\ At(c, "earn") => sql.trips >= Made - 1 /\ ~ calls[c].adjusts
  /\ Copying(c) =>
       /\ Floating(Made)
       /\ At(c, "statsWrite") => calls[c].stats.trips >= Made
       /\ calls[c].adjusts => doc.trips >= Made
  /\ Paying(c) /\ calls[c].pc \in { "entry", "wallet", "trips" } =>
       sql.trips >= Made /\ doc.trips >= Made + 1 /\ mirrors = EmptyBag /\ Versions(Made + 1)
  /\ Paying(c) /\ calls[c].pc \in { "row", "doc" } => Floating(Made + 1) /\ doc.trips >= Made + 1

TripsRest == Floating(Made) /\ doc.trips >= Made

Counting(c) == Copying(c) \/ Paying(c) \/ At(c, "earn")

TripsParts ==
  /\ job.pc = "idle"
  /\ \A c \in Calls : TripsCall(c)
  /\ (\A c \in Calls : ~ Counting(c)) => TripsRest

TripsScope ==
  /\ scenario.pace = "quiet" /\ faults = 0
  /\ scenario.operations \cap { "settled", "jobs" } = {}

TripsInv == TripsScope => TripsParts

LEMMA TripsInit == Init => TripsInv
<1> SUFFICES ASSUME Init PROVE TripsParts
  BY DEF TripsInv
<1>1. \A c \in Calls : calls[c] = IdleCall /\ IdleCall.pc = "idle" /\ ~IdleCall.transaction
  BY DEF Init, IdleCall
<1>2. \A c \in Calls : TripsCall(c)
  BY <1>1 DEF TripsCall, Copying, Paying, At
<1>3. TripsRest
  BY BagEmpty DEF Init, NoMoney, IdleCallback, TripsRest, Floating, Versions, Made
<1> QED
  BY <1>2, <1>3 DEF Init, IdleCallback, TripsParts

LEMMA MadeType ==
  TypeOK => /\ Made \in Nat /\ sql.trips \in Nat /\ doc.trips \in Nat /\ BagToSet(mirrors) \subseteq Nat
            /\ inbox \in Seq(Accounts) /\ listener.version.trips \in Nat
            /\ \A i \in 1 .. Len(inbox) : inbox[i].trips \in Nat
<1> SUFFICES ASSUME TypeOK PROVE \A i \in 1 .. Len(inbox) : inbox[i].trips \in Nat
  BY DEF TypeOK, Made, Accounts, Callbacks
<1>1. \A i \in 1 .. Len(inbox) : inbox[i] \in Accounts
  BY DEF TypeOK
<1> QED
  BY <1>1 DEF Accounts

LEMMA TripsOwn ==
  ASSUME NEW c \in Calls, \A d \in Calls \ { c } : ~InProgress(d) /\ calls'[d] = calls[d],
         job'.pc = "idle", TripsCall(c)', Counting(c)' \/ TripsRest'
  PROVE  TripsParts'
<1>1. \A d \in Calls \ { c } : ~calls'[d].transaction /\ calls'[d].pc = "idle"
  BY DEF InProgress
<1>2. \A d \in Calls \ { c } : TripsCall(d)'
  BY <1>1 DEF TripsCall, Copying, Paying, At
<1> QED
  BY <1>1, <1>2 DEF TripsParts

\* A version that is written joins those on their way.
LEMMA VersionPut ==
  ASSUME TypeOK, NEW n \in Int, Versions(n), NEW value \in Accounts, PutDoc(value), value.trips >= n,
         UNCHANGED listener
  PROVE  Versions(n)' /\ doc'.trips >= n
<1>1. inbox \in Seq(Accounts) /\ inbox' = Append(inbox, value) /\ doc' = value
  BY DEF TypeOK, PutDoc
<1>2. \A i \in 1 .. Len(inbox') : inbox'[i].trips >= n
  BY <1>1, AppendLast DEF Versions
<1> QED
  BY <1>1, <1>2 DEF Versions

\* A write of the profile joins its mirror to those to come.
LEMMA ProfileWritten ==
  ASSUME TypeOK, NEW n \in Int, NEW trips \in Nat, WriteProfile(trips), trips >= n,
         \A t \in BagToSet(mirrors) : t >= n
  PROVE  sql'.trips >= n /\ sql'.wallet = sql.wallet /\ \A t \in BagToSet(mirrors') : t >= n
<1>1. sql'.trips = trips /\ sql'.wallet = sql.wallet /\ mirrors' = mirrors (+) SetToBag({ trips })
  BY DEF WriteProfile, TypeOK, Accounts
<1>2. BagToSet(mirrors') = BagToSet(mirrors) \cup { trips }
  BY <1>1, BagWith
<1> QED
  BY <1>1, <1>2

LEMMA CarriedVersions == ASSUME Carried, NEW n PROVE Versions(n) /\ \A t \in BagToSet(mirrors) : t >= n
<1>1. Len(inbox) = 0
  BY DEF Carried
<1> QED
  BY <1>1, BagEmpty DEF Carried, Versions

LEMMA TripsBegin ==
  ASSUME TypeOK, TypeOK', TripsScope, CarryParts, TripsParts, NEW c \in Calls, Begin(c)
  PROVE  TripsParts'
<1>0. /\ \A pc \in { "create", "earn", "fields", "ping", "statsRead" } :
           LET r == [ IdleCall EXCEPT !.pc = pc ] IN r.pc = pc /\ ~r.transaction /\ ~r.adjusts
      /\ \A u : LET r == [ IdleCall EXCEPT !.pc = "read", !.update = u ] IN r.pc = "read" /\ ~r.transaction
      /\ LET r == [ IdleCall EXCEPT !.pc = "statsRead", !.adjusts = TRUE ] IN r.pc = "statsRead" /\ ~r.transaction
      /\ IdleCall.pc = "idle" /\ ~IdleCall.transaction
  BY DEF IdleCall
<1>1. ASSUME NEW operation, NEW start, Input(c, operation, start)
      PROVE  /\ Carried /\ sql = doc /\ TripsRest /\ job'.pc = "idle"
             /\ UNCHANGED listener
             /\ \A d \in Calls \ { c } : ~InProgress(d) /\ calls'[d] = calls[d]
             /\ calls'[c] = start /\ operation \in scenario.operations
  <2>1. /\ Carried /\ sql = doc /\ \A d \in Calls : ~InProgress(d) /\ calls[d].pc = "idle"
    BY <1>1, InputQuiet DEF TripsScope
  <2>2. TripsRest
    BY <2>1 DEF TripsParts, Counting, Copying, Paying, At
  <2> QED
    BY <1>1, <2>1, <2>2, InputFrame DEF TripsParts
<1>2. ASSUME NEW operation, NEW start, Input(c, operation, start), ~start.transaction,
             start.pc \in { "idle", "create", "read", "fields", "statsRead" },
             sql'.trips = sql.trips, UNCHANGED << doc, mirrors, inbox >>, history'.trips = history.trips
      PROVE  TripsParts'
  <2>1. TripsRest /\ Carried /\ UNCHANGED listener /\ calls'[c] = start
    BY <1>1, <1>2
  <2>2. TripsRest' /\ Carried'
    BY <1>2, <2>1 DEF TripsRest, Floating, Versions, Made, Carried
  <2>3. TripsCall(c)'
    BY <1>2, <2>1, <2>2 DEF TripsCall, TripsRest, Copying, Paying, At
  <2> QED
    BY <1>1, <1>2, <2>2, <2>3, TripsOwn
<1>3. CASE CreateRide(c)
  BY <1>0, <1>2, <1>3 DEF CreateRide, accounts
<1>4. CASE \E u \in Updates : UpdateRide(c, u)
  <2>1. PICK u \in Updates : UpdateRide(c, u)
    BY <1>4
  <2>2. history'.trips = history.trips
    BY <2>1 DEF UpdateRide, TypeOK
  <2> QED
    BY <1>0, <1>2, <2>1, <2>2 DEF UpdateRide, accounts
<1>5. CASE \E s \in RowStatuses : PatchRide(c, s)
  <2>1. PICK s \in RowStatuses : PatchRide(c, s)
    BY <1>5
  <2>2. history'.trips = history.trips
    BY <2>1 DEF PatchRide, TypeOK
  <2> QED
    BY <1>0, <1>2, <2>1, <2>2 DEF PatchRide, accounts
<1>6. CASE \E n \in { 1, -1 } : AdjustWallet(c, n)
  <2>1. PICK n \in { 1, -1 } : AdjustWallet(c, n)
    BY <1>6
  <2>2. /\ Input(c, "adjust", [ IdleCall EXCEPT !.pc = "statsRead", !.adjusts = TRUE ])
        /\ sql'.trips = sql.trips /\ history'.trips = history.trips /\ UNCHANGED << doc, mirrors, inbox >>
    BY <2>1 DEF AdjustWallet, AddToWallet, TypeOK, Accounts
  <2> QED
    BY <1>0, <1>2, <2>2
<1>7. CASE HandleDelivered(c)
  <2>1. /\ Input(c, "delivered", [ IdleCall EXCEPT !.pc = "earn" ]) /\ Made' = Made + 1
        /\ sql'.trips = sql.trips /\ UNCHANGED << doc, mirrors, inbox >>
    BY <1>7 DEF HandleDelivered, AddToWallet, TypeOK, Accounts, Made
  <2>2. /\ calls'[c].pc = "earn" /\ ~calls'[c].transaction /\ ~calls'[c].adjusts
        /\ Carried /\ TripsRest /\ UNCHANGED listener
    <3>1. calls'[c] = [ IdleCall EXCEPT !.pc = "earn" ]
      BY <1>1, <2>1
    <3> QED
      BY <1>0, <1>1, <2>1, <3>1
  <2>3. Carried' /\ sql'.trips >= Made' - 1
    BY <2>1, <2>2, MadeType DEF Carried, TripsRest, Floating
  <2>4. TripsCall(c)' /\ Counting(c)'
    BY <2>2, <2>3 DEF TripsCall, Counting, Copying, Paying, At
  <2> QED
    BY <1>1, <2>1, <2>4, TripsOwn
<1>8. CASE UpdateProfile(c) \/ Ping(c)
  <2>1. PICK start : /\ start = [ IdleCall EXCEPT !.pc = "statsRead" ] \/ start = [ IdleCall EXCEPT !.pc = "ping" ]
                     /\ \E operation : Input(c, operation, start)
    BY <1>8 DEF UpdateProfile, Ping
  <2>2. WriteProfile(sql.trips) /\ UNCHANGED << doc, inbox, history >>
    BY <1>8 DEF UpdateProfile, Ping
  <2>3. start.pc \in { "statsRead", "ping" } /\ ~start.transaction
    BY <1>0, <2>1
  <2>4. TripsRest /\ UNCHANGED listener /\ calls'[c] = start
    BY <1>1, <2>1
  <2>5. PICK n \in Nat : n = Made
    BY MadeType
  <2>6. sql'.trips >= n /\ \A t \in BagToSet(mirrors') : t >= n
    BY <2>2, <2>4, <2>5, MadeType, ProfileWritten DEF TripsRest, Floating
  <2>7. TripsRest'
    BY <2>2, <2>4, <2>5, <2>6 DEF TripsRest, Floating, Versions, Made
  <2>8. TripsCall(c)'
    BY <2>3, <2>4, <2>7 DEF TripsCall, TripsRest, Copying, Paying, At
  <2> QED
    BY <1>1, <2>1, <2>7, <2>8, TripsOwn
<1>9. CASE SettleOrder(c)
  BY <1>9 DEF SettleOrder, Input, TripsScope
<1>10. CASE \E n \in { 1, -1 } : SetWallet(c, n)
  <2>1. PICK n \in { 1, -1 } : SetWallet(c, n)
    BY <1>10
  <2>2. PICK pc \in { "fields", "statsRead" } : Input(c, "setwallet", [ IdleCall EXCEPT !.pc = pc ])
    BY <2>1 DEF SetWallet
  <2>3. sql'.trips = sql.trips /\ history'.trips = history.trips /\ UNCHANGED << doc, mirrors, inbox >>
    BY <2>1 DEF SetWallet, AddToWallet, TypeOK, Accounts
  <2> QED
    BY <1>0, <1>2, <2>2, <2>3
<1> QED
  BY <1>3, <1>4, <1>5, <1>6, <1>7, <1>8, <1>9, <1>10 DEF Begin

LEMMA TripsGoOn ==
  ASSUME TypeOK, TypeOK', TripsScope, RideParts, TripsParts, NEW c \in Calls, GoOn(c)
  PROVE  TripsParts'
<1>0. calls[c].pc # "idle" /\ UNCHANGED << job, listener >>
  BY DEF GoOn, CreateRow, ReadRide, CreditDoc, AddEntry, CreditUser, CreditProfile, WriteRow, WriteRide,
         EarnTrip, SetFields, PingDoc, ReadStats, WriteStats, At
<1>1. /\ RideCall(c) /\ TripsCall(c) /\ job'.pc = "idle"
      /\ \A d \in Calls \ { c } : ~InProgress(d) /\ calls[d].pc = "idle"
  BY <1>0 DEF RideParts, AtMostOne, InProgress, TripsParts
<1>2. ~Counting(c) => TripsRest
  BY <1>1 DEF TripsParts, Counting, Copying, Paying, At
<1>3. ASSUME NEW pc, Go(c, pc)
      PROVE  /\ calls'[c].pc = pc /\ ~calls'[c].transaction /\ calls'[c].update = calls[c].update
             /\ calls'[c].adjusts = calls[c].adjusts
             /\ \A d \in Calls \ { c } : ~InProgress(d) /\ calls'[d] = calls[d]
  BY <1>1, <1>3, GoFrame DEF TripsCall
<1>4. ASSUME End(c)
      PROVE  /\ calls'[c].pc = "idle" /\ ~calls'[c].transaction
             /\ \A d \in Calls \ { c } : ~InProgress(d) /\ calls'[d] = calls[d]
  BY <1>1, <1>4, EndFrame
<1>n. PICK n \in Nat : n = Made
  BY MadeType
<1>5. CASE CreateRow(c)
  <2>1. /\ End(c) /\ calls[c].pc = "create" /\ UNCHANGED << sql, doc, mirrors, inbox >> /\ Made' = Made
    BY <1>5 DEF CreateRow, accounts, At, Made
  <2>2. TripsRest'
    BY <1>0, <1>2, <2>1 DEF Counting, Copying, Paying, At, TripsRest, Floating, Versions
  <2>3. TripsCall(c)'
    BY <1>4, <2>1 DEF TripsCall, Copying, Paying, At
  <2> QED
    BY <1>1, <1>4, <2>1, <2>2, <2>3, TripsOwn
<1>6. CASE PingDoc(c)
  <2>1. /\ End(c) /\ calls[c].pc = "ping" /\ UNCHANGED << sql, mirrors >> /\ Made' = Made /\ PutDoc(doc)
        /\ doc \in Accounts
    BY <1>6 DEF PingDoc, At, Made, TypeOK
  <2>2. TripsRest
    BY <1>2, <2>1 DEF Counting, Copying, Paying, At
  <2>3. Versions(n)' /\ doc'.trips >= n
    BY <1>0, <1>n, <2>1, <2>2, VersionPut DEF TripsRest, Floating
  <2>4. TripsRest'
    BY <1>n, <2>1, <2>2, <2>3 DEF TripsRest, Floating, Versions
  <2>5. TripsCall(c)'
    BY <1>4, <2>1 DEF TripsCall, Copying, Paying, At
  <2> QED
    BY <1>1, <1>4, <2>1, <2>4, <2>5, TripsOwn
<1>7. CASE ReadRide(c)
  <2>1. /\ calls[c].pc = "read" /\ UNCHANGED << ride, sql, doc, mirrors, inbox >> /\ Made' = Made
        /\ Go(c, "credit") \/ (Go(c, "row") /\ ~Due(c))
    BY <1>7 DEF ReadRide, accounts, At, Due, Made
  <2>2. TripsRest /\ Carried
    BY <1>1, <1>2, <2>1 DEF Counting, Copying, Paying, At, TripsCall
  <2>3. calls'[c].pc \in { "credit", "row" } /\ ~Paying(c)' /\ ~calls'[c].transaction
    BY <1>3, <2>1 DEF Paying, Due, Pays
  <2>4. TripsRest' /\ Carried'
    BY <1>0, <2>1, <2>2 DEF TripsRest, Floating, Versions, Carried
  <2>5. TripsCall(c)'
    BY <2>3, <2>4 DEF TripsCall, Copying, At
  <2> QED
    BY <1>1, <1>3, <2>1, <2>4, <2>5, TripsOwn
<1>8. CASE CreditDoc(c)
  <2>1. /\ calls[c].pc = "credit" /\ Go(c, "entry") /\ UNCHANGED << ride, sql, mirrors >> /\ Made' = Made
        /\ PutDoc([ wallet |-> doc.wallet + 1, trips |-> doc.trips + 1 ])
        /\ [ wallet |-> doc.wallet + 1, trips |-> doc.trips + 1 ] \in Accounts
    BY <1>8 DEF CreditDoc, At, Made, TypeOK, Accounts
  <2>2. TripsRest /\ Carried /\ Due(c)
    BY <1>1, <1>2, <2>1 DEF Counting, Copying, Paying, At, TripsCall, RideCall
  <2>3. calls'[c].pc = "entry" /\ Due(c)' /\ ~calls'[c].transaction
    BY <1>3, <2>1, <2>2 DEF Due, Pays
  <2>4. Versions(n + 1)
    BY <2>2, CarriedVersions
  <2>5. Versions(n + 1)' /\ doc'.trips >= n + 1
    BY <1>0, <1>n, <2>1, <2>2, <2>4, VersionPut, MadeType DEF TripsRest
  <2>6. sql'.trips >= Made' /\ mirrors' = EmptyBag /\ doc'.trips >= Made' + 1 /\ Versions(Made + 1)'
    BY <1>n, <2>1, <2>2, <2>5 DEF TripsRest, Floating, Carried, Versions
  <2>7. TripsCall(c)' /\ Counting(c)'
    BY <2>3, <2>6 DEF TripsCall, Copying, Paying, Counting, At
  <2> QED
    BY <1>1, <1>3, <2>1, <2>7, TripsOwn
<1>9. CASE AddEntry(c) \/ CreditUser(c) \/ WriteRow(c)
  <2>1. /\ \/ calls[c].pc \in { "entry", "wallet" } /\ (Go(c, "wallet") \/ Go(c, "trips"))
           \/ calls[c].pc = "row" /\ Go(c, "doc")
        /\ ride'.status = ride.status /\ ride'.driver = ride.driver /\ UNCHANGED << doc, mirrors, inbox >>
        /\ sql'.trips = sql.trips /\ Made' = Made
    BY <1>9 DEF AddEntry, CreditUser, WriteRow, AddToWallet, accounts, At, Made, TypeOK, Accounts
  <2>2. /\ \/ calls[c].pc \in { "entry", "wallet" } /\ calls'[c].pc \in { "wallet", "trips" }
           \/ calls[c].pc = "row" /\ calls'[c].pc = "doc"
        /\ ~calls'[c].transaction /\ (Due(c)' <=> Due(c))
        /\ \A d \in Calls \ { c } : ~InProgress(d) /\ calls'[d] = calls[d]
    BY <1>3, <2>1 DEF Due, Pays
  <2>3. (Paying(c)' <=> Paying(c)) /\ ~Copying(c) /\ ~Copying(c)'
    BY <2>2 DEF Paying, Copying
  <2>4. /\ Versions(Made + 1) => Versions(Made + 1)'
        /\ Floating(Made + 1) => Floating(Made + 1)'
        /\ TripsRest => TripsRest'
    BY <1>0, <2>1 DEF Versions, Floating, TripsRest
  <2>5. TripsCall(c)'
    BY <1>1, <2>1, <2>2, <2>3, <2>4 DEF TripsCall, Paying, At
  <2>6. Counting(c)' \/ TripsRest'
    BY <1>2, <2>2, <2>3, <2>4 DEF Counting, At
  <2> QED
    BY <1>1, <2>2, <2>5, <2>6, TripsOwn
<1>10. CASE CreditProfile(c)
  <2>1. /\ calls[c].pc = "trips" /\ Go(c, "row") /\ WriteProfile(sql.trips + 1) /\ UNCHANGED << ride, doc, inbox >>
        /\ Made' = Made
    BY <1>10 DEF CreditProfile, At, Made
  <2>2. Due(c)
    BY <1>1, <2>1 DEF RideCall
  <2>3. /\ sql.trips >= Made /\ doc.trips >= Made + 1 /\ mirrors = EmptyBag /\ Versions(Made + 1)
    BY <1>1, <2>1, <2>2 DEF TripsCall, Paying
  <2>4. sql'.trips >= n + 1 /\ \A t \in BagToSet(mirrors') : t >= n + 1
    <3>1. sql.trips + 1 \in Nat /\ sql.trips + 1 >= n + 1 /\ n + 1 \in Int
      BY <1>n, <2>3, MadeType
    <3> QED
      BY <2>1, <2>3, <3>1, BagEmpty, ProfileWritten
  <2>5. Floating(Made + 1)' /\ doc'.trips >= Made' + 1
    BY <1>0, <1>n, <2>1, <2>3, <2>4 DEF Floating, Versions
  <2>6. calls'[c].pc = "row" /\ Due(c)' /\ ~calls'[c].transaction
    BY <1>3, <2>1, <2>2 DEF Due, Pays
  <2>7. TripsCall(c)' /\ Counting(c)'
    BY <2>5, <2>6 DEF TripsCall, Copying, Paying, Counting, At
  <2> QED
    BY <1>1, <1>3, <2>1, <2>7, TripsOwn
<1>11. CASE WriteRide(c)
  <2>1. /\ calls[c].pc = "doc" /\ End(c) /\ UNCHANGED << sql, doc, mirrors, inbox >>
        /\ Made' = Made + (IF Due(c) THEN 1 ELSE 0)
    BY <1>11, MadeType DEF WriteRide, accounts, At, Completes, Due, Pays, TypeOK, Made
  <2>2. TripsRest'
    <3>1. CASE Due(c)
      <4>1. Floating(Made + 1) /\ doc.trips >= Made + 1
        BY <1>1, <2>1, <3>1 DEF TripsCall, Paying
      <4> QED
        BY <1>0, <2>1, <3>1, <4>1 DEF TripsRest, Floating, Versions
    <3>2. CASE ~Due(c)
      <4>1. TripsRest /\ Made' = Made
        BY <1>2, <2>1, <3>2, MadeType DEF Counting, Copying, Paying, At
      <4> QED
        BY <1>0, <2>1, <4>1 DEF TripsRest, Floating, Versions
    <3> QED
      BY <3>1, <3>2
  <2>3. TripsCall(c)'
    BY <1>4, <2>1 DEF TripsCall, Copying, Paying, At
  <2> QED
    BY <1>1, <1>4, <2>1, <2>2, <2>3, TripsOwn
<1>12. CASE EarnTrip(c)
  <2>1. /\ calls[c].pc = "earn" /\ Go(c, "statsRead") /\ WriteProfile(sql.trips + 1) /\ UNCHANGED << doc, inbox >>
        /\ Made' = Made
    BY <1>12 DEF EarnTrip, At, Made
  <2>2. Carried /\ sql.trips >= Made - 1 /\ ~calls[c].adjusts
    BY <1>1, <2>1 DEF TripsCall, At
  <2>3. Versions(n) /\ \A t \in BagToSet(mirrors) : t >= n
    BY <2>2, CarriedVersions
  <2>4. sql'.trips >= n /\ \A t \in BagToSet(mirrors') : t >= n
    <3>1. sql.trips + 1 \in Nat /\ sql.trips + 1 >= n
      BY <1>n, <2>2, MadeType
    <3> QED
      BY <2>1, <2>3, <3>1, ProfileWritten
  <2>5. Floating(Made)'
    BY <1>0, <1>n, <2>1, <2>3, <2>4 DEF Floating, Versions
  <2>6. calls'[c].pc = "statsRead" /\ ~calls'[c].adjusts /\ ~calls'[c].transaction
    BY <1>3, <2>1, <2>2
  <2>7. TripsCall(c)' /\ Counting(c)'
    BY <2>5, <2>6 DEF TripsCall, Copying, Paying, Counting, At
  <2> QED
    BY <1>1, <1>3, <2>1, <2>7, TripsOwn
<1>13. CASE ReadStats(c)
  <2>1. /\ calls[c].pc = "statsRead" /\ UNCHANGED << sql, doc, mirrors, inbox >> /\ Made' = Made
    BY <1>13 DEF ReadStats, accounts, At, Made
  <2>2. /\ calls'[c].pc = "statsWrite" /\ calls'[c].stats = sql /\ ~calls'[c].transaction
        /\ calls'[c].adjusts = calls[c].adjusts
        /\ \A d \in Calls \ { c } : ~InProgress(d) /\ calls'[d] = calls[d]
    BY <1>1, <1>13, ReadStatsFrame DEF TripsCall
  <2>3. Floating(Made) /\ (calls[c].adjusts => doc.trips >= Made)
    BY <1>1, <2>1 DEF TripsCall, Copying
  <2>4. Floating(Made)' /\ sql.trips >= Made
    BY <1>0, <2>1, <2>3 DEF Floating, Versions
  <2>5. TripsCall(c)' /\ Counting(c)'
    BY <2>1, <2>2, <2>3, <2>4 DEF TripsCall, Copying, Paying, Counting, At
  <2> QED
    BY <1>1, <2>2, <2>5, TripsOwn
<1>14. CASE WriteStats(c)
  <2>1. /\ calls[c].pc = "statsWrite" /\ Made' = Made /\ UNCHANGED << sql, mirrors >>
        /\ calls[c].stats \in Accounts
    BY <1>14 DEF WriteStats, At, Made, TypeOK, CallStates
  <2>2. /\ Floating(Made) /\ calls[c].stats.trips >= Made /\ (calls[c].adjusts => doc.trips >= Made)
    BY <1>1, <2>1 DEF TripsCall, Copying, At
  <2>3. PICK value \in Accounts : PutDoc(value) /\ value.trips >= n
    <3>1. CASE calls[c].adjusts
      <4>1. /\ [ doc EXCEPT !.wallet = calls[c].stats.wallet ] \in Accounts
            /\ [ doc EXCEPT !.wallet = calls[c].stats.wallet ].trips = doc.trips
        BY <2>1 DEF TypeOK, Accounts
      <4> QED
        BY <1>n, <1>14, <2>2, <3>1, <4>1 DEF WriteStats
    <3>2. CASE ~calls[c].adjusts
      BY <1>n, <1>14, <2>1, <2>2, <3>2 DEF WriteStats
    <3> QED
      BY <3>1, <3>2
  <2>4. Versions(n)' /\ doc'.trips >= n
    BY <1>0, <1>n, <2>2, <2>3, VersionPut DEF Floating
  <2>5. TripsRest'
    BY <1>n, <2>1, <2>2, <2>4 DEF TripsRest, Floating, Versions
  <2>6. /\ calls'[c].pc = "idle" /\ ~calls'[c].transaction
        /\ \A d \in Calls \ { c } : ~InProgress(d) /\ calls'[d] = calls[d]
    BY <1>1, <1>14, WriteStatsFrame DEF TripsCall
  <2>7. TripsCall(c)'
    BY <2>6 DEF TripsCall, Copying, Paying, At
  <2> QED
    BY <1>1, <2>5, <2>6, <2>7, TripsOwn
<1>15. CASE SetFields(c)
  <2>1. /\ calls[c].pc = "fields" /\ Go(c, "statsRead") /\ WriteProfile(sql.trips) /\ UNCHANGED << doc, inbox >>
        /\ Made' = Made
    BY <1>15 DEF SetFields, At, Made
  <2>2. TripsRest
    BY <1>2, <2>1 DEF Counting, Copying, Paying, At
  <2>3. sql'.trips >= n /\ \A t \in BagToSet(mirrors') : t >= n
    BY <1>n, <2>1, <2>2, MadeType, ProfileWritten DEF TripsRest, Floating
  <2>4. Floating(Made)' /\ (doc.trips >= Made)'
    BY <1>0, <1>n, <2>1, <2>2, <2>3 DEF TripsRest, Floating, Versions
  <2>5. calls'[c].pc = "statsRead" /\ ~calls'[c].transaction
    BY <1>3, <2>1
  <2>6. TripsCall(c)' /\ Counting(c)'
    BY <2>4, <2>5 DEF TripsCall, Copying, Paying, Counting, At
  <2> QED
    BY <1>1, <1>3, <2>1, <2>6, TripsOwn
<1> QED
  BY <1>5, <1>6, <1>7, <1>8, <1>9, <1>10, <1>11, <1>12, <1>13, <1>14, <1>15 DEF GoOn

\* Mirror and listener carry what is on its way and nothing else.
LEMMA FloatingCarried ==
  ASSUME TypeOK, NEW n \in Nat, Mirrored \/ SyncDriverUser \/ SyncDriverProfile, Floating(n)
  PROVE  Floating(n)' /\ (doc.trips >= n => doc'.trips >= n)
<1>1. CASE Mirrored
  <2>1. PICK trips \in BagToSet(mirrors) : MirrorTrips(trips)
    BY <1>1 DEF Mirrored
  <2>2. /\ PutDoc([ doc EXCEPT !.trips = trips ]) /\ UNCHANGED << sql, listener >> /\ trips \in Nat
        /\ [ doc EXCEPT !.trips = trips ] \in Accounts /\ [ doc EXCEPT !.trips = trips ].trips = trips
    BY <2>1 DEF MirrorTrips, TypeOK, Accounts
  <2>3. BagToSet(mirrors') \subseteq BagToSet(mirrors)
    BY <2>1, BagWithout DEF MirrorTrips
  <2>4. n \in Int /\ Versions(n) /\ trips >= n /\ UNCHANGED listener
    BY <2>1, <2>2 DEF Floating
  <2>5. Versions(n)' /\ doc'.trips >= n
    BY <2>2, <2>4, VersionPut
  <2> QED
    BY <2>2, <2>3, <2>5 DEF Floating
<1>2. CASE SyncDriverUser
  <2>1. /\ inbox \in Seq(Accounts) /\ inbox # << >> /\ inbox' = Tail(inbox)
        /\ listener' = [ pc |-> "profile", version |-> Head(inbox) ] /\ UNCHANGED << doc, mirrors >>
        /\ sql'.trips = sql.trips
    BY <1>2 DEF SyncDriverUser, WalletFrom, TypeOK, Accounts
  <2>2. Versions(n)'
    BY <2>1, TailLast DEF Versions, Floating
  <2> QED
    BY <2>1, <2>2 DEF Floating
<1>3. CASE SyncDriverProfile
  <2>1. /\ listener.pc = "profile" /\ listener' = IdleCallback /\ UNCHANGED << doc, mirrors, inbox >>
        /\ sql'.trips = listener.version.trips
    BY <1>3 DEF SyncDriverProfile, TripsFrom, TypeOK, Accounts
  <2>2. Versions(n)' /\ sql'.trips >= n
    BY <2>1 DEF Versions, IdleCallback, Floating
  <2> QED
    BY <2>1, <2>2 DEF Floating
<1> QED
  BY <1>1, <1>2, <1>3

\* With no copy of the mirror under way the listener alone moves, and only the row.
LEMMA VersionsCarried ==
  ASSUME TypeOK, NEW n \in Nat, Mirrored \/ SyncDriverUser \/ SyncDriverProfile,
         Versions(n), mirrors = EmptyBag
  PROVE  /\ Versions(n)' /\ mirrors' = EmptyBag /\ UNCHANGED doc
         /\ (sql'.trips = sql.trips \/ sql'.trips >= n)
<1>1. ~ Mirrored
  BY BagEmpty DEF Mirrored
<1>2. CASE SyncDriverUser
  <2>1. /\ inbox \in Seq(Accounts) /\ inbox # << >> /\ inbox' = Tail(inbox)
        /\ listener' = [ pc |-> "profile", version |-> Head(inbox) ] /\ UNCHANGED << doc, mirrors >>
        /\ sql'.trips = sql.trips
    BY <1>2 DEF SyncDriverUser, WalletFrom, TypeOK, Accounts
  <2>2. Versions(n)'
    BY <2>1, TailLast DEF Versions
  <2> QED
    BY <2>1, <2>2
<1>3. CASE SyncDriverProfile
  <2>1. /\ listener.pc = "profile" /\ listener' = IdleCallback /\ UNCHANGED << doc, mirrors, inbox >>
        /\ sql'.trips = listener.version.trips
    BY <1>3 DEF SyncDriverProfile, TripsFrom, TypeOK, Accounts
  <2>2. Versions(n)' /\ sql'.trips >= n
    BY <2>1 DEF Versions, IdleCallback
  <2> QED
    BY <2>1, <2>2
<1> QED
  BY <1>1, <1>2, <1>3

LEMMA TripsCarries ==
  ASSUME TypeOK, TypeOK', TripsScope, TripsParts, Carries
  PROVE  TripsParts'
<1>1. Mirrored \/ SyncDriverUser \/ SyncDriverProfile
  BY DEF Carries, Commit, TripsParts, TripsCall, SyncDriver, Job, JobRead, JobUser, JobProfile, TripsScope
<1>2. UNCHANGED << job, calls, ride, history >> /\ ~Carried
  <2>1. UNCHANGED << job, calls, ride, history >>
    BY <1>1 DEF Mirrored, MirrorTrips, SyncDriverUser, SyncDriverProfile
  <2>2. ~Carried
    BY <1>1, BagEmpty DEF Mirrored, SyncDriverUser, SyncDriverProfile, Carried
  <2> QED
    BY <2>1, <2>2
<1>3. PICK n \in Nat : n = Made
  BY MadeType
<1>4. Made' = Made
  BY <1>2 DEF Made
<1>5. PICK m \in Nat : m = Made + 1
  BY <1>3
<1>6. sql \in Accounts /\ sql' \in Accounts
  BY DEF TypeOK
<1>7. Floating(Made) => Floating(Made)' /\ (doc.trips >= Made => doc'.trips >= Made)
  <2>1. Floating(n) => Floating(n)' /\ (doc.trips >= n => doc'.trips >= n)
    BY <1>1, FloatingCarried
  <2> QED
    BY <1>3, <1>4, <2>1 DEF Floating, Versions
<1>8. Floating(Made + 1) => Floating(Made + 1)' /\ (doc.trips >= Made + 1 => doc'.trips >= Made + 1)
  <2>1. Floating(m) => Floating(m)' /\ (doc.trips >= m => doc'.trips >= m)
    BY <1>1, FloatingCarried
  <2> QED
    BY <1>4, <1>5, <2>1 DEF Floating, Versions
<1>9. ASSUME sql.trips >= Made, doc.trips >= Made + 1, mirrors = EmptyBag, Versions(Made + 1)
      PROVE  (sql.trips >= Made /\ doc.trips >= Made + 1 /\ mirrors = EmptyBag /\ Versions(Made + 1))'
  <2>1. Versions(m)
    BY <1>5, <1>9
  <2>2. /\ Versions(m)' /\ mirrors' = EmptyBag /\ UNCHANGED doc
        /\ (sql'.trips = sql.trips \/ sql'.trips >= m)
    BY <1>1, <1>9, <2>1, VersionsCarried
  <2>3. Versions(Made + 1)'
    BY <1>4, <1>5, <2>2 DEF Versions
  <2>4. sql'.trips >= Made
    BY <1>3, <1>5, <1>6, <1>9, <2>2 DEF Accounts
  <2> QED
    BY <1>4, <1>9, <2>2, <2>3, <2>4
<1>10. ASSUME NEW c \in Calls PROVE TripsCall(c)'
  <2>1. TripsCall(c) /\ calls' = calls
    BY <1>2 DEF TripsParts
  <2>2. calls[c].pc \notin { "read", "credit", "earn" }
    BY <1>2, <2>1 DEF TripsCall
  <2>3. (Copying(c)' <=> Copying(c)) /\ (Paying(c)' <=> Paying(c)) /\ (At(c, "statsWrite")' <=> At(c, "statsWrite"))
    BY <1>2 DEF Copying, Paying, Due, Pays, At
  <2>4. Copying(c) => /\ Floating(Made)'
                      /\ (calls[c].adjusts => doc.trips >= Made)'
    BY <1>4, <1>7, <2>1 DEF TripsCall
  <2>5. (At(c, "statsWrite") => calls[c].stats.trips >= Made)' \/ ~ Copying(c)
    BY <1>4, <2>1, <2>3 DEF TripsCall
  <2>6. Paying(c) /\ calls[c].pc \in { "entry", "wallet", "trips" } =>
          (sql.trips >= Made /\ doc.trips >= Made + 1 /\ mirrors = EmptyBag /\ Versions(Made + 1))'
    BY <1>9, <2>1 DEF TripsCall
  <2>7. Paying(c) /\ calls[c].pc \in { "row", "doc" } => (Floating(Made + 1) /\ doc.trips >= Made + 1)'
    BY <1>4, <1>8, <2>1 DEF TripsCall
  <2> QED
    BY <2>1, <2>2, <2>3, <2>4, <2>5, <2>6, <2>7 DEF TripsCall, At
<1>11. ASSUME \A c \in Calls : ~ Counting(c)' PROVE TripsRest'
  <2>1. \A c \in Calls : ~ Counting(c)
    BY <1>2, <1>11 DEF Counting, Copying, Paying, Due, Pays, At
  <2> QED
    BY <1>4, <1>7, <2>1 DEF TripsParts, TripsRest
<1>12. (\A c \in Calls : TripsCall(c))' /\ ((\A c \in Calls : ~ Counting(c)) => TripsRest)'
  <2>1. (\A c \in Calls : ~ Counting(c))' => \A c \in Calls : ~ Counting(c)'
    BY <1>2 DEF Counting, Copying, Paying, Due, Pays, At
  <2>2. \A c \in Calls : TripsCall(c)'
    BY <1>10
  <2> QED
    BY <1>11, <2>1, <2>2
<1> QED
  BY <1>2, <1>12 DEF TripsParts

LEMMA TripsInductive ==
  ASSUME TypeOK, TypeOK', CarryInv, RideInv, TripsInv, [Next]_vars PROVE TripsInv'
<1> SUFFICES ASSUME TripsScope' PROVE TripsParts'
  BY DEF TripsInv
<1>1. /\ (\E c \in Calls : Begin(c) \/ GoOn(c)) \/ Carries \/ UNCHANGED vars
      /\ TripsScope /\ CarryParts /\ RideParts /\ TripsParts
  BY NoFaults, ScenarioStays DEF TripsScope, TripsInv, CarryInv, RideInv
<1>2. UNCHANGED vars => TripsParts'
  BY <1>1 DEF vars, TripsParts, TripsCall, TripsRest, Floating, Versions, Counting, Copying, Paying, Due, Pays,
              Made, Carried, At
<1> QED
  BY <1>1, <1>2, TripsBegin, TripsGoOn, TripsCarries

\* Payments that begin when everything is quiet arrive, with their trips: every ride that
\* becomes completed and every adjustment is in the wallet of the document once, and every
\* ride and every order that handleDelivered settles is among its trips; although the ride
\* pays into document and row, and the listener carries the document into the row between
\* the two.
THEOREM PaymentsInDocument == Spec => []PaymentsArrive
<1> DEFINE I == TypeOK /\ CarryInv /\ RideInv /\ WalletInv /\ TripsInv
<1>1. Init => I
  BY TypeInit, CarryInit, RideInit, WalletInit, TripsInit
<1>2. I /\ [Next]_vars => I'
  BY TypeInductive, CarryInductive, RideInductive, WalletInductive, TripsInductive
<1>3. I => PaymentsArrive
  <2>1. ASSUME WalletInv, WalletScope, Quiet PROVE doc.wallet = Credit
    <3>1. \A c \in Calls : calls[c].pc = "idle"
      BY <2>1 DEF Quiet, InProgress
    <3> QED
      BY <2>1, <3>1 DEF WalletInv, WalletParts, Copying, Paying
  <2>2. ASSUME TripsInv, TripsScope, Quiet PROVE doc.trips >= Made
    <3>1. \A c \in Calls : calls[c].pc = "idle"
      BY <2>2 DEF Quiet, InProgress
    <3> QED
      BY <2>2, <3>1 DEF TripsInv, TripsParts, TripsRest, Counting, Copying, Paying, At
  <2> QED
    BY <2>1, <2>2 DEF PaymentsArrive, CreditsArrive, TripsCounted, WalletScope, TripsScope, Credit, Made
<1> QED
  BY <1>1, <1>2, <1>3, PTL DEF Spec
=============================================================================

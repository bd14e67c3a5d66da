----------------------------- MODULE Settlement -----------------------------
(***************************************************************************)
(* The financial settlement of delivered orders.  There are two of them,   *)
(* written to do the same: OrdersService.handleDelivered ("api"), a chain  *)
(* of separate statements, started by updateStatus and not awaited; and    *)
(* FirebaseSyncService.handleOrderDeliveredInternal ("firebase"), one      *)
(* transaction, started by the Firestore listener.  OrderSync shows that   *)
(* an order may start either of them, more than once and concurrently.     *)
(*                                                                         *)
(* Every credit to an account of an order always has the same amount (the  *)
(* shares are fixed when the order is placed), so an account is modelled   *)
(* by HOW OFTEN it was credited for each order.  The driver's debt is a    *)
(* number, because one path writes it from an earlier reading.  All orders *)
(* of an instance are carried by the same driver; Driven are those that    *)
(* have a driver at all.                                                   *)
(***************************************************************************)
EXTENDS Integers, FiniteSets, FiniteSetsExt

CONSTANTS
  Orders,        \* the orders that are settled
  Restaurants,   \* their restaurants, each with an owner of its own
  RestaurantOf,  \* the restaurant of an order
  Driven,        \* the orders with a driverId
  Cash,          \* the orders paid in cash
  DebtOf,        \* total - driverShare: what the driver owes for a cash order
  DebtLimit,     \* config.driverDebtLimit
  Calls,         \* slots for concurrent settlements
  NoCall,        \* holder of a row lock nobody holds
  Paths,         \* which settlements are started, a subset of {"api", "firebase"}
  FailingSteps,  \* the steps whose statement may fail, or where the process may stop
  MaxStarts      \* bound on the settlements started

\* Where a settlement stands: the statement, or the phase of the transaction,
\* that comes next.
ApiSteps ==
  { "guard", "split", "restaurant", "owner", "ownerEntry", "driver", "profile",
    "driverWallet", "driverEntry", "debtEntry", "points" }
TxSteps == { "txGuard", "txRows", "txDriver", "txCommit" }

ASSUME SettlementAssumption ==
  /\ Orders # {} /\ IsFiniteSet(Orders)
  /\ RestaurantOf \in [ Orders -> Restaurants ]
  /\ Driven \subseteq Orders
  /\ Cash \subseteq Orders
  /\ DebtOf \in [ Orders -> Int ]
  /\ DebtLimit \in Int
  /\ IsFiniteSet(Calls) /\ NoCall \notin Calls
  /\ Paths \subseteq { "api", "firebase" }
  /\ FailingSteps \subseteq ApiSteps \cup TxSteps
  /\ MaxStarts \in Nat

VARIABLES
  split,    \* the orders whose final shares are saved
  paid,     \* per order, how often each account was credited
  ledger,   \* per order, how many ledger entries of each kind there are
  driver,   \* the driver profile: debtBalance and isAvailable
  points,   \* per order, how often its loyalty points were awarded
  lock,     \* per restaurant, the transaction that holds its rows
  call,     \* the settlements in progress
  starts    \* how many were started, up to MaxStarts

settlementVars == << split, paid, ledger, driver, points, lock, call, starts >>

\* owner and restaurant: the two wallets credited with the subtotal; driver: the
\* wallet credited with driverShare; trips: totalEarnings and totalTrips.
Accounts == { "restaurant", "owner", "driver", "trips" }

\* EARNING of the owner; EARNING of the driver, 'completed' or 'pending'; DEBT
\* of the driver, 'completed' or 'pending'.
Entries == { "owner", "driver", "driverPending", "debt", "debtPending" }

\* debt and available: the driver profile as this settlement has read it.
CallStates ==
  [ pc : { "idle" } \cup ApiSteps \cup TxSteps, order : Orders,
    debt : Int, available : BOOLEAN ]

SettlementTypeOK ==
  /\ split \in SUBSET Orders
  /\ paid \in [ Orders -> [ Accounts -> Nat ] ]
  /\ ledger \in [ Orders -> [ Entries -> Nat ] ]
  /\ driver \in [ debt : Int, available : BOOLEAN ]
  /\ points \in [ Orders -> Nat ]
  /\ lock \in [ Restaurants -> Calls \cup { NoCall } ]
  /\ call \in [ Calls -> CallStates ]
  /\ starts \in 0..MaxStarts

IdleCall == [ pc |-> "idle", order |-> CHOOSE o \in Orders : TRUE,
              debt |-> 0, available |-> TRUE ]

SettlementInit ==
  /\ split = {}
  /\ paid = [ o \in Orders |-> [ a \in Accounts |-> 0 ] ]
  /\ ledger = [ o \in Orders |-> [ e \in Entries |-> 0 ] ]
  /\ driver = [ debt |-> 0, available |-> TRUE ]
  /\ points = [ o \in Orders |-> 0 ]
  /\ lock = [ r \in Restaurants |-> NoCall ]
  /\ call = [ c \in Calls |-> IdleCall ]
  /\ starts = 0

(***************************************************************************)
(* Helpers                                                                 *)
(***************************************************************************)
At(c, pc) == call[c].pc = pc

Goto(c, pc) == call' = [ call EXCEPT ![c].pc = pc ]

Finish(c) == call' = [ call EXCEPT ![c] = IdleCall ]

Credit(o, accounts) ==
  paid' = [ paid EXCEPT ![o] = [ a \in Accounts |-> IF a \in accounts THEN @[a] + 1 ELSE @[a] ] ]

Enter(o, entries) ==
  ledger' = [ ledger EXCEPT ![o] = [ e \in Entries |-> IF e \in entries THEN @[e] + 1 ELSE @[e] ] ]

\* Mutant: the guard looks for a completed entry of the driver.
existingCompleted(o) == ledger[o]["driver"] > 0

\* Mutant: the guard forgets to ask for the order.
existingAnySettlement(o) == \E p \in Orders : ledger[p]["owner"] > 0

\* ledger.findFirst({ orderId, type: 'EARNING' })
existingSettlement(o) ==
  ledger[o]["owner"] + ledger[o]["driver"] + ledger[o]["driverPending"] > 0

\* The rows of the order and of its restaurant are not held by a transaction.
Unlocked(o) == lock[RestaurantOf[o]] = NoCall

\* A reading of the driver profile, kept across the next await.
ReadProfile(c, pc) ==
  call' = [ call EXCEPT ![c] = [ @ EXCEPT !.pc = pc, !.debt = driver.debt,
                                          !.available = driver.available ] ]

\* Mutant: the limit is compared with the debt before the increase.
StaysAvailableBefore(c, newDebt) ==
  IF call[c].debt >= DebtLimit THEN FALSE ELSE call[c].available

\* isAvailable as both paths compute it, from the profile that was read.
StaysAvailable(c, newDebt) == IF newDebt >= DebtLimit THEN FALSE ELSE call[c].available

Start(c, o) ==
  /\ At(c, "idle")
  /\ starts < MaxStarts
  /\ starts' = starts + 1
  /\ \E path \in Paths :
       call' = [ call EXCEPT ![c] =
         [ IdleCall EXCEPT !.pc = IF path = "api" THEN "guard" ELSE "txGuard", !.order = o ] ]
  /\ UNCHANGED << split, paid, ledger, driver, points, lock >>

(***************************************************************************)
(* OrdersService.handleDelivered                                           *)
(***************************************************************************)
ApiGuard(c) ==
  /\ At(c, "guard")
  /\ IF existingSettlement(call[c].order) THEN Finish(c) ELSE Goto(c, "split")
  /\ UNCHANGED << split, paid, ledger, driver, points, lock, starts >>

ApiSaveSplit(c) ==
  /\ At(c, "split")
  /\ Unlocked(call[c].order)
  /\ split' = split \cup { call[c].order }
  /\ Goto(c, "restaurant")
  /\ UNCHANGED << paid, ledger, driver, points, lock, starts >>

ApiCreditRestaurant(c) ==
  /\ At(c, "restaurant")
  /\ Unlocked(call[c].order)
  /\ Credit(call[c].order, { "restaurant" })
  /\ Goto(c, "owner")
  /\ UNCHANGED << split, ledger, driver, points, lock, starts >>

ApiCreditOwner(c) ==
  /\ At(c, "owner")
  /\ Unlocked(call[c].order)
  /\ Credit(call[c].order, { "owner" })
  /\ Goto(c, "ownerEntry")
  /\ UNCHANGED << split, ledger, driver, points, lock, starts >>

ApiOwnerEntry(c) ==
  /\ At(c, "ownerEntry")
  /\ Enter(call[c].order, { "owner" })
  /\ Goto(c, IF call[c].order \in Driven THEN "driver" ELSE "points")
  /\ UNCHANGED << split, paid, driver, points, lock, starts >>

ApiReadDriver(c) ==
  /\ At(c, "driver")
  /\ ReadProfile(c, IF call[c].order \in Cash THEN "profile" ELSE "driverWallet")
  /\ UNCHANGED << split, paid, ledger, driver, points, lock, starts >>

ApiCreditDriver(c) ==
  /\ At(c, "driverWallet")
  /\ Credit(call[c].order, { "driver" })
  /\ Goto(c, "profile")
  /\ UNCHANGED << split, ledger, driver, points, lock, starts >>

\* For a cash order debtBalance is written as the sum of the debt that was READ
\* and the increase; for an online order only the totals change.
ApiUpdateProfile(c) ==
  /\ At(c, "profile")
  /\ LET o == call[c].order
         newDebt == call[c].debt + DebtOf[o]
     IN /\ Credit(o, { "trips" })
        /\ driver' = IF o \in Cash
                     THEN [ debt |-> newDebt, available |-> StaysAvailable(c, newDebt) ]
                     ELSE driver
  /\ Goto(c, "driverEntry")
  /\ UNCHANGED << split, ledger, points, lock, starts >>

\* The status of a ledger entry defaults to 'completed', here and for DEBT.
ApiDriverEntry(c) ==
  /\ At(c, "driverEntry")
  /\ Enter(call[c].order, { "driver" })
  /\ Goto(c, IF call[c].order \in Cash THEN "debtEntry" ELSE "points")
  /\ UNCHANGED << split, paid, driver, points, lock, starts >>

ApiDebtEntry(c) ==
  /\ At(c, "debtEntry")
  /\ Enter(call[c].order, { "debt" })
  /\ Goto(c, "points")
  /\ UNCHANGED << split, paid, driver, points, lock, starts >>

\* LoyaltyService.addPoints, the last step of both settlements.
AwardPoints(c) ==
  /\ At(c, "points")
  /\ points' = [ points EXCEPT ![call[c].order] = @ + 1 ]
  /\ Finish(c)
  /\ UNCHANGED << split, paid, ledger, driver, lock, starts >>

\* An await throws, or the process stops: what was written stays written.
ApiFail(c) ==
  /\ call[c].pc \in ApiSteps \cap FailingSteps
  /\ Finish(c)
  /\ UNCHANGED << split, paid, ledger, driver, points, lock, starts >>

(***************************************************************************)
(* FirebaseSyncService.handleOrderDeliveredInternal: one interactive       *)
(* transaction at READ COMMITTED.  Its writes appear when it commits, and  *)
(* are increments except for isAvailable; its readings are of what was     *)
(* committed when they were made; the rows it has updated stay locked.     *)
(***************************************************************************)

\* Mutant: the award is scheduled before the guard.
TxGuardThenPoints(c) ==
  /\ At(c, "txGuard")
  /\ Goto(c, IF existingSettlement(call[c].order) THEN "points" ELSE "txRows")
  /\ UNCHANGED << split, paid, ledger, driver, points, lock, starts >>

TxGuard(c) ==
  /\ At(c, "txGuard")
  /\ IF existingSettlement(call[c].order) THEN Finish(c) ELSE Goto(c, "txRows")
  /\ UNCHANGED << split, paid, ledger, driver, points, lock, starts >>

\* The updates of the order, the restaurant and its owner wait for the
\* transaction that holds these rows.
TxLockRows(c) ==
  /\ At(c, "txRows")
  /\ Unlocked(call[c].order)
  /\ lock' = [ lock EXCEPT ![RestaurantOf[call[c].order]] = c ]
  /\ Goto(c, IF call[c].order \in Driven THEN "txDriver" ELSE "txCommit")
  /\ UNCHANGED << split, paid, ledger, driver, points, starts >>

TxReadDriver(c) ==
  /\ At(c, "txDriver")
  /\ ReadProfile(c, "txCommit")
  /\ UNCHANGED << split, paid, ledger, driver, points, lock, starts >>

Release(c) == lock' = [ r \in Restaurants |-> IF lock[r] = c THEN NoCall ELSE lock[r] ]

\* Mutant: the owner's wallet is left out.
TxAccountsWithoutOwner(o) ==
  { "restaurant" }
    \cup (IF o \in Driven THEN { "trips" } ELSE {})
    \cup (IF o \in Driven \ Cash THEN { "driver" } ELSE {})

TxAccounts(o) ==
  { "restaurant", "owner" }
    \cup (IF o \in Driven THEN { "trips" } ELSE {})
    \cup (IF o \in Driven \ Cash THEN { "driver" } ELSE {})

\* Mutant: a cash delivery earns the driver no entry.
TxEntriesOnlineOnly(o) ==
  { "owner" }
    \cup (IF o \in Driven \ Cash THEN { "driverPending" } ELSE {})
    \cup (IF o \in Driven \cap Cash /\ DebtOf[o] > 0 THEN { "debtPending" } ELSE {})

\* Mutant: the debt is raised without an entry.
TxEntriesWithoutDebt(o) == { "owner" } \cup (IF o \in Driven THEN { "driverPending" } ELSE {})

TxEntries(o) ==
  { "owner" }
    \cup (IF o \in Driven THEN { "driverPending" } ELSE {})
    \cup (IF o \in Driven \cap Cash /\ DebtOf[o] > 0 THEN { "debtPending" } ELSE {})

\* The points are awarded by a setImmediate the transaction has scheduled.
TxCommit(c) ==
  /\ At(c, "txCommit")
  /\ LET o == call[c].order
         debtIncrease == IF o \in Cash THEN DebtOf[o] ELSE 0
     IN /\ split' = split \cup { o }
        /\ Credit(o, TxAccounts(o))
        /\ Enter(o, TxEntries(o))
        /\ driver' = IF o \in Driven
                     THEN [ debt |-> driver.debt + debtIncrease,
                            available |-> StaysAvailable(c, call[c].debt + debtIncrease) ]
                     ELSE driver
  /\ Release(c)
  /\ Goto(c, "points")
  /\ UNCHANGED << points, starts >>

\* A statement fails, the transaction times out or the process stops: nothing
\* is written.  Only when the commit itself fails has the body been run to its
\* end, and the award of the points been scheduled all the same.
TxAbort(c) ==
  /\ call[c].pc \in TxSteps \cap FailingSteps
  /\ \/ Finish(c)
     \/ At(c, "txCommit") /\ Goto(c, "points")
  /\ Release(c)
  /\ UNCHANGED << split, paid, ledger, driver, points, starts >>

(***************************************************************************)
(* The specification                                                       *)
(***************************************************************************)
Progress(c) ==
  \/ ApiGuard(c) \/ ApiSaveSplit(c) \/ ApiCreditRestaurant(c) \/ ApiCreditOwner(c)
  \/ ApiOwnerEntry(c) \/ ApiReadDriver(c) \/ ApiCreditDriver(c) \/ ApiUpdateProfile(c)
  \/ ApiDriverEntry(c) \/ ApiDebtEntry(c) \/ AwardPoints(c)
  \/ TxGuard(c) \/ TxLockRows(c) \/ TxReadDriver(c) \/ TxCommit(c)

SettlementNext ==
  \E c \in Calls :
    \/ \E o \in Orders : Start(c, o)
    \/ Progress(c)
    \/ ApiFail(c)
    \/ TxAbort(c)

SettlementSpec == SettlementInit /\ [][SettlementNext]_settlementVars

\* A settlement that was started goes on; a transaction waiting for rows gets
\* them when they are free (PostgreSQL queues the waiters of a row lock).
SettlementFairness == \A c \in Calls : SF_settlementVars(Progress(c))

FairSettlementSpec == SettlementSpec /\ SettlementFairness

(***************************************************************************)
(* Properties                                                              *)
(***************************************************************************)
NoneUnderWay == \A c \in Calls : At(c, "idle")

DriverEntries(o) == ledger[o]["driver"] + ledger[o]["driverPending"]

\* An order is settled once: the idempotency guard of both paths.
SettledOnce ==
  \A o \in Orders :
    /\ ledger[o]["owner"] <= 1
    /\ DriverEntries(o) <= 1
    /\ \A a \in Accounts : paid[o][a] <= 1

\* The wallet of the owner and the ledger tell the same story at every moment:
\* a credit without an entry belongs to a settlement that is about to write it.
OwnerEntriesBackCredits ==
  \A o \in Orders :
    paid[o]["owner"] =
      ledger[o]["owner"] + Cardinality({ c \in Calls : At(c, "ownerEntry") /\ call[c].order = o })

\* What the guard takes for settled is settled: once nothing runs, an order with
\* an EARNING entry has paid everyone it owes.
GuardMeansSettled ==
  NoneUnderWay =>
    \A o \in Orders : existingSettlement(o) =>
      /\ o \in split
      /\ paid[o]["restaurant"] = ledger[o]["owner"]
      /\ o \in Driven => DriverEntries(o) = ledger[o]["owner"]
      /\ o \in Driven => paid[o]["trips"] = ledger[o]["owner"]

\* Loyalty points are for settled orders: as many awards as settlements.
PointsForSettlements ==
  NoneUnderWay => \A o \in Orders : points[o] = ledger[o]["owner"]

\* The debt of the driver is the sum of the DEBT entries of the ledger.
DebtIsInLedger ==
  NoneUnderWay =>
    driver.debt = SumFunctionOnSet(
      [ o \in Orders |-> DebtOf[o] * (ledger[o]["debt"] + ledger[o]["debtPending"]) ], Orders)

\* A settlement that takes the debt to the limit leaves the driver suspended.
SuspendedAtLimit ==
  [][ driver'.debt > driver.debt /\ driver'.debt >= DebtLimit => ~driver'.available ]_settlementVars

\* A settlement that was started ends with its order settled.
EventuallySettled ==
  \A o \in Orders :
    (\E c \in Calls : ~At(c, "idle") /\ call[c].order = o) ~> ledger[o]["owner"] > 0

\* Between settlements, also ones that overlapped, everything is of a piece: what the guard
\* takes for settled is settled, and its points were awarded.
SettlementInv == SettlementTypeOK /\ GuardMeansSettled /\ PointsForSettlements
=============================================================================

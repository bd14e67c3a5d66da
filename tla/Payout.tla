------------------------------- MODULE Payout -------------------------------
(***************************************************************************)
(* How a vendor's money leaves the system: WalletService.requestPayout     *)
(* deducts an amount at once and asks for an approval, SuperadminService   *)
(* executes or rejects the approval, and AdminService pays out or adjusts  *)
(* the wallet on its own.  The wallet column of the user and the ledger    *)
(* are two records of the same money; requestPayout compares them before   *)
(* it hands any of it out.                                                 *)
(*                                                                         *)
(* One user with one restaurant is modelled.  The statements of a handler  *)
(* are separate actions wherever an await lies between them; a Prisma      *)
(* $transaction is one action.                                             *)
(***************************************************************************)
EXTENDS Integers, FiniteSetsExt

CONSTANTS
  Keys,          \* idempotency keys of payout requests
  Adjustments,   \* reference ids of manual adjustments
  Withdrawals,   \* reference ids of payouts an administrator starts
  Amounts,       \* amounts that are asked for
  Opening,       \* walletBalance at the beginning, backed by completed entries
  OpeningPending,\* pendingBalance of the restaurant at the beginning
  Users, Admins, \* slots for concurrent calls of the user, of administrators
  Operations,    \* the administrators' operations an instance has
  FailingSteps   \* the steps before which a call may fail or its process stop

Entries == Keys \cup Adjustments \cup Withdrawals

RequestSteps == { "user", "balance", "velocity", "batch" }
AdminSteps == { "execute", "approve", "reject", "refuse", "withdraw" }

ASSUME PayoutAssumption ==
  /\ Keys # {} /\ IsFiniteSet(Entries)
  /\ Amounts \subseteq Int
  /\ Opening \in Int /\ OpeningPending \in Int
  /\ Keys \cap Adjustments = {}
  /\ Withdrawals \cap (Keys \cup Adjustments) = {}
  /\ Users \cap Admins = {}
  /\ Operations \subseteq { "approvals", "processPayout", "adjust" }
  /\ FailingSteps \subseteq RequestSteps \cup AdminSteps

VARIABLES
  wallet,      \* users.walletBalance
  restaurant,  \* restaurants.pendingBalance and restaurants.walletBalance
  ledger,      \* the entries: status and signed amount; "none" is no row
  approval,    \* per payout request, pending_approvals.status
  recent,      \* the payout entries created less than 24 hours ago
  task         \* the calls in progress

vars == << wallet, restaurant, ledger, approval, recent, task >>

Slots == Users \cup Admins

\* What a call has read is kept in wallet and pending, to be used after an await.
TaskStates ==
  [ pc : { "idle" } \cup RequestSteps \cup AdminSteps, entry : Entries, amount : Int,
    wallet : Int, pending : Int ]

TypeOK ==
  /\ wallet \in Int
  /\ restaurant \in [ pending : Int, wallet : Int ]
  /\ ledger \in [ Entries -> [ status : { "none", "pending", "completed", "rejected" }, amount : Int ] ]
  /\ approval \in [ Keys -> { "none", "PENDING", "APPROVED", "REJECTED" } ]
  /\ recent \in SUBSET Keys
  /\ task \in [ Slots -> TaskStates ]

IdleTask == [ pc |-> "idle", entry |-> CHOOSE e \in Entries : TRUE, amount |-> 0,
              wallet |-> 0, pending |-> 0 ]

Init ==
  /\ wallet = Opening
  /\ restaurant = [ pending |-> OpeningPending, wallet |-> Opening ]
  /\ ledger = [ e \in Entries |-> [ status |-> "none", amount |-> 0 ] ]
  /\ approval = [ k \in Keys |-> "none" ]
  /\ recent = {}
  /\ task = [ s \in Slots |-> IdleTask ]

(***************************************************************************)
(* Helpers                                                                 *)
(***************************************************************************)
At(s, pc) == task[s].pc = pc

Goto(s, pc) == task' = [ task EXCEPT ![s].pc = pc ]

Finish(s) == task' = [ task EXCEPT ![s] = IdleTask ]

Exists(e) == ledger[e].status # "none"

Enter(e, status, amount) ==
  ledger' = [ ledger EXCEPT ![e] = [ status |-> status, amount |-> amount ] ]

\* The smaller of two amounts.
Least(a, b) == IF a < b THEN a ELSE b

SumOf(S) == SumFunctionOnSet([ e \in Entries |-> ledger[e].amount ], S)

\* WalletService.getBalance: completed entries, and deductions of any status.
\* The opening balance stands for the completed entries of the past.
Balance ==
  Opening + SumOf({ e \in Entries : ledger[e].status = "completed" \/ ledger[e].amount < 0 })

(***************************************************************************)
(* WalletService.requestPayout                                             *)
(***************************************************************************)

\* A key that is in the ledger was processed already.
RequestPayout(u, k, amount) ==
  /\ At(u, "idle")
  /\ amount > 0
  /\ ~Exists(k)
  /\ task' = [ task EXCEPT ![u] = [ IdleTask EXCEPT !.pc = "user", !.entry = k, !.amount = amount ] ]
  /\ UNCHANGED << wallet, restaurant, ledger, approval, recent >>

RequestReadUser(u) ==
  /\ At(u, "user")
  /\ task' = [ task EXCEPT ![u] = [ @ EXCEPT !.pc = "balance", !.wallet = wallet ] ]
  /\ UNCHANGED << wallet, restaurant, ledger, approval, recent >>

\* Mutant: the two records are compared, but not with the amount.
InSyncOnly(read, amount) == Balance = read

\* The double-entry verification, with the wallet as it was read before.
Covers(read, amount) == Balance = read /\ Balance >= amount

RequestReadBalance(u) ==
  /\ At(u, "balance")
  /\ IF Covers(task[u].wallet, task[u].amount) THEN Goto(u, "velocity") ELSE Finish(u)
  /\ UNCHANGED << wallet, restaurant, ledger, approval, recent >>

\* Mutant: only payouts that were approved count.
recentApproved == { k \in recent : ledger[k].status = "completed" }

recentPayouts == recent

RequestVelocity(u) ==
  /\ At(u, "velocity")
  /\ IF recentPayouts = {} THEN Goto(u, "batch") ELSE Finish(u)
  /\ UNCHANGED << wallet, restaurant, ledger, approval, recent >>

\* Deduction, ledger entry and approval in one transaction.  It fails as a whole
\* when the key was taken meanwhile: referenceId is unique.
RequestBatch(u) ==
  /\ At(u, "batch")
  /\ LET k == task[u].entry
         amount == task[u].amount
     IN IF Exists(k)
        THEN UNCHANGED << wallet, ledger, approval, recent >>
        ELSE /\ wallet' = wallet - amount
             /\ Enter(k, "pending", -amount)
             /\ approval' = [ approval EXCEPT ![k] = "PENDING" ]
             /\ recent' = recent \cup { k }
  /\ Finish(u)
  /\ UNCHANGED restaurant

(***************************************************************************)
(* SuperadminService.executeApproval and rejectApproval                    *)
(***************************************************************************)

\* Mutant: an approval may be processed again.
ReadAnyApproval(a, k, pc) ==
  /\ At(a, "idle")
  /\ approval[k] # "none"
  /\ task' = [ task EXCEPT ![a] = [ IdleTask EXCEPT !.pc = pc, !.entry = k ] ]
  /\ UNCHANGED << wallet, restaurant, ledger, approval, recent >>

\* Both handlers begin by reading the approval, and refuse one already processed.
ReadApproval(a, k, pc) ==
  /\ At(a, "idle")
  /\ approval[k] = "PENDING"
  /\ task' = [ task EXCEPT ![a] = [ IdleTask EXCEPT !.pc = pc, !.entry = k ] ]
  /\ UNCHANGED << wallet, restaurant, ledger, approval, recent >>

\* Mutant: the deduction was made before, so nothing is done.
ExecuteNothing(a) ==
  /\ At(a, "execute")
  /\ Goto(a, "approve")
  /\ UNCHANGED << wallet, restaurant, ledger, approval, recent >>

ExecuteLedger(a) ==
  /\ At(a, "execute")
  /\ ledger' = [ ledger EXCEPT ![task[a].entry].status = "completed" ]
  /\ Goto(a, "approve")
  /\ UNCHANGED << wallet, restaurant, approval, recent >>

ExecuteMark(a) ==
  /\ At(a, "approve")
  /\ approval' = [ approval EXCEPT ![task[a].entry] = "APPROVED" ]
  /\ Finish(a)
  /\ UNCHANGED << wallet, restaurant, ledger, recent >>

\* The refund of the wallet and the status of the entry, in one transaction.
RejectRefund(a) ==
  /\ At(a, "reject")
  /\ LET k == task[a].entry
     IN /\ wallet' = wallet - ledger[k].amount
        /\ ledger' = [ ledger EXCEPT ![k].status = "rejected" ]
  /\ Goto(a, "refuse")
  /\ UNCHANGED << restaurant, approval, recent >>

\* Mutant: the status of the entry is written into the approval.
RejectMarkLedgerStatus(a) ==
  /\ At(a, "refuse")
  /\ approval' = [ approval EXCEPT ![task[a].entry] = "rejected" ]
  /\ Finish(a)
  /\ UNCHANGED << wallet, restaurant, ledger, recent >>

RejectMark(a) ==
  /\ At(a, "refuse")
  /\ approval' = [ approval EXCEPT ![task[a].entry] = "REJECTED" ]
  /\ Finish(a)
  /\ UNCHANGED << wallet, restaurant, ledger, recent >>

(***************************************************************************)
(* AdminService.processPayout and adjustWalletBalanceManually              *)
(***************************************************************************)

\* The user and the restaurant are read outside the transaction.
ProcessPayoutRead(a, w, amount) ==
  /\ At(a, "idle")
  /\ ~Exists(w)
  /\ wallet + restaurant.pending >= amount
  /\ task' = [ task EXCEPT ![a] =
       [ pc |-> "withdraw", entry |-> w, amount |-> amount,
         wallet |-> wallet, pending |-> restaurant.pending ] ]
  /\ UNCHANGED << wallet, restaurant, ledger, approval, recent >>

\* The wallet pays first and the restaurant the rest; how much each pays is
\* computed from what was read.  The transaction fails when the reference was
\* taken meanwhile.
ProcessPayoutWrite(a) ==
  /\ At(a, "withdraw")
  /\ LET w == task[a].entry
         amount == task[a].amount
         fromWallet == IF task[a].wallet > 0 THEN Least(task[a].wallet, amount) ELSE 0
         fromRest == Least(task[a].pending, amount - fromWallet)
     IN IF Exists(w)
        THEN UNCHANGED << wallet, restaurant, ledger >>
        ELSE /\ wallet' = wallet - fromWallet
             /\ restaurant' = [ restaurant EXCEPT !.pending = @ - (IF fromRest > 0 THEN fromRest ELSE 0) ]
             /\ Enter(w, "completed", -amount)
  /\ Finish(a)
  /\ UNCHANGED << approval, recent >>

\* One transaction; the wallet of the restaurant moves along with the owner's.
AdjustWallet(a, m, amount) ==
  /\ At(a, "idle")
  /\ ~Exists(m)
  /\ wallet' = wallet + amount
  /\ restaurant' = [ restaurant EXCEPT !.wallet = @ + amount ]
  /\ Enter(m, "completed", amount)
  /\ UNCHANGED << approval, recent, task >>

(***************************************************************************)
(* The specification                                                       *)
(***************************************************************************)

\* 24 hours have passed since a payout was requested.
DayPasses(k) ==
  /\ k \in recent
  /\ recent' = recent \ { k }
  /\ UNCHANGED << wallet, restaurant, ledger, approval, task >>

\* A statement throws or the process stops: what was written stays written.
Fail(s) ==
  /\ task[s].pc \in FailingSteps
  /\ Finish(s)
  /\ UNCHANGED << wallet, restaurant, ledger, approval, recent >>

UserNext ==
  \E u \in Users :
    \/ \E k \in Keys, amount \in Amounts : RequestPayout(u, k, amount)
    \/ RequestReadUser(u) \/ RequestReadBalance(u) \/ RequestVelocity(u) \/ RequestBatch(u)

ApprovalNext ==
  /\ "approvals" \in Operations
  /\ \E a \in Admins :
       \/ \E k \in Keys, pc \in { "execute", "reject" } : ReadApproval(a, k, pc)
       \/ ExecuteLedger(a) \/ ExecuteMark(a)
       \/ RejectRefund(a) \/ RejectMark(a)

ProcessPayoutNext ==
  /\ "processPayout" \in Operations
  /\ \E a \in Admins :
       \/ \E w \in Withdrawals, amount \in Amounts : ProcessPayoutRead(a, w, amount)
       \/ ProcessPayoutWrite(a)

AdjustNext ==
  /\ "adjust" \in Operations
  /\ \E a \in Admins, m \in Adjustments, amount \in Amounts :
       AdjustWallet(a, m, amount) \/ AdjustWallet(a, m, -amount)

Next ==
  \/ UserNext
  \/ ApprovalNext
  \/ ProcessPayoutNext
  \/ AdjustNext
  \/ \E k \in Keys : DayPasses(k)
  \/ \E s \in Slots : Fail(s)

Spec == Init /\ [][Next]_vars

(***************************************************************************)
(* Properties                                                              *)
(***************************************************************************)

\* The money in the wallet and the restaurant is what the ledger says has come
\* and gone, at every moment: a rejected entry has been given back exactly once.
MoneyIsAccounted ==
  wallet + restaurant.pending =
    Opening + OpeningPending + SumOf({ e \in Entries : ledger[e].status # "rejected" })

\* "Max 1 payout per day", for a user who sends one request at a time.
OnePayoutPerDay == \A j, k \in recent : j = k

\* Requests alone never overdraw the wallet: whatever is missing, administrators
\* have taken, also between the check of a request and its deduction.
OverdrawnOnlyByAdmins ==
  wallet >= SumOf({ e \in Adjustments \cup Withdrawals : ledger[e].amount < 0 })

\* Once no administrator is at work, what was decided is what the ledger says.
DecisionInLedger ==
  (\A a \in Admins : At(a, "idle")) =>
    \A k \in Keys :
      /\ approval[k] = "APPROVED" => ledger[k].status = "completed"
      /\ approval[k] = "REJECTED" => ledger[k].status = "rejected"
=============================================================================

---------------------------- MODULE PayoutProofs ----------------------------
(***************************************************************************)
(* Theorems about Payout, for any number of requests, withdrawals,         *)
(* adjustments and amounts, whatever step fails.  What the properties      *)
(* promise about decisions holds for one administrator at a time, and the  *)
(* limit of one payout a day for one request at a time.                    *)
(***************************************************************************)
EXTENDS Payout, DataTheorems, TLAPS

OneAdmin == \A a, b \in Admins : a = b

OneUser == \A u, v \in Users : u = v

\* What a call in progress works on: requests and decisions on a request, a
\* withdrawal on a withdrawal.
TasksFit ==
  /\ \A u \in Users : /\ task[u].pc \in { "idle" } \cup RequestSteps
                      /\ ~At(u, "idle") => task[u].entry \in Keys
  /\ \A a \in Admins :
       /\ task[a].pc \in { "idle" } \cup AdminSteps
       /\ task[a].pc \in { "execute", "approve", "reject", "refuse" } => task[a].entry \in Keys
       /\ At(a, "withdraw") => task[a].entry \in Withdrawals

TypeInv == TypeOK /\ TasksFit

LEMMA IdleType == IdleTask \in TaskStates
BY PayoutAssumption DEF IdleTask, TaskStates, Entries

\* The parts of TypeInv that the steps rely on.
LEMMA Typed ==
  ASSUME TypeInv
  PROVE  /\ wallet \in Int /\ restaurant \in [ pending : Int, wallet : Int ]
         /\ \A e \in Entries : ledger[e].amount \in Int
         /\ \A s \in Slots : /\ task[s] \in TaskStates
                             /\ task[s].amount \in Int
                             /\ task[s].wallet \in Int
                             /\ task[s].pending \in Int
         /\ Keys \subseteq Entries
         /\ Users \subseteq Slots /\ Admins \subseteq Slots /\ Users \cap Admins = {}
BY PayoutAssumption DEF TypeInv, TypeOK, TaskStates, Entries, Slots

\* A slot that goes idle fits.
LEMMA FinishFits ==
  ASSUME TypeInv, NEW s \in Slots, Finish(s)
  PROVE  task' \in [ Slots -> TaskStates ] /\ TasksFit'
BY IdleType, Typed DEF Finish, TypeInv, TypeOK, TasksFit, IdleTask, At, Slots

\* A call of the user that goes on with its request fits.
LEMMA UserFits ==
  ASSUME TypeInv, NEW u \in Users, NEW state \in TaskStates,
         state.pc \in RequestSteps, state.entry \in Keys,
         task' = [ task EXCEPT ![u] = state ]
  PROVE  task' \in [ Slots -> TaskStates ] /\ TasksFit'
BY Typed DEF TypeInv, TypeOK, TasksFit, At, Slots

\* So does a call of an administrator.
LEMMA AdminFits ==
  ASSUME TypeInv, NEW a \in Admins, NEW state \in TaskStates,
         state.pc \in AdminSteps,
         state.entry \in IF state.pc = "withdraw" THEN Withdrawals ELSE Keys,
         task' = [ task EXCEPT ![a] = state ]
  PROVE  task' \in [ Slots -> TaskStates ] /\ TasksFit'
BY Typed DEF TypeInv, TypeOK, TasksFit, At, Slots, AdminSteps

LEMMA TypeInductive == TypeInv /\ [Next]_vars => TypeInv'
<1> SUFFICES ASSUME TypeInv, [Next]_vars PROVE TypeInv'
  OBVIOUS
<1>0. /\ wallet \in Int /\ restaurant \in [ pending : Int, wallet : Int ]
      /\ ledger \in [ Entries -> [ status : { "none", "pending", "completed", "rejected" },
                                   amount : Int ] ]
      /\ approval \in [ Keys -> { "none", "PENDING", "APPROVED", "REJECTED" } ]
      /\ recent \in SUBSET Keys
      /\ task \in [ Slots -> TaskStates ] /\ TasksFit
  BY DEF TypeInv, TypeOK
<1>1. ASSUME NEW u \in Users, NEW k \in Keys, NEW amount \in Amounts, RequestPayout(u, k, amount)
      PROVE  TypeInv'
  <2>1. [ IdleTask EXCEPT !.pc = "user", !.entry = k, !.amount = amount ] \in TaskStates
    BY IdleType, Typed, PayoutAssumption DEF TaskStates, RequestSteps
  <2>2. task' \in [ Slots -> TaskStates ] /\ TasksFit'
    BY <1>1, <2>1, UserFits, IdleType DEF RequestPayout, RequestSteps, TaskStates
  <2> QED
    BY <1>0, <1>1, <2>2 DEF RequestPayout, TypeInv, TypeOK
<1>2. ASSUME NEW u \in Users, RequestReadUser(u) PROVE TypeInv'
  <2>0. u \in Slots /\ task[u] \in TaskStates /\ task[u].entry \in Keys /\ wallet \in Int
    BY <1>0, <1>2, Typed DEF RequestReadUser, TasksFit, At
  <2>1. /\ [ task[u] EXCEPT !.pc = "balance", !.wallet = wallet ] \in TaskStates
        /\ task[u].entry \in Keys
    BY <2>0 DEF TaskStates, RequestSteps
  <2>2. task' \in [ Slots -> TaskStates ] /\ TasksFit'
    BY <1>2, <2>1, Typed, UserFits DEF RequestReadUser, RequestSteps, TaskStates
  <2> QED
    BY <1>0, <1>2, <2>2 DEF RequestReadUser, TypeInv, TypeOK
<1>3. ASSUME NEW u \in Users, RequestReadBalance(u) PROVE TypeInv'
  <2>0. task[u] \in TaskStates /\ task[u].entry \in Keys
    BY <1>0, <1>3, Typed DEF RequestReadBalance, TasksFit, At
  <2>1. /\ [ task[u] EXCEPT !.pc = "velocity" ] \in TaskStates
        /\ task[u].entry \in Keys
    BY <2>0 DEF TaskStates, RequestSteps
  <2>2. task' \in [ Slots -> TaskStates ] /\ TasksFit'
    <3>1. CASE Finish(u)
      BY <3>1, Typed, FinishFits
    <3>2. CASE Goto(u, "velocity")
      BY <3>2, <2>1, Typed, UserFits DEF Goto, RequestSteps, TaskStates
    <3> QED
      BY <1>3, <3>1, <3>2 DEF RequestReadBalance
  <2> QED
    BY <1>0, <1>3, <2>2 DEF RequestReadBalance, TypeInv, TypeOK
<1>4. ASSUME NEW u \in Users, RequestVelocity(u) PROVE TypeInv'
  <2>0. task[u] \in TaskStates /\ task[u].entry \in Keys
    BY <1>0, <1>4, Typed DEF RequestVelocity, TasksFit, At
  <2>1. /\ [ task[u] EXCEPT !.pc = "batch" ] \in TaskStates
        /\ task[u].entry \in Keys
    BY <2>0 DEF TaskStates, RequestSteps
  <2>2. task' \in [ Slots -> TaskStates ] /\ TasksFit'
    <3>1. CASE Finish(u)
      BY <3>1, Typed, FinishFits
    <3>2. CASE Goto(u, "batch")
      BY <3>2, <2>1, Typed, UserFits DEF Goto, RequestSteps, TaskStates
    <3> QED
      BY <1>4, <3>1, <3>2 DEF RequestVelocity
  <2> QED
    BY <1>0, <1>4, <2>2 DEF RequestVelocity, TypeInv, TypeOK
<1>5. ASSUME NEW u \in Users, RequestBatch(u) PROVE TypeInv'
  <2>1. task[u].entry \in Keys /\ task[u].amount \in Int
    BY <1>0, <1>5, Typed DEF RequestBatch, TasksFit, At
  <2>2. task' \in [ Slots -> TaskStates ] /\ TasksFit'
    BY <1>5, Typed, FinishFits DEF RequestBatch
  <2>3. CASE Exists(task[u].entry)
    BY <1>0, <1>5, <2>2, <2>3 DEF RequestBatch, TypeInv, TypeOK
  <2>4. CASE ~Exists(task[u].entry)
    BY <1>0, <1>5, <2>1, <2>2, <2>4 DEF RequestBatch, Enter, TypeInv, TypeOK
  <2> QED
    BY <2>3, <2>4
<1>6. ASSUME NEW a \in Admins, NEW k \in Keys, NEW pc \in { "execute", "reject" },
             ReadApproval(a, k, pc)
      PROVE  TypeInv'
  <2>1. [ IdleTask EXCEPT !.pc = pc, !.entry = k ] \in TaskStates
    BY IdleType, Typed DEF TaskStates, AdminSteps
  <2>2. task' \in [ Slots -> TaskStates ] /\ TasksFit'
    BY <1>6, <2>1, AdminFits, IdleType DEF ReadApproval, AdminSteps, TaskStates
  <2> QED
    BY <1>0, <1>6, <2>2 DEF ReadApproval, TypeInv, TypeOK
<1>7. ASSUME NEW a \in Admins, ExecuteLedger(a) PROVE TypeInv'
  <2>0. task[a] \in TaskStates /\ task[a].entry \in Keys
    BY <1>0, <1>7, Typed DEF ExecuteLedger, TasksFit, At
  <2>1. /\ [ task[a] EXCEPT !.pc = "approve" ] \in TaskStates
        /\ task[a].entry \in Keys
    BY <2>0 DEF TaskStates, AdminSteps
  <2>2. task' \in [ Slots -> TaskStates ] /\ TasksFit'
    BY <1>7, <2>1, Typed, AdminFits DEF ExecuteLedger, Goto, AdminSteps, TaskStates
  <2> QED
    BY <1>0, <1>7, <2>2 DEF ExecuteLedger, TypeInv, TypeOK
<1>8. ASSUME NEW a \in Admins, ExecuteMark(a) PROVE TypeInv'
  BY <1>0, <1>8, Typed, FinishFits DEF ExecuteMark, TypeInv, TypeOK
<1>9. ASSUME NEW a \in Admins, RejectRefund(a) PROVE TypeInv'
  <2>0. task[a] \in TaskStates /\ task[a].entry \in Keys
    BY <1>0, <1>9, Typed DEF RejectRefund, TasksFit, At
  <2>1. /\ [ task[a] EXCEPT !.pc = "refuse" ] \in TaskStates
        /\ task[a].entry \in Keys
    BY <2>0 DEF TaskStates, AdminSteps
  <2>2. task' \in [ Slots -> TaskStates ] /\ TasksFit'
    BY <1>9, <2>1, Typed, AdminFits DEF RejectRefund, Goto, AdminSteps, TaskStates
  <2> QED
    BY <1>0, <1>9, <2>1, <2>2, Typed DEF RejectRefund, TypeInv, TypeOK
<1>10. ASSUME NEW a \in Admins, RejectMark(a) PROVE TypeInv'
  BY <1>0, <1>10, Typed, FinishFits DEF RejectMark, TypeInv, TypeOK
<1>11. ASSUME NEW a \in Admins, NEW w \in Withdrawals, NEW amount \in Amounts,
              ProcessPayoutRead(a, w, amount)
       PROVE  TypeInv'
  <2> DEFINE state == [ pc |-> "withdraw", entry |-> w, amount |-> amount,
                        wallet |-> wallet, pending |-> restaurant.pending ]
  <2>1. state \in TaskStates
    BY Typed, PayoutAssumption DEF TaskStates, AdminSteps, Entries
  <2>2. task' \in [ Slots -> TaskStates ] /\ TasksFit'
    BY <1>11, <2>1, AdminFits DEF ProcessPayoutRead, AdminSteps
  <2> QED
    BY <1>0, <1>11, <2>2 DEF ProcessPayoutRead, TypeInv, TypeOK
<1>12. ASSUME NEW a \in Admins, ProcessPayoutWrite(a) PROVE TypeInv'
  <2>1. task' \in [ Slots -> TaskStates ] /\ TasksFit'
    BY <1>12, Typed, FinishFits DEF ProcessPayoutWrite
  <2>2. /\ task[a].amount \in Int /\ task[a].wallet \in Int /\ task[a].pending \in Int
        /\ task[a].entry \in Entries
    BY <1>0, Typed DEF TaskStates
  <2>3. \A x, y \in Int : Least(x, y) \in Int
    BY DEF Least
  <2>4. wallet' \in Int /\ restaurant' \in [ pending : Int, wallet : Int ]
    BY <1>0, <1>12, <2>2, <2>3 DEF ProcessPayoutWrite
  <2> QED
    BY <1>0, <1>12, <2>1, <2>2, <2>4 DEF ProcessPayoutWrite, Enter, TypeInv, TypeOK
<1>13. ASSUME NEW a \in Admins, NEW m \in Adjustments, NEW x \in Int, AdjustWallet(a, m, x)
       PROVE  TypeInv'
  <2>1. wallet' \in Int /\ restaurant' \in [ pending : Int, wallet : Int ]
    BY <1>0, <1>13 DEF AdjustWallet
  <2>2. ledger' \in [ Entries -> [ status : { "none", "pending", "completed", "rejected" },
                                  amount : Int ] ]
    BY <1>0, <1>13 DEF AdjustWallet, Enter
  <2> QED
    BY <1>0, <1>13, <2>1, <2>2 DEF AdjustWallet, TypeInv, TypeOK, TasksFit, At
<1>14. ASSUME NEW k \in Keys, DayPasses(k) PROVE TypeInv'
  BY <1>0, <1>14 DEF DayPasses, TypeInv, TypeOK, TasksFit, At
<1>15. ASSUME NEW s \in Slots, Fail(s) PROVE TypeInv'
  BY <1>0, <1>15, FinishFits DEF Fail, TypeInv, TypeOK
<1>16. CASE UNCHANGED vars
  BY <1>0, <1>16 DEF vars, TypeInv, TypeOK, TasksFit, At
<1>17. CASE UserNext
  BY <1>1, <1>2, <1>3, <1>4, <1>5, <1>17 DEF UserNext
<1>18. CASE ApprovalNext
  BY <1>6, <1>7, <1>8, <1>9, <1>10, <1>18 DEF ApprovalNext
<1>19. CASE ProcessPayoutNext
  BY <1>11, <1>12, <1>19 DEF ProcessPayoutNext
<1>20. CASE AdjustNext
  <2>1. \A x \in Amounts : x \in Int /\ -x \in Int
    BY PayoutAssumption
  <2> QED
    BY <1>13, <1>20, <2>1 DEF AdjustNext
<1>21. CASE Next
  BY <1>14, <1>15, <1>17, <1>18, <1>19, <1>20, <1>21 DEF Next
<1> QED
  BY <1>16, <1>21

LEMMA TypeInit == Init => TypeInv
<1> SUFFICES ASSUME Init PROVE TypeInv
  OBVIOUS
<1>1. \A s \in Slots : task[s] = IdleTask
  BY DEF Init
<1>2. IdleTask.pc = "idle"
  BY DEF IdleTask
<1>3. TasksFit
  BY <1>1, <1>2 DEF TasksFit, At, Slots
<1> QED
  BY <1>3, IdleType, PayoutAssumption DEF Init, TypeInv, TypeOK

\* Every variable keeps to its type, and every call works on an entry of its kind.
THEOREM TypeCorrect == Spec => []TypeOK
<1>1. TypeInv => TypeOK
  BY DEF TypeInv
<1> QED
  BY TypeInit, TypeInductive, <1>1, PTL DEF Spec

(***************************************************************************)
(* One payout a day                                                        *)
(***************************************************************************)

\* A request about to create its payout has seen none of the last day, and with
\* one request at a time none was created since.
DayInv == OnePayoutPerDay /\ \A u \in Users : At(u, "batch") => recent = {}

LEMMA DayInductive ==
  ASSUME OneUser, TypeInv, DayInv, [Next]_vars
  PROVE  DayInv'
<1>0. /\ task \in [ Slots -> TaskStates ] /\ Users \subseteq Slots /\ Admins \subseteq Slots
      /\ Users \cap Admins = {}
      /\ IdleTask.pc = "idle"
  BY Typed DEF TypeInv, TypeOK, IdleTask
<1>1. ASSUME NEW u \in Users, RequestVelocity(u) PROVE DayInv'
  <2>1. CASE recent = {}
    BY <1>1, <2>1 DEF RequestVelocity, DayInv, OnePayoutPerDay
  <2>2. CASE recent # {} /\ Finish(u)
    BY <1>0, <1>1, <2>2 DEF RequestVelocity, Finish, DayInv, OnePayoutPerDay, At
  <2> QED
    BY <1>1, <2>1, <2>2 DEF RequestVelocity, recentPayouts
<1>2. ASSUME NEW u \in Users, RequestBatch(u) PROVE DayInv'
  <2>1. recent = {} /\ (recent' = {} \/ recent' = { task[u].entry })
    BY <1>2 DEF RequestBatch, DayInv
  <2>2. \A v \in Users : v = u /\ task'[v].pc = "idle"
    BY <1>0, <1>2, OneUser DEF RequestBatch, Finish, OneUser
  <2> QED
    BY <2>1, <2>2 DEF DayInv, OnePayoutPerDay, At
<1>3. ASSUME NEW k \in Keys, DayPasses(k) PROVE DayInv'
  BY <1>3 DEF DayPasses, DayInv, OnePayoutPerDay, At
<1>4. ASSUME recent' = recent,
             \A u \in Users : task'[u].pc = "batch" => task[u].pc = "batch"
      PROVE  DayInv'
  BY <1>4 DEF DayInv, OnePayoutPerDay, At
<1>5. ASSUME NEW s \in Slots, Finish(s)
      PROVE  \A u \in Users : task'[u].pc = "batch" => task[u].pc = "batch"
  BY <1>0, <1>5 DEF Finish
<1>6. ASSUME NEW u \in Users,
             \/ \E k \in Keys, amount \in Amounts : RequestPayout(u, k, amount)
             \/ RequestReadUser(u)
             \/ RequestReadBalance(u)
      PROVE  DayInv'
  <2>1. CASE \E k \in Keys, amount \in Amounts : RequestPayout(u, k, amount)
    <3>1. PICK k \in Keys, amount \in Amounts : RequestPayout(u, k, amount)
      BY <2>1
    <3> DEFINE state == [ IdleTask EXCEPT !.pc = "user", !.entry = k, !.amount = amount ]
    <3>2. state.pc = "user"
      BY DEF IdleTask
    <3>3. task' = [ task EXCEPT ![u] = state ] /\ recent' = recent
      BY <3>1 DEF RequestPayout
    <3> HIDE DEF state
    <3> QED
      BY <1>0, <1>4, <3>2, <3>3
  <2>2. CASE RequestReadUser(u)
    BY <1>0, <1>4, <2>2 DEF RequestReadUser, TaskStates
  <2>3. CASE RequestReadBalance(u)
    <3>1. CASE Finish(u)
      BY <1>0, <1>4, <1>5, <2>3, <3>1 DEF RequestReadBalance
    <3>2. CASE Goto(u, "velocity")
      BY <1>0, <1>4, <2>3, <3>2 DEF RequestReadBalance, Goto, TaskStates
    <3> QED
      BY <2>3, <3>1, <3>2 DEF RequestReadBalance
  <2> QED
    BY <1>6, <2>1, <2>2, <2>3
<1>7. ASSUME NEW a \in Admins, NEW state,
             task' = [ task EXCEPT ![a] = state ] \/ task' = task, recent' = recent
      PROVE  DayInv'
  BY <1>0, <1>4, <1>7
<1>8. CASE UserNext
  BY <1>1, <1>2, <1>6, <1>8 DEF UserNext
<1>9. CASE ApprovalNext \/ ProcessPayoutNext \/ AdjustNext
  <2>1. recent' = recent
    BY <1>9 DEF ApprovalNext, ProcessPayoutNext, AdjustNext, ReadApproval, ExecuteLedger,
                ExecuteMark, RejectRefund, RejectMark, ProcessPayoutRead, ProcessPayoutWrite,
                AdjustWallet
  <2>2. \E a \in Admins : (\E state : task' = [ task EXCEPT ![a] = state ]) \/ task' = task
    BY <1>9 DEF ApprovalNext, ProcessPayoutNext, AdjustNext, ReadApproval, ExecuteLedger,
                ExecuteMark, RejectRefund, RejectMark, ProcessPayoutRead, ProcessPayoutWrite,
                AdjustWallet, Goto, Finish
  <2> QED
    BY <1>7, <2>1, <2>2
<1>10. ASSUME NEW s \in Slots, Fail(s) PROVE DayInv'
  BY <1>4, <1>5, <1>10 DEF Fail
<1>11. CASE UNCHANGED vars
  BY <1>4, <1>11 DEF vars
<1>12. CASE Next
  BY <1>3, <1>8, <1>9, <1>10, <1>12 DEF Next
<1> QED
  BY <1>11, <1>12

\* A user who sends one request at a time never has two payouts of one day,
\* whatever administrators do meanwhile and whichever request fails.
THEOREM PayoutPerDay == ASSUME OneUser PROVE Spec => []OnePayoutPerDay
<1>1. Init => DayInv
  <2> SUFFICES ASSUME Init PROVE DayInv
    OBVIOUS
  <2>1. recent = {}
    BY DEF Init
  <2> QED
    BY <2>1 DEF DayInv, OnePayoutPerDay
<1>2. TypeInv /\ DayInv /\ [Next]_vars => DayInv'
  BY OneUser, DayInductive
<1>3. DayInv => OnePayoutPerDay
  BY DEF DayInv
<1> QED
  BY TypeInit, TypeInductive, <1>1, <1>2, <1>3, PTL DEF Spec

(***************************************************************************)
(* Decisions and entries                                                   *)
(***************************************************************************)

\* An approval decides about an entry that exists, and says what the entry says.
Decided(k) ==
  /\ approval[k] # "none" => Exists(k)
  /\ approval[k] = "APPROVED" => ledger[k].status = "completed"
  /\ approval[k] = "REJECTED" => ledger[k].status = "rejected"

\* An administrator who is deciding has seen PENDING, and with one of them at a
\* time nobody else has decided since.
Deciding(a) ==
  /\ task[a].pc \in { "execute", "approve", "reject", "refuse" } =>
       approval[task[a].entry] = "PENDING"
  /\ At(a, "approve") => ledger[task[a].entry].status = "completed"
  /\ At(a, "refuse") => ledger[task[a].entry].status = "rejected"

DecisionInv == (\A k \in Keys : Decided(k)) /\ (\A a \in Admins : Deciding(a))

LEMMA DecisionInductive ==
  ASSUME OneAdmin, TypeInv, DecisionInv, [Next]_vars
  PROVE  DecisionInv'
<1>0. /\ ledger \in [ Entries -> [ status : { "none", "pending", "completed", "rejected" },
                                   amount : Int ] ]
      /\ approval \in [ Keys -> { "none", "PENDING", "APPROVED", "REJECTED" } ]
      /\ task \in [ Slots -> TaskStates ] /\ TasksFit
      /\ Keys \subseteq Entries /\ Users \subseteq Slots /\ Admins \subseteq Slots
      /\ Users \cap Admins = {}
      /\ IdleTask.pc = "idle"
  BY Typed DEF TypeInv, TypeOK, IdleTask
\* Nothing was decided, and no administrator is further than before.
<1>1. ASSUME approval' = approval, \A k \in Keys : ledger'[k] = ledger[k],
             \A a \in Admins : task'[a] = task[a] \/ task'[a].pc \in { "idle", "withdraw" }
      PROVE  DecisionInv'
  BY <1>0, <1>1 DEF DecisionInv, Decided, Deciding, Exists, At, TasksFit
<1>2. ASSUME NEW s \in Slots, Finish(s)
      PROVE  \A a \in Admins : task'[a] = task[a] \/ task'[a].pc \in { "idle", "withdraw" }
  BY <1>0, <1>2 DEF Finish
<1>3. ASSUME NEW u \in Users, RequestBatch(u) PROVE DecisionInv'
  <2> DEFINE k == task[u].entry
  <2>1. k \in Keys
    BY <1>0, <1>3 DEF RequestBatch, TasksFit, At
  <2>2. CASE Exists(k)
    BY <1>0, <1>1, <1>2, <1>3, <2>2 DEF RequestBatch
  <2>3. CASE ~Exists(k)
    <3>1. \A a \in Admins : task'[a] = task[a]
      BY <1>0, <1>3 DEF RequestBatch, Finish
    <3>2. /\ approval[k] = "none"
          /\ approval' = [ approval EXCEPT ![k] = "PENDING" ]
          /\ ledger'[k].status = "pending"
          /\ \A j \in Keys : j # k => ledger'[j] = ledger[j]
      BY <1>0, <1>3, <2>1, <2>3 DEF RequestBatch, Enter, DecisionInv, Decided
    <3>3. \A j \in Keys : Decided(j)'
      BY <1>0, <2>1, <3>2 DEF DecisionInv, Decided, Exists
    <3>4. \A a \in Admins : Deciding(a)'
      BY <1>0, <2>1, <3>1, <3>2 DEF DecisionInv, Deciding, At, TasksFit
    <3> QED
      BY <3>3, <3>4 DEF DecisionInv
  <2> QED
    BY <2>2, <2>3
<1>4. CASE UserNext
  <2>1. ASSUME NEW u \in Users, ~RequestBatch(u),
               \/ \E k \in Keys, amount \in Amounts : RequestPayout(u, k, amount)
               \/ RequestReadUser(u) \/ RequestReadBalance(u) \/ RequestVelocity(u)
        PROVE  DecisionInv'
    <3>1. approval' = approval /\ ledger' = ledger
      BY <2>1 DEF RequestPayout, RequestReadUser, RequestReadBalance, RequestVelocity
    <3>2. \E state : task' = [ task EXCEPT ![u] = state ]
      BY <2>1 DEF RequestPayout, RequestReadUser, RequestReadBalance, RequestVelocity, Goto, Finish
    <3>3. \A a \in Admins : task'[a] = task[a]
      BY <1>0, <3>2
    <3> QED
      BY <1>1, <3>1, <3>3
  <2> QED
    BY <1>3, <1>4, <2>1 DEF UserNext
<1>5. ASSUME NEW a \in Admins, NEW k \in Keys, NEW pc \in { "execute", "reject" },
             ReadApproval(a, k, pc)
      PROVE  DecisionInv'
  <2> DEFINE state == [ IdleTask EXCEPT !.pc = pc, !.entry = k ]
  <2>1. state.pc = pc /\ state.entry = k
    BY DEF IdleTask
  <2>2. task' = [ task EXCEPT ![a] = state ] /\ approval' = approval /\ ledger' = ledger
    BY <1>5 DEF ReadApproval
  <2>3. approval[k] = "PENDING"
    BY <1>5 DEF ReadApproval
  <2> HIDE DEF state
  <2> QED
    BY <1>0, <2>1, <2>2, <2>3 DEF DecisionInv, Decided, Deciding, Exists, At
\* The steps that decide: with one administrator, only task[a] is concerned.
<1>6. ASSUME NEW a \in Admins, NEW status \in { "completed", "rejected" },
             NEW pc \in { "approve", "refuse" },
             (status = "completed") <=> (pc = "approve"),
             task[a].pc \in { "execute", "reject" },
             approval' = approval,
             ledger'[task[a].entry].status = status,
             \A j \in Keys : j # task[a].entry => ledger'[j] = ledger[j],
             task' = [ task EXCEPT ![a].pc = pc ]
      PROVE  DecisionInv'
  <2> DEFINE k == task[a].entry
  <2>1. k \in Keys /\ approval[k] = "PENDING"
    BY <1>0, <1>6 DEF DecisionInv, Deciding, TasksFit
  <2>2. task'[a].pc = pc /\ task'[a].entry = k
    BY <1>0, <1>6 DEF TaskStates
  <2>3. \A j \in Keys : Decided(j)'
    BY <1>6, <2>1 DEF DecisionInv, Decided, Exists
  <2>4. \A b \in Admins : Deciding(b)'
    BY <1>6, <2>1, <2>2, OneAdmin DEF OneAdmin, Deciding, At
  <2> QED
    BY <2>3, <2>4 DEF DecisionInv
<1>7. ASSUME NEW a \in Admins, ExecuteLedger(a) PROVE DecisionInv'
  BY <1>0, <1>6, <1>7 DEF ExecuteLedger, Goto, At, TasksFit
<1>8. ASSUME NEW a \in Admins, RejectRefund(a) PROVE DecisionInv'
  BY <1>0, <1>6, <1>8 DEF RejectRefund, Goto, At, TasksFit
<1>9. ASSUME NEW a \in Admins, ExecuteMark(a) \/ RejectMark(a) PROVE DecisionInv'
  <2> DEFINE k == task[a].entry
  <2>1. /\ k \in Keys /\ ledger' = ledger /\ Finish(a)
        /\ \/ ledger[k].status = "completed" /\ approval' = [ approval EXCEPT ![k] = "APPROVED" ]
           \/ ledger[k].status = "rejected" /\ approval' = [ approval EXCEPT ![k] = "REJECTED" ]
    BY <1>0, <1>9 DEF ExecuteMark, RejectMark, DecisionInv, Deciding, TasksFit, At
  <2>2. \A j \in Keys : Decided(j)'
    BY <1>0, <2>1 DEF DecisionInv, Decided, Exists
  <2>3. \A b \in Admins : Deciding(b)'
    BY <1>0, <2>1, OneAdmin DEF OneAdmin, Finish, Deciding, At
  <2> QED
    BY <2>2, <2>3 DEF DecisionInv
<1>10. CASE ProcessPayoutNext
  <2>1. ASSUME NEW a \in Admins, NEW w \in Withdrawals, NEW amount \in Amounts,
               ProcessPayoutRead(a, w, amount)
        PROVE  DecisionInv'
    <3>1. \A b \in Admins : task'[b] = task[b] \/ task'[b].pc \in { "idle", "withdraw" }
      BY <1>0, <2>1 DEF ProcessPayoutRead
    <3> QED
      BY <1>1, <2>1, <3>1 DEF ProcessPayoutRead
  <2>2. ASSUME NEW a \in Admins, ProcessPayoutWrite(a) PROVE DecisionInv'
    <3>1. task[a].entry \in Withdrawals
      BY <1>0, <2>2 DEF ProcessPayoutWrite, TasksFit
    <3>2. \A k \in Keys : ledger'[k] = ledger[k]
      BY <1>0, <2>2, <3>1, PayoutAssumption DEF ProcessPayoutWrite, Enter
    <3> QED
      BY <1>0, <1>1, <1>2, <2>2, <3>2 DEF ProcessPayoutWrite
  <2> QED
    BY <1>10, <2>1, <2>2 DEF ProcessPayoutNext
<1>11. CASE AdjustNext
  <2>1. PICK a \in Admins, m \in Adjustments, x \in Int : AdjustWallet(a, m, x)
    <3>1. \A x \in Amounts : x \in Int /\ -x \in Int
      BY PayoutAssumption
    <3> QED
      BY <1>11, <3>1 DEF AdjustNext
  <2>2. \A k \in Keys : ledger'[k] = ledger[k]
    BY <1>0, <2>1, PayoutAssumption DEF AdjustWallet, Enter
  <2> QED
    BY <1>1, <2>1, <2>2 DEF AdjustWallet
<1>12. ASSUME NEW k \in Keys, DayPasses(k) PROVE DecisionInv'
  BY <1>1, <1>12 DEF DayPasses
<1>13. ASSUME NEW s \in Slots, Fail(s) PROVE DecisionInv'
  BY <1>1, <1>2, <1>13 DEF Fail
<1>14. CASE UNCHANGED vars
  BY <1>1, <1>14 DEF vars
<1>15. CASE ApprovalNext
  BY <1>5, <1>7, <1>8, <1>9, <1>15 DEF ApprovalNext
<1>16. CASE Next
  BY <1>4, <1>10, <1>11, <1>12, <1>13, <1>15, <1>16 DEF Next
<1> QED
  BY <1>14, <1>16

\* With one administrator at a time what was decided is what the ledger says,
\* even if a decision fails halfway and is taken again, differently.
THEOREM DecisionsAgree == ASSUME OneAdmin PROVE Spec => []DecisionInLedger
<1>1. Init => DecisionInv
  <2> SUFFICES ASSUME Init PROVE DecisionInv
    OBVIOUS
  <2>1. /\ \A k \in Keys : approval[k] = "none"
        /\ \A a \in Admins : task[a].pc = "idle"
    BY DEF Init, IdleTask, Slots
  <2> QED
    BY <2>1 DEF DecisionInv, Decided, Deciding, At
<1>2. TypeInv /\ DecisionInv /\ [Next]_vars => DecisionInv'
  BY OneAdmin, DecisionInductive
<1>3. DecisionInv => DecisionInLedger
  BY DEF DecisionInv, Decided, DecisionInLedger
<1> QED
  BY TypeInit, TypeInductive, <1>1, <1>2, <1>3, PTL DEF Spec
(***************************************************************************)
(* Money                                                                   *)
(***************************************************************************)

\* What the entries that count say: those not rejected, those getBalance adds
\* up, and the deductions of administrators.
Kept == { e \in Entries : ledger[e].status # "rejected" }

Counted == { e \in Entries : ledger[e].status = "completed" \/ ledger[e].amount < 0 }

Deducted == { e \in Adjustments \cup Withdrawals : ledger[e].amount < 0 }

SumsOK ==
  /\ SumOf(Kept) \in Int /\ Balance \in Int
  /\ SumOf(Deducted) \in Int /\ SumOf(Deducted) <= 0

LEMMA SumsTyped == TypeInv => SumsOK
<1> SUFFICES ASSUME TypeInv PROVE SumsOK
  OBVIOUS
<1> DEFINE f == [ e \in Entries |-> ledger[e].amount ]
<1>1. IsFiniteSet(Entries) /\ \A e \in Entries : f[e] \in Int
  BY Typed, PayoutAssumption
<1>2. Kept \subseteq Entries /\ Counted \subseteq Entries /\ Deducted \subseteq Entries
  BY DEF Kept, Counted, Deducted, Entries
<1>3. IsFiniteSet(Kept) /\ IsFiniteSet(Counted) /\ IsFiniteSet(Deducted)
  BY <1>1, <1>2, FS_Subset
<1>4. \A e \in Deducted : f[e] \in Int /\ f[e] <= 0
  BY <1>1, <1>2 DEF Deducted
<1> HIDE DEF f
<1>5. SumFunctionOnSet(f, Kept) \in Int /\ SumFunctionOnSet(f, Counted) \in Int
  BY <1>1, <1>2, <1>3, SumType
<1>6. SumFunctionOnSet(f, Deducted) \in Int /\ SumFunctionOnSet(f, Deducted) <= 0
  BY <1>3, <1>4, SumNotPositive
<1> QED
  BY <1>5, <1>6, PayoutAssumption DEF SumsOK, Balance, Counted, SumOf, f

\* An entry that is written changes the sums by what it adds to each.
LEMMA EntryChange ==
  ASSUME TypeInv, TypeInv', NEW e \in Entries,
         \A x \in Entries : x # e => ledger'[x] = ledger[x]
  PROVE  LET old == ledger[e]
             new == ledger'[e]
         IN  /\ SumOf(Kept)' - (IF new.status # "rejected" THEN new.amount ELSE 0)
                  = SumOf(Kept) - (IF old.status # "rejected" THEN old.amount ELSE 0)
             /\ Balance' - (IF new.status = "completed" \/ new.amount < 0 THEN new.amount ELSE 0)
                  = Balance - (IF old.status = "completed" \/ old.amount < 0 THEN old.amount ELSE 0)
             /\ SumOf(Deducted)' - (IF e \notin Keys /\ new.amount < 0 THEN new.amount ELSE 0)
                  = SumOf(Deducted) - (IF e \notin Keys /\ old.amount < 0 THEN old.amount ELSE 0)
<1> DEFINE f == [ x \in Entries |-> ledger[x].amount ]
           g == [ x \in Entries |-> ledger'[x].amount ]
<1>1. /\ IsFiniteSet(Entries)
      /\ \A x \in Entries : f[x] \in Int /\ g[x] \in Int
      /\ \A x \in Entries : x # e => g[x] = f[x]
      /\ f[e] = ledger[e].amount /\ g[e] = ledger'[e].amount
  <2>1. \A x \in Entries : ledger[x].amount \in Int /\ ledger'[x].amount \in Int
    BY DEF TypeInv, TypeOK
  <2> QED
    BY <2>1, PayoutAssumption
<1>2. /\ Kept \subseteq Entries /\ Counted \subseteq Entries /\ Deducted \subseteq Entries
      /\ Kept' \subseteq Entries /\ Counted' \subseteq Entries /\ Deducted' \subseteq Entries
  BY DEF Kept, Counted, Deducted, Entries
<1>3. /\ Kept \ { e } = Kept' \ { e }
      /\ Counted \ { e } = Counted' \ { e }
      /\ Deducted \ { e } = Deducted' \ { e }
  <2>1. \A x \in Adjustments \cup Withdrawals : x \in Entries
    BY DEF Entries
  <2> QED
    BY <2>1 DEF Kept, Counted, Deducted
<1>4. /\ e \in Kept <=> ledger[e].status # "rejected"
      /\ e \in Kept' <=> ledger'[e].status # "rejected"
      /\ e \in Counted <=> ledger[e].status = "completed" \/ ledger[e].amount < 0
      /\ e \in Counted' <=> ledger'[e].status = "completed" \/ ledger'[e].amount < 0
      /\ e \in Deducted <=> e \notin Keys /\ ledger[e].amount < 0
      /\ e \in Deducted' <=> e \notin Keys /\ ledger'[e].amount < 0
  <2>1. e \in Adjustments \cup Withdrawals <=> e \notin Keys
    BY PayoutAssumption DEF Entries
  <2> QED
    BY <2>1 DEF Kept, Counted, Deducted
<1>5. /\ SumOf(Kept) = SumFunctionOnSet(f, Kept)
      /\ SumOf(Kept)' = SumFunctionOnSet(g, Kept')
      /\ Balance = Opening + SumFunctionOnSet(f, Counted)
      /\ Balance' = Opening + SumFunctionOnSet(g, Counted')
      /\ SumOf(Deducted) = SumFunctionOnSet(f, Deducted)
      /\ SumOf(Deducted)' = SumFunctionOnSet(g, Deducted')
  BY DEF SumOf, Balance, Counted
<1> HIDE DEF f, g
<1>6. SumFunctionOnSet(g, Kept') - (IF e \in Kept' THEN g[e] ELSE 0)
        = SumFunctionOnSet(f, Kept) - (IF e \in Kept THEN f[e] ELSE 0)
  BY <1>1, <1>2, <1>3, SumPartChange
<1>7. SumFunctionOnSet(g, Counted') - (IF e \in Counted' THEN g[e] ELSE 0)
        = SumFunctionOnSet(f, Counted) - (IF e \in Counted THEN f[e] ELSE 0)
  BY <1>1, <1>2, <1>3, SumPartChange
<1>8. SumFunctionOnSet(g, Deducted') - (IF e \in Deducted' THEN g[e] ELSE 0)
        = SumFunctionOnSet(f, Deducted) - (IF e \in Deducted THEN f[e] ELSE 0)
  BY <1>1, <1>2, <1>3, SumPartChange
<1>9. /\ SumFunctionOnSet(f, Counted) \in Int /\ SumFunctionOnSet(g, Counted') \in Int
      /\ Opening \in Int
  <2>1. IsFiniteSet(Counted) /\ IsFiniteSet(Counted')
    BY <1>1, <1>2, FS_Subset
  <2> QED
    BY <1>1, <1>2, <2>1, SumType, PayoutAssumption
<1> QED
  BY <1>1, <1>4, <1>5, <1>6, <1>7, <1>8, <1>9

\* Amounts are not negative; processPayout itself looks at no sign.
NaturalAmounts == Amounts \subseteq Nat

\* What is no entry has no amount, a request takes money out of the wallet, and
\* so do the calls under way.
LedgerInv ==
  /\ \A e \in Entries : ~Exists(e) => ledger[e].amount = 0
  /\ \A k \in Keys : ledger[k].amount <= 0
  /\ \A a \in Admins : At(a, "withdraw") => task[a].amount >= 0
  /\ \A u \in Users : ~At(u, "idle") => task[u].amount > 0

\* The steps that write the ledger, with what they write.
Payment(k, amount) ==
  /\ ~Exists(k)
  /\ wallet' = wallet - amount
  /\ restaurant' = restaurant
  /\ Enter(k, "pending", -amount)

Withdrawal(a) ==
  LET t == task[a]
      fromWallet == IF t.wallet > 0 THEN Least(t.wallet, t.amount) ELSE 0
      fromRest == Least(t.pending, t.amount - fromWallet)
  IN  /\ ~Exists(t.entry)
      /\ wallet' = wallet - fromWallet
      /\ restaurant'.pending = restaurant.pending - (IF fromRest > 0 THEN fromRest ELSE 0)
      /\ Enter(t.entry, "completed", -t.amount)

Refund(k) ==
  /\ wallet' = wallet - ledger[k].amount
  /\ restaurant' = restaurant
  /\ ledger' = [ ledger EXCEPT ![k].status = "rejected" ]

\* How a step may move money.
LEMMA StepCases ==
  ASSUME TypeInv, [Next]_vars
  PROVE  \/ ledger' = ledger /\ wallet' = wallet /\ restaurant' = restaurant
         \/ \E u \in Users : RequestBatch(u) /\ Payment(task[u].entry, task[u].amount)
         \/ \E a \in Admins : ExecuteLedger(a)
         \/ \E a \in Admins : RejectRefund(a) /\ Refund(task[a].entry)
         \/ \E a \in Admins : ProcessPayoutWrite(a) /\ Withdrawal(a)
         \/ \E a \in Admins, m \in Adjustments, x \in Int : AdjustWallet(a, m, x)
<1> DEFINE Still == ledger' = ledger /\ wallet' = wallet /\ restaurant' = restaurant
<1>1. ASSUME NEW u \in Users, RequestBatch(u)
      PROVE  Still \/ Payment(task[u].entry, task[u].amount)
  BY <1>1 DEF RequestBatch, Payment
<1>2. CASE UserNext
  BY <1>1, <1>2 DEF UserNext, RequestPayout, RequestReadUser, RequestReadBalance, RequestVelocity
<1>3. CASE ApprovalNext
  BY <1>3 DEF ApprovalNext, ReadApproval, ExecuteMark, RejectMark, RejectRefund, Refund
<1>4. ASSUME NEW a \in Admins, ProcessPayoutWrite(a)
      PROVE  Still \/ Withdrawal(a)
  <2>1. CASE Exists(task[a].entry)
    BY <1>4, <2>1 DEF ProcessPayoutWrite
  <2>2. CASE ~Exists(task[a].entry)
    BY <1>4, <2>2 DEF ProcessPayoutWrite, Withdrawal, TypeInv, TypeOK
  <2> QED
    BY <2>1, <2>2
<1>5. CASE ProcessPayoutNext
  BY <1>4, <1>5 DEF ProcessPayoutNext, ProcessPayoutRead
<1>6. CASE AdjustNext
  <2>1. \A x \in Amounts : x \in Int /\ -x \in Int
    BY PayoutAssumption
  <2> QED
    BY <1>6, <2>1 DEF AdjustNext
<1>7. CASE (\E k \in Keys : DayPasses(k)) \/ (\E s \in Slots : Fail(s)) \/ UNCHANGED vars
  BY <1>7 DEF DayPasses, Fail, vars
<1> QED
  BY <1>2, <1>3, <1>5, <1>6, <1>7 DEF Next

LEMMA LedgerInductive ==
  ASSUME NaturalAmounts, TypeInv, TypeInv', LedgerInv, [Next]_vars
  PROVE  LedgerInv'
<1>0. /\ ledger \in [ Entries -> [ status : { "none", "pending", "completed", "rejected" },
                                   amount : Int ] ]
      /\ task \in [ Slots -> TaskStates ] /\ TasksFit
      /\ Keys \subseteq Entries /\ Users \subseteq Slots /\ Admins \subseteq Slots
      /\ Users \cap Admins = {}
      /\ IdleTask.pc = "idle"
  BY Typed DEF TypeInv, TypeOK, IdleTask
<1>1. /\ \A e \in Entries : ~Exists(e)' => ledger'[e].amount = 0
      /\ \A k \in Keys : ledger'[k].amount <= 0
  <2>1. CASE ledger' = ledger
    BY <2>1 DEF LedgerInv, Exists
  <2>2. ASSUME NEW u \in Users, RequestBatch(u), Payment(task[u].entry, task[u].amount)
        PROVE  <1>1!1 /\ <1>1!2
    <3>1. task[u].entry \in Keys /\ task[u].amount > 0 /\ task[u].amount \in Int
      BY <1>0, <2>2, Typed DEF RequestBatch, LedgerInv, TasksFit, At
    <3> QED
      BY <1>0, <2>2, <3>1 DEF Payment, Enter, LedgerInv, Exists
  <2>3. ASSUME NEW a \in Admins, ExecuteLedger(a) \/ RejectRefund(a)
        PROVE  <1>1!1 /\ <1>1!2
    <3>1. PICK status \in { "completed", "rejected" } :
            ledger' = [ ledger EXCEPT ![task[a].entry].status = status ]
      BY <2>3 DEF ExecuteLedger, RejectRefund
    <3> QED
      BY <1>0, <3>1 DEF LedgerInv, Exists
  <2>4. ASSUME NEW a \in Admins, ProcessPayoutWrite(a), Withdrawal(a)
        PROVE  <1>1!1 /\ <1>1!2
    <3>1. task[a].entry \in Entries /\ task[a].entry \notin Keys
      BY <1>0, <2>4, PayoutAssumption DEF ProcessPayoutWrite, TasksFit, Entries
    <3> QED
      BY <1>0, <2>4, <3>1 DEF Withdrawal, Enter, LedgerInv, Exists
  <2>5. ASSUME NEW a \in Admins, NEW m \in Adjustments, NEW x \in Int, AdjustWallet(a, m, x)
        PROVE  <1>1!1 /\ <1>1!2
    <3>1. m \in Entries /\ m \notin Keys
      BY PayoutAssumption DEF Entries
    <3> QED
      BY <1>0, <2>5, <3>1 DEF AdjustWallet, Enter, LedgerInv, Exists
  <2> QED
    BY <2>1, <2>2, <2>3, <2>4, <2>5, StepCases
<1>2. \A a \in Admins : At(a, "withdraw")' => task'[a].amount >= 0
  <2>1. ASSUME NEW a \in Admins, task'[a] = task[a] \/ task'[a].pc # "withdraw"
        PROVE  At(a, "withdraw")' => task'[a].amount >= 0
    BY <2>1 DEF LedgerInv, At
  <2>2. ASSUME NEW s \in Slots, Finish(s)
        PROVE  \A a \in Admins : task'[a] = task[a] \/ task'[a].pc # "withdraw"
    BY <1>0, <2>2 DEF Finish
  <2>3. CASE UserNext
    <3>1. \E u \in Users : \E state : task' = [ task EXCEPT ![u] = state ]
      BY <2>3 DEF UserNext, RequestPayout, RequestReadUser, RequestReadBalance, RequestVelocity,
                  RequestBatch, Goto, Finish
    <3>2. \A a \in Admins : task'[a] = task[a]
      BY <1>0, <3>1
    <3> QED
      BY <2>1, <3>2
  <2>4. CASE ApprovalNext
    <3>1. ASSUME NEW a \in Admins, NEW k \in Keys, NEW pc \in { "execute", "reject" },
                 ReadApproval(a, k, pc)
          PROVE  \A b \in Admins : task'[b] = task[b] \/ task'[b].pc # "withdraw"
      <4>1. [ IdleTask EXCEPT !.pc = pc, !.entry = k ].pc = pc
        BY DEF IdleTask
      <4> QED
        BY <1>0, <3>1, <4>1 DEF ReadApproval
    <3>2. ASSUME NEW a \in Admins, NEW pc \in { "approve", "refuse" }, Goto(a, pc)
          PROVE  \A b \in Admins : task'[b] = task[b] \/ task'[b].pc # "withdraw"
      <4>1. [ task[a] EXCEPT !.pc = pc ].pc = pc
        BY <1>0 DEF TaskStates
      <4> QED
        BY <1>0, <3>2, <4>1 DEF Goto
    <3> QED
      BY <1>0, <2>1, <2>2, <2>4, <3>1, <3>2
      DEF ApprovalNext, ExecuteLedger, ExecuteMark, RejectRefund, RejectMark
  <2>5. ASSUME NEW a \in Admins, NEW w \in Withdrawals, NEW amount \in Amounts,
               ProcessPayoutRead(a, w, amount)
        PROVE  \A b \in Admins : At(b, "withdraw")' => task'[b].amount >= 0
    <3>1. amount >= 0
      BY DEF NaturalAmounts
    <3>2. \A b \in Admins : task'[b] = task[b] \/ task'[b].amount = amount
      BY <1>0, <2>5 DEF ProcessPayoutRead
    <3> QED
      BY <2>1, <3>1, <3>2
  <2>6. CASE ProcessPayoutNext
    BY <1>0, <2>1, <2>2, <2>5, <2>6 DEF ProcessPayoutNext, ProcessPayoutWrite
  <2>7. CASE AdjustNext \/ (\E k \in Keys : DayPasses(k)) \/ UNCHANGED vars
    <3>1. task' = task
      BY <2>7 DEF AdjustNext, AdjustWallet, DayPasses, vars
    <3> QED
      BY <2>1, <3>1
  <2>8. ASSUME NEW s \in Slots, Fail(s)
        PROVE  \A a \in Admins : At(a, "withdraw")' => task'[a].amount >= 0
    BY <2>1, <2>2, <2>8 DEF Fail
  <2> QED
    BY <2>3, <2>4, <2>6, <2>7, <2>8 DEF Next
<1>3. \A u \in Users : ~At(u, "idle")' => task'[u].amount > 0
  <2>1. ASSUME NEW u \in Users,
               \/ task'[u].pc = "idle"
               \/ task'[u] = task[u]
               \/ task[u].pc # "idle" /\ task'[u].amount = task[u].amount
        PROVE  ~At(u, "idle")' => task'[u].amount > 0
    BY <2>1 DEF LedgerInv, At
  <2>2. ASSUME NEW s \in Slots, Finish(s)
        PROVE  \A u \in Users : task'[u].pc = "idle" \/ task'[u] = task[u]
    BY <1>0, <2>2 DEF Finish
  <2>3. ASSUME NEW u \in Users, NEW k \in Keys, NEW amount \in Amounts, RequestPayout(u, k, amount)
        PROVE  \A v \in Users : ~At(v, "idle")' => task'[v].amount > 0
    <3>1. [ IdleTask EXCEPT !.pc = "user", !.entry = k, !.amount = amount ].amount = amount
      BY DEF IdleTask
    <3>2. \A v \in Users : task'[v] = task[v] \/ task'[v].amount = amount
      BY <1>0, <2>3, <3>1 DEF RequestPayout
    <3> QED
      BY <2>1, <2>3, <3>2 DEF RequestPayout
  <2>4. ASSUME NEW u \in Users, RequestReadUser(u) \/ RequestReadBalance(u) \/ RequestVelocity(u)
        PROVE  \A v \in Users : ~At(v, "idle")' => task'[v].amount > 0
    <3>1. task[u].pc # "idle"
      BY <2>4 DEF RequestReadUser, RequestReadBalance, RequestVelocity, At
    <3>2. \/ Finish(u)
          \/ \E state : task' = [ task EXCEPT ![u] = state ] /\ state.amount = task[u].amount
      BY <1>0, <2>4 DEF RequestReadUser, RequestReadBalance, RequestVelocity, Goto, TaskStates
    <3>3. \A v \in Users : \/ task'[v].pc = "idle"
                           \/ task'[v] = task[v]
                           \/ task[v].pc # "idle" /\ task'[v].amount = task[v].amount
      BY <1>0, <2>2, <3>1, <3>2
    <3> QED
      BY <2>1, <3>3
  <2>5. CASE UserNext
    BY <1>0, <2>1, <2>2, <2>3, <2>4, <2>5 DEF UserNext, RequestBatch
  <2>6. CASE ApprovalNext \/ ProcessPayoutNext \/ AdjustNext
    <3>1. (\E a \in Admins : \E state : task' = [ task EXCEPT ![a] = state ]) \/ task' = task
      BY <2>6 DEF ApprovalNext, ProcessPayoutNext, AdjustNext, ReadApproval, ExecuteLedger,
                  ExecuteMark, RejectRefund, RejectMark, ProcessPayoutRead, ProcessPayoutWrite,
                  AdjustWallet, Goto, Finish
    <3>2. \A u \in Users : task'[u] = task[u]
      BY <1>0, <3>1
    <3> QED
      BY <2>1, <3>2
  <2>7. ASSUME NEW s \in Slots, Fail(s)
        PROVE  \A u \in Users : ~At(u, "idle")' => task'[u].amount > 0
    BY <2>1, <2>2, <2>7 DEF Fail
  <2>8. CASE (\E k \in Keys : DayPasses(k)) \/ UNCHANGED vars
    BY <2>1, <2>8 DEF DayPasses, vars
  <2> QED
    BY <2>5, <2>6, <2>7, <2>8 DEF Next
<1> QED
  BY <1>1, <1>2, <1>3 DEF LedgerInv

\* The wallet never holds less than getBalance says: a rejected request stays
\* counted and a restaurant may have paid.  What is left of it apart from the
\* deductions of administrators covers the request that has passed its check.
Remains == wallet - SumOf(Deducted)

CoverInv ==
  /\ wallet >= Balance
  /\ Remains >= 0
  /\ \A u \in Users : task[u].pc \in { "velocity", "batch" } => Remains >= task[u].amount

\* Every other step leaves as much as there was, and getBalance behind the wallet.
LEMMA MoneyKept ==
  ASSUME NaturalAmounts, TypeInv, TypeInv', LedgerInv, LedgerInv', wallet >= Balance, [Next]_vars,
         \A u \in Users : ~(RequestBatch(u) /\ Payment(task[u].entry, task[u].amount))
  PROVE  wallet' >= Balance' /\ Remains' >= Remains
<1>0. /\ wallet \in Int /\ wallet' \in Int
      /\ Balance \in Int /\ Balance' \in Int
      /\ SumOf(Deducted) \in Int /\ SumOf(Deducted)' \in Int
      /\ ledger \in [ Entries -> [ status : { "none", "pending", "completed", "rejected" },
                                   amount : Int ] ]
      /\ Keys \subseteq Entries /\ TasksFit
  <2>1. SumsOK /\ SumsOK'
    BY SumsTyped, PTL
  <2> QED
    BY <2>1, Typed DEF SumsOK, TypeInv, TypeOK
<1>1. CASE ledger' = ledger /\ wallet' = wallet
  <2>1. Balance' = Balance /\ SumOf(Deducted)' = SumOf(Deducted)
    BY <1>1 DEF Balance, SumOf, Deducted
  <2> QED
    BY <1>0, <1>1, <2>1 DEF Remains
<1>2. ASSUME NEW a \in Admins, ExecuteLedger(a) PROVE wallet' >= Balance' /\ Remains' >= Remains
  <2> DEFINE k == task[a].entry
  <2>1. k \in Keys /\ ledger[k].amount <= 0 /\ ledger[k].amount \in Int
    BY <1>0, <1>2 DEF ExecuteLedger, TasksFit, LedgerInv, At
  <2>2. /\ wallet' = wallet /\ ledger'[k].status = "completed" /\ ledger'[k].amount = ledger[k].amount
        /\ \A x \in Entries : x # k => ledger'[x] = ledger[x]
    BY <1>0, <1>2, <2>1 DEF ExecuteLedger
  <2> HIDE DEF k
  <2>3. Balance' = Balance /\ SumOf(Deducted)' = SumOf(Deducted)
    BY <1>0, <2>1, <2>2, EntryChange
  <2> QED
    BY <1>0, <2>2, <2>3 DEF Remains
<1>3. ASSUME NEW a \in Admins, RejectRefund(a), Refund(task[a].entry)
      PROVE  wallet' >= Balance' /\ Remains' >= Remains
  <2> DEFINE k == task[a].entry
  <2>1. k \in Keys /\ ledger[k].amount <= 0 /\ ledger[k].amount \in Int
    BY <1>0, <1>3 DEF RejectRefund, TasksFit, LedgerInv, At
  <2>2. /\ wallet' = wallet - ledger[k].amount
        /\ ledger'[k].status = "rejected" /\ ledger'[k].amount = ledger[k].amount
        /\ \A x \in Entries : x # k => ledger'[x] = ledger[x]
    BY <1>0, <1>3, <2>1 DEF Refund
  <2> HIDE DEF k
  <2>3. Balance' = Balance /\ SumOf(Deducted)' = SumOf(Deducted)
    BY <1>0, <2>1, <2>2, EntryChange
  <2> QED
    BY <1>0, <2>1, <2>2, <2>3 DEF Remains
<1>4. ASSUME NEW a \in Admins, ProcessPayoutWrite(a), Withdrawal(a)
      PROVE  wallet' >= Balance' /\ Remains' >= Remains
  <2> DEFINE w == task[a].entry
             amount == task[a].amount
             fromWallet == IF task[a].wallet > 0 THEN Least(task[a].wallet, amount) ELSE 0
  <2>1. w \in Entries /\ w \notin Keys /\ ~Exists(w) /\ amount \in Int /\ amount >= 0
    BY <1>0, <1>4, Typed, PayoutAssumption
    DEF ProcessPayoutWrite, Withdrawal, TasksFit, LedgerInv, Entries, Slots
  <2>2. fromWallet \in Int /\ fromWallet <= amount
    BY <2>1, Typed DEF Least, Slots
  <2>3. /\ wallet' = wallet - fromWallet
        /\ ledger'[w].status = "completed" /\ ledger'[w].amount = -amount
        /\ \A x \in Entries : x # w => ledger'[x] = ledger[x]
    BY <1>0, <1>4, <2>1 DEF Withdrawal, Enter
  <2>4. ledger[w].amount = 0 /\ ledger[w].status = "none"
    BY <2>1 DEF LedgerInv, Exists
  <2> HIDE DEF w, amount, fromWallet
  <2>5. Balance' = Balance - amount /\ SumOf(Deducted)' = SumOf(Deducted) - amount
    BY <1>0, <2>1, <2>3, <2>4, EntryChange
  <2> QED
    BY <1>0, <2>1, <2>2, <2>3, <2>5 DEF Remains
<1>5. ASSUME NEW a \in Admins, NEW m \in Adjustments, NEW x \in Int, AdjustWallet(a, m, x)
      PROVE  wallet' >= Balance' /\ Remains' >= Remains
  <2>1. m \in Entries /\ m \notin Keys
    BY PayoutAssumption DEF Entries
  <2>2. /\ wallet' = wallet + x
        /\ ledger'[m].status = "completed" /\ ledger'[m].amount = x
        /\ \A e \in Entries : e # m => ledger'[e] = ledger[e]
    BY <1>0, <1>5, <2>1 DEF AdjustWallet, Enter
  <2>3. ledger[m].amount = 0 /\ ledger[m].status = "none"
    BY <1>5, <2>1 DEF AdjustWallet, LedgerInv, Exists
  <2>4. /\ Balance' = Balance + x
        /\ SumOf(Deducted)' = SumOf(Deducted) + (IF x < 0 THEN x ELSE 0)
    BY <1>0, <2>1, <2>2, <2>3, EntryChange
  <2> QED
    BY <1>0, <2>2, <2>4 DEF Remains
<1> QED
  BY <1>1, <1>2, <1>3, <1>4, <1>5, StepCases

LEMMA CoverInductive ==
  ASSUME OneUser, NaturalAmounts, TypeInv, TypeInv', LedgerInv, LedgerInv', CoverInv, [Next]_vars
  PROVE  CoverInv'
<1>0. /\ task \in [ Slots -> TaskStates ] /\ TasksFit
      /\ Users \subseteq Slots /\ Admins \subseteq Slots /\ Users \cap Admins = {}
      /\ IdleTask.pc = "idle"
      /\ wallet \in Int /\ wallet' \in Int
      /\ Balance \in Int /\ Balance' \in Int
      /\ SumOf(Deducted) \in Int /\ SumOf(Deducted) <= 0
      /\ SumOf(Deducted)' \in Int
      /\ \A u \in Users : task[u].amount \in Int
  <2>1. SumsOK /\ SumsOK'
    BY SumsTyped, PTL
  <2> QED
    BY <2>1, Typed DEF SumsOK, TypeInv, TypeOK, IdleTask
<1>1. ASSUME NEW u \in Users, RequestBatch(u), Payment(task[u].entry, task[u].amount)
      PROVE  CoverInv'
  <2> DEFINE k == task[u].entry
             amount == task[u].amount
  <2>1. k \in Keys /\ k \in Entries /\ ~Exists(k) /\ amount \in Int /\ amount > 0
    BY <1>0, <1>1, Typed DEF RequestBatch, Payment, TasksFit, LedgerInv, At
  <2>2. /\ wallet' = wallet - amount
        /\ ledger'[k].status = "pending" /\ ledger'[k].amount = -amount
        /\ \A x \in Entries : x # k => ledger'[x] = ledger[x]
    BY <1>1, <2>1 DEF Payment, Enter, TypeInv, TypeOK
  <2>3. ledger[k].amount = 0 /\ ledger[k].status = "none"
    BY <2>1 DEF LedgerInv, Exists
  <2>4. Remains >= amount
    BY <1>1 DEF CoverInv, RequestBatch, At
  <2>5. \A v \in Users : task'[v].pc = "idle"
    BY <1>0, <1>1, OneUser DEF OneUser, RequestBatch, Finish
  <2> HIDE DEF k, amount
  <2>6. Balance' = Balance - amount /\ SumOf(Deducted)' = SumOf(Deducted)
    BY <1>0, <2>1, <2>2, <2>3, EntryChange
  <2> QED
    BY <1>0, <2>1, <2>2, <2>4, <2>5, <2>6 DEF CoverInv, Remains
<1>2. CASE \A u \in Users : ~(RequestBatch(u) /\ Payment(task[u].entry, task[u].amount))
  <2>1. wallet' >= Balance' /\ Remains' >= Remains
    BY <1>2, MoneyKept DEF CoverInv
  <2>2. Remains \in Int /\ Remains' \in Int
    BY <1>0 DEF Remains
  \* A request goes on, or its check has just found the balance.
  <2>3. ASSUME NEW u \in Users, task'[u].pc \in { "velocity", "batch" }
        PROVE  \/ task[u].pc \in { "velocity", "batch" } /\ task'[u].amount = task[u].amount
               \/ Balance >= task[u].amount /\ task'[u].amount = task[u].amount
    <3>1. ASSUME NEW s \in Slots, Finish(s) PROVE task'[u] = task[u]
      BY <1>0, <2>3, <3>1 DEF Finish
    <3>2. ASSUME NEW v \in Users, NEW k \in Keys, NEW amount \in Amounts, RequestPayout(v, k, amount)
          PROVE  task'[u] = task[u]
      <4>1. [ IdleTask EXCEPT !.pc = "user", !.entry = k, !.amount = amount ].pc = "user"
        BY DEF IdleTask
      <4> QED
        BY <1>0, <2>3, <3>2, <4>1 DEF RequestPayout
    <3>3. ASSUME NEW v \in Users, RequestReadUser(v) PROVE task'[u] = task[u]
      BY <1>0, <2>3, <3>3 DEF RequestReadUser, TaskStates
    <3>4. ASSUME NEW v \in Users, RequestReadBalance(v)
          PROVE  \/ task'[u] = task[u]
                 \/ Balance >= task[u].amount /\ task'[u].amount = task[u].amount
      <4>1. CASE Finish(v)
        BY <1>0, <3>1, <4>1
      <4>2. CASE Covers(task[v].wallet, task[v].amount) /\ Goto(v, "velocity")
        BY <1>0, <4>2 DEF Covers, Goto, TaskStates
      <4> QED
        BY <3>4, <4>1, <4>2 DEF RequestReadBalance
    <3>5. ASSUME NEW v \in Users, RequestVelocity(v)
          PROVE  task[u].pc \in { "velocity", "batch" } /\ task'[u].amount = task[u].amount
      <4>1. CASE Finish(v)
        BY <1>0, <2>3, <3>1, <4>1
      <4>2. CASE Goto(v, "batch")
        BY <1>0, <2>3, <3>5, <4>2 DEF RequestVelocity, Goto, TaskStates, At
      <4> QED
        BY <3>5, <4>1, <4>2 DEF RequestVelocity
    <3>6. CASE UserNext
      BY <1>0, <2>3, <3>1, <3>2, <3>3, <3>4, <3>5, <3>6 DEF UserNext, RequestBatch
    <3>7. CASE ApprovalNext \/ ProcessPayoutNext \/ AdjustNext
      <4>1. (\E a \in Admins : \E state : task' = [ task EXCEPT ![a] = state ]) \/ task' = task
        BY <3>7 DEF ApprovalNext, ProcessPayoutNext, AdjustNext, ReadApproval, ExecuteLedger,
                    ExecuteMark, RejectRefund, RejectMark, ProcessPayoutRead, ProcessPayoutWrite,
                    AdjustWallet, Goto, Finish
      <4> QED
        BY <1>0, <2>3, <4>1
    <3>8. CASE (\E s \in Slots : Fail(s)) \/ (\E k \in Keys : DayPasses(k)) \/ UNCHANGED vars
      BY <2>3, <3>1, <3>8 DEF Fail, DayPasses, vars
    <3> QED
      BY <3>6, <3>7, <3>8 DEF Next
  <2>4. ASSUME NEW u \in Users, task'[u].pc \in { "velocity", "batch" }
        PROVE  Remains' >= task'[u].amount
    <3>1. CASE task[u].pc \in { "velocity", "batch" } /\ task'[u].amount = task[u].amount
      BY <1>0, <2>1, <2>2, <3>1 DEF CoverInv
    <3>2. CASE Balance >= task[u].amount /\ task'[u].amount = task[u].amount
      <4>1. Remains >= wallet /\ wallet >= Balance
        BY <1>0 DEF CoverInv, Remains
      <4> QED
        BY <1>0, <2>1, <2>2, <3>2, <4>1
    <3> QED
      BY <2>3, <2>4, <3>1, <3>2
  <2> QED
    BY <2>1, <2>2, <2>4 DEF CoverInv
<1> QED
  BY <1>1, <1>2

LEMMA MoneyInit ==
  ASSUME Init
  PROVE  /\ LedgerInv
         /\ SumOf(Kept) = 0 /\ Balance = Opening /\ SumOf(Deducted) = 0
<1>1. /\ \A e \in Entries : ledger[e].amount = 0 /\ ledger[e].status = "none"
      /\ \A s \in Slots : task[s].pc = "idle"
      /\ Keys \subseteq Entries /\ Users \subseteq Slots /\ Admins \subseteq Slots
  BY DEF Init, IdleTask, Entries, Slots
<1> DEFINE f == [ e \in Entries |-> ledger[e].amount ]
<1>2. Kept \subseteq Entries /\ Counted = {} /\ Deducted = {}
  BY <1>1 DEF Kept, Counted, Deducted, Entries
<1>3. IsFiniteSet(Kept) /\ \A e \in Kept : f[e] = 0
  BY <1>1, <1>2, FS_Subset, PayoutAssumption
<1>4. SumFunctionOnSet(f, Kept) = 0 /\ SumFunctionOnSet(f, {}) = 0
  <2> HIDE DEF f
  <2> QED
    BY <1>3, SumZero, SumEmpty
<1>5. SumOf(Kept) = 0 /\ SumOf({}) = 0
  BY <1>4 DEF SumOf
<1>6. Balance = Opening
  BY <1>2, <1>5, PayoutAssumption DEF Balance, Counted
<1> QED
  BY <1>1, <1>2, <1>5, <1>6 DEF LedgerInv, At

\* A user who sends one request at a time never takes out more than there is,
\* whatever any number of administrators do between the check of a request and
\* its deduction: a wallet below zero is short of what they deducted.
THEOREM RequestsNeverOverdraw ==
  ASSUME OneUser, NaturalAmounts, Opening >= 0
  PROVE  Spec => []OverdrawnOnlyByAdmins
<1>1. Init => LedgerInv /\ CoverInv
  <2> SUFFICES ASSUME Init PROVE LedgerInv /\ CoverInv
    OBVIOUS
  <2>1. wallet = Opening /\ \A s \in Slots : task[s].pc = "idle"
    BY DEF Init, IdleTask
  <2>2. LedgerInv /\ Balance = Opening /\ SumOf(Deducted) = 0
    BY MoneyInit
  <2>3. Opening \in Int /\ Opening >= 0 /\ Users \subseteq Slots
    BY PayoutAssumption DEF Slots
  <2> QED
    BY <2>1, <2>2, <2>3 DEF CoverInv, Remains
<1>2. TypeInv /\ TypeInv' /\ LedgerInv /\ CoverInv /\ [Next]_vars => LedgerInv' /\ CoverInv'
  BY OneUser, NaturalAmounts, LedgerInductive, CoverInductive
<1>3. TypeInv /\ CoverInv => OverdrawnOnlyByAdmins
  <2> SUFFICES ASSUME TypeInv, CoverInv PROVE OverdrawnOnlyByAdmins
    OBVIOUS
  <2>1. wallet \in Int /\ SumOf(Deducted) \in Int /\ wallet - SumOf(Deducted) >= 0
    BY Typed, SumsTyped DEF SumsOK, CoverInv, Remains
  <2>2. wallet >= SumOf(Deducted)
    BY <2>1
  <2> QED
    BY <2>2 DEF OverdrawnOnlyByAdmins, Deducted
<1> QED
  BY TypeInit, TypeInductive, <1>1, <1>2, <1>3, PTL DEF Spec

\* An entry that was rejected has been given back, so no approval that can still
\* be decided may have one, except while its refusal is being marked.  A payout
\* under way is covered by what it has read.
MoneyInv ==
  /\ MoneyIsAccounted
  /\ \A k \in Keys : approval[k] = "PENDING" /\ ledger[k].status = "rejected" =>
       \E a \in Admins : At(a, "refuse") /\ task[a].entry = k
  /\ \A a \in Admins : At(a, "withdraw") => task[a].wallet + task[a].pending >= task[a].amount

LEMMA AccountsInductive ==
  ASSUME OneAdmin, NaturalAmounts, TypeInv, TypeInv', LedgerInv, DecisionInv, MoneyInv, [Next]_vars
  PROVE  MoneyIsAccounted'
<1>0. /\ wallet \in Int /\ wallet' \in Int
      /\ restaurant.pending \in Int /\ restaurant'.pending \in Int
      /\ SumOf(Kept) \in Int /\ SumOf(Kept)' \in Int
      /\ Opening \in Int /\ OpeningPending \in Int
      /\ ledger \in [ Entries -> [ status : { "none", "pending", "completed", "rejected" },
                                   amount : Int ] ]
      /\ Keys \subseteq Entries /\ TasksFit
  <2>1. SumsOK /\ SumsOK'
    BY SumsTyped, PTL
  <2> QED
    BY <2>1, Typed, PayoutAssumption DEF SumsOK, TypeInv, TypeOK
<1>1. wallet + restaurant.pending = Opening + OpeningPending + SumOf(Kept)
  BY DEF MoneyInv, MoneyIsAccounted, Kept
<1>2. SUFFICES wallet' + restaurant'.pending = Opening + OpeningPending + SumOf(Kept)'
  BY DEF MoneyIsAccounted, Kept
<1>3. CASE ledger' = ledger /\ wallet' = wallet /\ restaurant' = restaurant
  <2>1. SumOf(Kept)' = SumOf(Kept)
    BY <1>3 DEF SumOf, Kept
  <2> QED
    BY <1>1, <1>3, <2>1
<1>4. ASSUME NEW u \in Users, RequestBatch(u), Payment(task[u].entry, task[u].amount)
      PROVE  <1>2!1
  <2> DEFINE k == task[u].entry
             amount == task[u].amount
  <2>1. k \in Entries /\ ~Exists(k) /\ amount \in Int
    BY <1>0, <1>4, Typed DEF RequestBatch, Payment, TasksFit, At
  <2>2. /\ wallet' = wallet - amount /\ restaurant' = restaurant
        /\ ledger'[k].status = "pending" /\ ledger'[k].amount = -amount
        /\ \A x \in Entries : x # k => ledger'[x] = ledger[x]
    BY <1>0, <1>4, <2>1 DEF Payment, Enter
  <2>3. ledger[k].amount = 0 /\ ledger[k].status = "none"
    BY <2>1 DEF LedgerInv, Exists
  <2> HIDE DEF k, amount
  <2>4. SumOf(Kept)' = SumOf(Kept) - amount
    BY <1>0, <2>1, <2>2, <2>3, EntryChange
  <2> QED
    BY <1>0, <1>1, <2>1, <2>2, <2>4
\* Neither of the two decides about an entry that was rejected.
<1>5. ASSUME NEW a \in Admins, task[a].pc \in { "execute", "reject" }
      PROVE  task[a].entry \in Keys /\ ledger[task[a].entry].status # "rejected"
  <2>1. task[a].entry \in Keys /\ approval[task[a].entry] = "PENDING"
    BY <1>0, <1>5 DEF TasksFit, DecisionInv, Deciding
  <2>2. \A b \in Admins : ~At(b, "refuse")
    BY <1>5, OneAdmin DEF OneAdmin, At
  <2> QED
    BY <2>1, <2>2 DEF MoneyInv
<1>6. ASSUME NEW a \in Admins, ExecuteLedger(a) PROVE <1>2!1
  <2> DEFINE k == task[a].entry
  <2>1. k \in Entries /\ ledger[k].status # "rejected" /\ ledger[k].amount \in Int
    BY <1>0, <1>5, <1>6 DEF ExecuteLedger, At
  <2>2. /\ wallet' = wallet /\ restaurant' = restaurant
        /\ ledger'[k].status = "completed" /\ ledger'[k].amount = ledger[k].amount
        /\ \A x \in Entries : x # k => ledger'[x] = ledger[x]
    BY <1>0, <1>6, <2>1 DEF ExecuteLedger
  <2> HIDE DEF k
  <2>3. SumOf(Kept)' = SumOf(Kept)
    BY <1>0, <2>1, <2>2, EntryChange
  <2> QED
    BY <1>1, <2>2, <2>3
<1>7. ASSUME NEW a \in Admins, RejectRefund(a), Refund(task[a].entry) PROVE <1>2!1
  <2> DEFINE k == task[a].entry
  <2>1. k \in Entries /\ ledger[k].status # "rejected" /\ ledger[k].amount \in Int
    BY <1>0, <1>5, <1>7 DEF RejectRefund, At
  <2>2. /\ wallet' = wallet - ledger[k].amount /\ restaurant' = restaurant
        /\ ledger'[k].status = "rejected" /\ ledger'[k].amount = ledger[k].amount
        /\ \A x \in Entries : x # k => ledger'[x] = ledger[x]
    BY <1>0, <1>7, <2>1 DEF Refund
  <2> HIDE DEF k
  <2>3. SumOf(Kept)' = SumOf(Kept) - ledger[k].amount
    BY <1>0, <2>1, <2>2, EntryChange
  <2> QED
    BY <1>0, <1>1, <2>1, <2>2, <2>3
\* What the wallet does not pay the restaurant can: the two had read enough.
<1>8. ASSUME NEW a \in Admins, ProcessPayoutWrite(a), Withdrawal(a) PROVE <1>2!1
  <2> DEFINE w == task[a].entry
             amount == task[a].amount
             fromWallet == IF task[a].wallet > 0 THEN Least(task[a].wallet, amount) ELSE 0
             least == Least(task[a].pending, amount - fromWallet)
             fromRest == IF least > 0 THEN least ELSE 0
  <2>1. /\ w \in Entries /\ ~Exists(w) /\ amount \in Int /\ amount >= 0
        /\ task[a].wallet + task[a].pending >= amount
        /\ task[a].wallet \in Int /\ task[a].pending \in Int
    BY <1>0, <1>8, Typed
    DEF ProcessPayoutWrite, Withdrawal, TasksFit, LedgerInv, MoneyInv, Entries, Slots
  <2>2. fromWallet \in Int /\ fromRest = amount - fromWallet
    BY <2>1 DEF Least
  <2>3. /\ wallet' = wallet - fromWallet
        /\ restaurant'.pending = restaurant.pending - fromRest
        /\ ledger'[w].status = "completed" /\ ledger'[w].amount = -amount
        /\ \A x \in Entries : x # w => ledger'[x] = ledger[x]
    BY <1>0, <1>8, <2>1 DEF Withdrawal, Enter
  <2>4. ledger[w].amount = 0 /\ ledger[w].status = "none"
    BY <2>1 DEF LedgerInv, Exists
  <2> HIDE DEF w, amount, fromWallet, least, fromRest
  <2>5. SumOf(Kept)' = SumOf(Kept) - amount
    BY <1>0, <2>1, <2>3, <2>4, EntryChange
  <2> QED
    BY <1>0, <1>1, <2>1, <2>2, <2>3, <2>5
<1>9. ASSUME NEW a \in Admins, NEW m \in Adjustments, NEW x \in Int, AdjustWallet(a, m, x)
      PROVE  <1>2!1
  <2>1. m \in Entries
    BY DEF Entries
  <2>2. /\ wallet' = wallet + x /\ restaurant'.pending = restaurant.pending
        /\ ledger'[m].status = "completed" /\ ledger'[m].amount = x
        /\ \A e \in Entries : e # m => ledger'[e] = ledger[e]
    BY <1>0, <1>9, <2>1 DEF AdjustWallet, Enter, TypeInv, TypeOK
  <2>3. ledger[m].amount = 0 /\ ledger[m].status = "none"
    BY <1>9, <2>1 DEF AdjustWallet, LedgerInv, Exists
  <2>4. SumOf(Kept)' = SumOf(Kept) + x
    BY <1>0, <2>1, <2>2, <2>3, EntryChange
  <2> QED
    BY <1>0, <1>1, <2>2, <2>4
<1> QED
  BY <1>3, <1>4, <1>6, <1>7, <1>8, <1>9, StepCases

LEMMA MoneyInductive ==
  ASSUME OneAdmin, NaturalAmounts, "refuse" \notin FailingSteps,
         TypeInv, TypeInv', LedgerInv, DecisionInv, MoneyInv, [Next]_vars
  PROVE  MoneyInv'
<1>0. /\ ledger \in [ Entries -> [ status : { "none", "pending", "completed", "rejected" },
                                   amount : Int ] ]
      /\ approval \in [ Keys -> { "none", "PENDING", "APPROVED", "REJECTED" } ]
      /\ task \in [ Slots -> TaskStates ] /\ TasksFit
      /\ Keys \subseteq Entries /\ Users \subseteq Slots /\ Admins \subseteq Slots
      /\ Users \cap Admins = {}
      /\ IdleTask.pc = "idle"
  BY Typed DEF TypeInv, TypeOK, IdleTask
<1> DEFINE Given(k) == approval[k] = "PENDING" /\ ledger[k].status = "rejected"
           Refusing(k) == \E a \in Admins : At(a, "refuse") /\ task[a].entry = k
           Covered(a) == At(a, "withdraw") => task[a].wallet + task[a].pending >= task[a].amount
<1>1. SUFFICES /\ \A k \in Keys : Given(k)' => Refusing(k)'
               /\ \A a \in Admins : Covered(a)'
  BY AccountsInductive DEF MoneyInv
<1>2. /\ \A k \in Keys : Given(k) => Refusing(k)
      /\ \A a \in Admins : Covered(a)
  BY DEF MoneyInv
\* Nothing was decided and nobody who refuses has gone on.
<1>3. ASSUME \A k \in Keys : Given(k)' => Given(k),
             \A a \in Admins : task'[a] = task[a] \/ (task'[a].pc = "idle" /\ task[a].pc # "refuse")
      PROVE  <1>1!1
  BY <1>2, <1>3 DEF At
<1>4. CASE UserNext
  <2>1. \A a \in Admins : task'[a] = task[a]
    <3>1. \E u \in Users : \E state : task' = [ task EXCEPT ![u] = state ]
      BY <1>4 DEF UserNext, RequestPayout, RequestReadUser, RequestReadBalance, RequestVelocity,
                  RequestBatch, Goto, Finish
    <3> QED
      BY <1>0, <3>1
  <2>2. ASSUME NEW u \in Users, RequestBatch(u) PROVE \A k \in Keys : Given(k)' => Given(k)
    <3>1. task[u].entry \in Keys
      BY <1>0, <2>2 DEF RequestBatch, TasksFit, At
    <3>2. CASE Exists(task[u].entry)
      BY <2>2, <3>2 DEF RequestBatch
    <3>3. CASE ~Exists(task[u].entry)
      <4>1. /\ ledger'[task[u].entry].status = "pending"
            /\ \A k \in Keys : k # task[u].entry =>
                 ledger'[k] = ledger[k] /\ approval'[k] = approval[k]
        BY <1>0, <2>2, <3>1, <3>3 DEF RequestBatch, Enter
      <4> QED
        BY <4>1
    <3> QED
      BY <3>2, <3>3
  <2>3. ASSUME approval' = approval, ledger' = ledger PROVE \A k \in Keys : Given(k)' => Given(k)
    BY <2>3
  <2>4. \A k \in Keys : Given(k)' => Given(k)
    <3> HIDE DEF Given
    <3> QED
      BY <1>4, <2>2, <2>3
      DEF UserNext, RequestPayout, RequestReadUser, RequestReadBalance, RequestVelocity
  <2> QED
    BY <1>3, <2>1, <2>4
<1>5. ASSUME NEW a \in Admins, NEW k \in Keys, NEW pc \in { "execute", "reject" },
             ReadApproval(a, k, pc)
      PROVE  <1>1!1
  <2> DEFINE state == [ IdleTask EXCEPT !.pc = pc, !.entry = k ]
  <2>1. state.pc = pc
    BY DEF IdleTask
  <2>2. task' = [ task EXCEPT ![a] = state ] /\ approval' = approval /\ ledger' = ledger
        /\ task[a].pc = "idle"
    BY <1>5 DEF ReadApproval, At
  <2> HIDE DEF state
  <2> QED
    BY <1>0, <1>2, <2>1, <2>2 DEF At
<1>6. ASSUME NEW a \in Admins, ExecuteLedger(a) PROVE <1>1!1
  <2>1. task'[a].pc = "approve" /\ task[a].pc = "execute" /\ task[a].entry \in Keys
    BY <1>0, <1>6 DEF ExecuteLedger, Goto, At, TasksFit, TaskStates
  <2>2. \A b \in Admins : b # a => task'[b] = task[b]
    BY <1>0, <1>6 DEF ExecuteLedger, Goto
  <2>3. /\ approval' = approval
        /\ \A k \in Keys : ledger'[k].status = "rejected" => ledger[k].status = "rejected"
    BY <1>0, <1>6, <2>1 DEF ExecuteLedger
  <2> QED
    BY <1>2, <2>1, <2>2, <2>3 DEF At
<1>7. ASSUME NEW a \in Admins, RejectRefund(a) PROVE <1>1!1
  <2>1. /\ task'[a].pc = "refuse" /\ task'[a].entry = task[a].entry
        /\ task[a].pc = "reject" /\ task[a].entry \in Keys
    BY <1>0, <1>7 DEF RejectRefund, Goto, At, TasksFit, TaskStates
  <2>2. \A b \in Admins : b # a => task'[b] = task[b]
    BY <1>0, <1>7 DEF RejectRefund, Goto
  <2>3. approval' = approval /\ \A k \in Keys : k # task[a].entry => ledger'[k] = ledger[k]
    BY <1>0, <1>7, <2>1 DEF RejectRefund
  <2> QED
    BY <1>2, <2>1, <2>2, <2>3 DEF At
<1>8. ASSUME NEW a \in Admins, ExecuteMark(a) \/ RejectMark(a) PROVE <1>1!1
  <2> DEFINE k == task[a].entry
  <2>1. /\ k \in Keys /\ ledger' = ledger /\ approval'[k] # "PENDING"
        /\ \A j \in Keys : j # k => approval'[j] = approval[j]
    BY <1>0, <1>8 DEF ExecuteMark, RejectMark, TasksFit, At
  <2>2. task'[a].pc = "idle" /\ \A b \in Admins : b # a => task'[b] = task[b]
    BY <1>0, <1>8 DEF ExecuteMark, RejectMark, Finish
  <2> QED
    BY <1>2, <2>1, <2>2 DEF At
<1>9. ASSUME NEW a \in Admins, NEW w \in Withdrawals, NEW amount \in Amounts,
             ProcessPayoutRead(a, w, amount)
      PROVE  <1>1!1
  <2> DEFINE state == [ pc |-> "withdraw", entry |-> w, amount |-> amount,
                        wallet |-> wallet, pending |-> restaurant.pending ]
  <2>1. /\ state.pc = "withdraw" /\ state.wallet + state.pending >= state.amount
        /\ task' = [ task EXCEPT ![a] = state ] /\ approval' = approval /\ ledger' = ledger
        /\ task[a].pc = "idle"
    BY <1>9 DEF ProcessPayoutRead, At
  <2> HIDE DEF state
  <2> QED
    BY <1>0, <1>2, <2>1 DEF At
<1>10. ASSUME NEW a \in Admins, ProcessPayoutWrite(a) PROVE <1>1!1
  <2>1. task[a].entry \in Withdrawals /\ task[a].pc = "withdraw"
    BY <1>0, <1>10 DEF ProcessPayoutWrite, TasksFit, At
  <2>2. approval' = approval /\ \A k \in Keys : ledger'[k] = ledger[k]
    BY <1>0, <1>10, <2>1, PayoutAssumption DEF ProcessPayoutWrite, Enter
  <2>3. \A b \in Admins : task'[b] = task[b] \/ (task'[b].pc = "idle" /\ task[b].pc # "refuse")
    BY <1>0, <1>10, <2>1 DEF ProcessPayoutWrite, Finish
  <2> QED
    BY <1>3, <2>2, <2>3
<1>11. CASE AdjustNext
  <2>1. PICK a \in Admins, m \in Adjustments, x \in Int : AdjustWallet(a, m, x)
    <3>1. \A x \in Amounts : x \in Int /\ -x \in Int
      BY PayoutAssumption
    <3> QED
      BY <1>11, <3>1 DEF AdjustNext
  <2>2. /\ approval' = approval /\ task' = task
        /\ \A k \in Keys : ledger'[k] = ledger[k]
    BY <1>0, <2>1, PayoutAssumption DEF AdjustWallet, Enter
  <2> QED
    BY <1>3, <2>2
<1>12. ASSUME NEW s \in Slots, Fail(s) PROVE <1>1!1
  <2>1. task[s].pc # "refuse"
    BY <1>12 DEF Fail
  <2>2. \A b \in Admins : task'[b] = task[b] \/ (task'[b].pc = "idle" /\ task[b].pc # "refuse")
    BY <1>0, <1>12, <2>1 DEF Fail, Finish
  <2> QED
    BY <1>3, <1>12, <2>2 DEF Fail
<1>13. CASE (\E k \in Keys : DayPasses(k)) \/ UNCHANGED vars
  <2>1. approval' = approval /\ ledger' = ledger /\ task' = task
    BY <1>13 DEF DayPasses, vars
  <2> QED
    BY <1>3, <2>1
<1>14. CASE ApprovalNext
  BY <1>5, <1>6, <1>7, <1>8, <1>14 DEF ApprovalNext
<1>15. CASE ProcessPayoutNext
  BY <1>9, <1>10, <1>15 DEF ProcessPayoutNext
<1> QED
  BY <1>4, <1>11, <1>12, <1>13, <1>14, <1>15 DEF Next

\* With one administrator at a time, the wallet and the restaurant hold at every
\* moment what the ledger says has come and gone.  Whatever fails, except
\* the statement that marks a refused approval: the refund made before it would
\* be made again.
THEOREM MoneyAccounted ==
  ASSUME OneAdmin, NaturalAmounts, "refuse" \notin FailingSteps
  PROVE  Spec => []MoneyIsAccounted
<1>1. Init => LedgerInv /\ DecisionInv /\ MoneyInv
  <2> SUFFICES ASSUME Init PROVE LedgerInv /\ DecisionInv /\ MoneyInv
    OBVIOUS
  <2>1. /\ wallet = Opening /\ restaurant.pending = OpeningPending
        /\ \A k \in Keys : approval[k] = "none"
        /\ \A a \in Admins : task[a].pc = "idle"
    BY DEF Init, IdleTask, Slots
  <2>2. LedgerInv /\ SumOf(Kept) = 0
    BY MoneyInit
  <2>3. DecisionInv
    BY <2>1 DEF DecisionInv, Decided, Deciding, At
  <2>4. MoneyIsAccounted
    BY <2>1, <2>2, PayoutAssumption DEF MoneyIsAccounted, Kept
  <2> QED
    BY <2>1, <2>2, <2>3, <2>4 DEF MoneyInv, At
<1>2. TypeInv /\ TypeInv' /\ LedgerInv /\ DecisionInv /\ MoneyInv /\ [Next]_vars
        => LedgerInv' /\ DecisionInv' /\ MoneyInv'
  BY OneAdmin, NaturalAmounts, LedgerInductive, DecisionInductive, MoneyInductive
<1>3. MoneyInv => MoneyIsAccounted
  BY DEF MoneyInv
<1> QED
  BY TypeInit, TypeInductive, <1>1, <1>2, <1>3, PTL DEF Spec

=============================================================================

--------------------------- MODULE CheckoutProofs ---------------------------
(***************************************************************************)
(* Theorems about Checkout, for any number of customers, dishes, cart rows *)
(* and orders, and any limits.  What cart, refunds and promotions promise  *)
(* holds if the calls of one customer follow each other, whatever step     *)
(* fails; the account of the wallets holds of overlapping calls as well,   *)
(* if no call stops between a refund and its entry.                        *)
(***************************************************************************)
EXTENDS Checkout, DataTheorems, FiniteSetTheorems, TLAPS

OneCallAtATime == \A s, t \in Slots : Customer(s) = Customer(t) => s = t

(***************************************************************************)
(* The shape of the state                                                  *)
(***************************************************************************)

\* What a call and an order are: their fields, and of which kind these are.
TaskRecord(t) ==
  t = [ pc |-> t.pc, operation |-> t.operation, dish |-> t.dish, row |-> t.row,
        quantity |-> t.quantity, items |-> t.items, method |-> t.method, promo |-> t.promo,
        total |-> t.total, order |-> t.order, payment |-> t.payment ]

TaskFits(t) ==
  /\ t.pc \in { "idle" } \cup Steps
  /\ t.pc = "write" => t.operation \in { "update", "increment", "decrement" }
  /\ t.pc \in { "cart", "adopt", "put" } => t.dish \in Dishes
  /\ t.row \in Rows /\ t.quantity \in Int /\ t.items \in CartRows /\ t.order \in Orders
  /\ t.operation \in RowOperations \cup { "" } /\ t.dish \in Dishes \cup { NoDish }
  /\ t.method \in { "WALLET", "CARD", "CASH" } /\ t.promo \in Int /\ t.total \in Int
  /\ t.payment \in PaymentStates

IsTask(t) == TaskRecord(t) /\ TaskFits(t)

OrderRecord(x) ==
  x = [ status |-> x.status, customer |-> x.customer, method |-> x.method,
        payment |-> x.payment, total |-> x.total, refunds |-> x.refunds ]

OrderFits(x) ==
  /\ x.status \in Statuses /\ x.customer \in Customers /\ x.method \in { "WALLET", "CARD", "CASH" }
  /\ x.payment \in PaymentStates /\ x.total \in Int /\ x.refunds \in Nat

IsOrder(x) == OrderRecord(x) /\ OrderFits(x)

TaskShape ==
  /\ task = [ s \in Slots |-> task[s] ]
  /\ \A s \in Slots : IsTask(task[s])

CartShape ==
  cart \in [ Customers -> [ restaurant : Restaurants \cup { NoRestaurant }, items : CartRows ] ]

OrderShape ==
  /\ order = [ o \in Orders |-> order[o] ]
  /\ \A o \in Orders : IsOrder(order[o])

\* The variables whose kind does not depend on a call's.
Counters ==
  /\ scenario \in Scenarios
  /\ promo \in [ id : 0 .. MaxPromotions, exists : BOOLEAN, active : BOOLEAN, count : Nat ]
  /\ used \in SUBSET Orders
  /\ counting \in Nat
  /\ charges \in [ Orders -> 0 .. MaxCharges ]
  /\ updating \in [ Orders -> SUBSET Targets ]

Shape == Counters /\ TaskShape /\ CartShape /\ OrderShape

LEMMA NoItemsType == NoItems \in CartRows
BY CheckoutAssumption DEF NoItems, CartRows

LEMMA IdleShape == IsTask(IdleTask)
<1>1. TaskRecord(IdleTask)
  BY DEF IdleTask, TaskRecord
<1>2. TaskFits(IdleTask)
  BY NoItemsType, CheckoutAssumption DEF IdleTask, TaskFits, Steps, PaymentStates
<1> QED
  BY <1>1, <1>2 DEF IsTask

LEMMA SlotCustomer == \A s \in Slots : Customer(s) \in Customers
BY DEF Slots, Customer

\* A call takes a step to a state of its kind.
LEMMA TaskSet ==
  ASSUME TaskShape, NEW s \in Slots, NEW t, IsTask(t), task' = [ task EXCEPT ![s] = t ]
  PROVE  TaskShape'
<1>1. task' = [ u \in Slots |-> IF u = s THEN t ELSE task[u] ]
  BY DEF TaskShape
<1> QED
  BY <1>1 DEF TaskShape

LEMMA TaskFinish ==
  ASSUME TaskShape, NEW s \in Slots, Finish(s) PROVE TaskShape'
BY IdleShape, TaskSet DEF Finish

LEMMA TaskGoto ==
  ASSUME TaskShape, NEW s \in Slots, NEW pc \in Steps, Goto(s, pc),
         pc # "write", pc \in { "cart", "adopt", "put" } => task[s].dish \in Dishes
  PROVE  TaskShape'
<1>1. TaskRecord(task[s]) /\ TaskFits(task[s])
  BY DEF TaskShape, IsTask
<1>2. ASSUME NEW t, t = [ task[s] EXCEPT !.pc = pc ] PROVE IsTask(t)
  <2>1. TaskRecord(t)
    BY <1>1, <1>2 DEF TaskRecord
  <2>2. TaskFits(t)
    BY <1>1, <1>2 DEF TaskRecord, TaskFits
  <2> QED
    BY <2>1, <2>2 DEF IsTask
<1> QED
  BY <1>2, TaskSet DEF Goto

\* An order changes in its place.
LEMMA OrderSet ==
  ASSUME OrderShape, NEW o \in Orders, NEW x, IsOrder(x), order' = [ order EXCEPT ![o] = x ]
  PROVE  OrderShape'
<1>1. order' = [ p \in Orders |-> IF p = o THEN x ELSE order[p] ]
  BY DEF OrderShape
<1> QED
  BY <1>1 DEF OrderShape

\* A cart item changes in its place.
LEMMA ItemSet ==
  ASSUME CartShape, NEW c \in Customers, NEW r \in Rows, NEW dish \in Dishes \cup { NoDish },
         NEW quantity \in Int, SetItem(c, r, dish, quantity)
  PROVE  CartShape'
BY DEF CartShape, SetItem, CartRows

LEMMA CountersInductive == Counters /\ [Next]_vars => Counters'
<1> SUFFICES ASSUME Counters, [Next]_vars PROVE Counters'
  OBVIOUS
<1>0. UNCHANGED scenario
  BY DEF Next, CartNext, CheckoutNext, PromotionNext, PaymentNext, CancelNext, VendorNext, vars
<1>u. updating' \in [ Orders -> SUBSET Targets ]
  <2>1. CASE VendorNext
    BY <2>1 DEF VendorNext, UpdateStatusRead, UpdateStatusWrite, Counters
  <2>2. CASE UNCHANGED updating
    BY <2>2 DEF Counters
  <2> QED
    BY <2>1, <2>2 DEF Next, CartNext, CheckoutNext, PromotionNext, PaymentNext, CancelNext, vars
<1>1. ASSUME UNCHANGED << promo, used, counting, charges >> PROVE Counters'
  BY <1>0, <1>u, <1>1 DEF Counters
<1>2. ASSUME CartNext \/ CancelNext \/ VendorNext \/ (\E s \in Slots : Fail(s)) \/ UNCHANGED vars
      PROVE  Counters'
  <2>1. UNCHANGED << promo, used, counting, charges >>
    BY <1>2
       DEF CartNext, AddItem, AddReadCart, AddAdopt, AddPut, ReadRow, ReadRowAgain, WriteRow, DeleteRow,
           CountRows, ClearCart, UnsetRestaurant, CancelNext, CancelRead, CancelWrite, CancelRefund,
           CancelRefunded, CancelEntry, VendorNext, UpdateStatusRead, UpdateStatusWrite, Fail,
           MoneyUnchanged, vars
  <2> QED
    BY <1>1, <2>1
<1>3. ASSUME CheckoutNext PROVE Counters'
  <2>1. UNCHANGED << promo, charges >>
    BY <1>3 DEF CheckoutNext, CheckoutReadCart, CheckoutReadPromotion, CheckoutReadUsages,
                CheckoutReadWallet, CheckoutPurchase, MoneyUnchanged
  <2>2. \/ UNCHANGED << used, counting >>
        \/ (used' = used \/ \E o \in Orders : used' = used \cup { o }) /\ counting' \in { counting, counting + 1 }
    BY <1>3 DEF CheckoutNext, CheckoutReadCart, CheckoutReadPromotion, CheckoutReadUsages,
                CheckoutReadWallet, CheckoutPurchase, MoneyUnchanged
  <2>3. used' \in SUBSET Orders /\ counting' \in Nat
    BY <2>2 DEF Counters
  <2> QED
    BY <1>0, <1>u, <2>1, <2>3 DEF Counters
<1>4. ASSUME PromotionNext PROVE Counters'
  <2>1. /\ promo \in [ id : 0 .. MaxPromotions, exists : BOOLEAN, active : BOOLEAN, count : Nat ]
        /\ MaxPromotions \in Nat
    BY CheckoutAssumption DEF Counters
  <2>2. promo' \in [ id : 0 .. MaxPromotions, exists : BOOLEAN, active : BOOLEAN, count : Nat ]
    <3>1. CASE IncrementUsage \/ LoseIncrement
      BY <2>1, <3>1 DEF IncrementUsage, LoseIncrement
    <3>2. CASE CreatePromotion
      BY <2>1, <3>2 DEF CreatePromotion
    <3>3. CASE UpdatePromotion
      <4>1. PICK active \in BOOLEAN : active = ~promo.active
        BY <2>1, Zenon
      <4>2. promo' = [ promo EXCEPT !.active = active ]
        BY <3>3, <4>1 DEF UpdatePromotion
      <4> QED
        BY <2>1, <4>2
    <3>4. CASE RemovePromotion
      BY <2>1, <3>4 DEF RemovePromotion
    <3> QED
      BY <1>4, <3>1, <3>2, <3>3, <3>4 DEF PromotionNext
  <2>3. used' \in SUBSET Orders /\ counting' \in Nat /\ UNCHANGED charges
    BY <1>4 DEF PromotionNext, IncrementUsage, LoseIncrement, CreatePromotion, UpdatePromotion,
                RemovePromotion, Counters
  <2> QED
    BY <1>0, <1>u, <2>2, <2>3 DEF Counters
<1>5. ASSUME PaymentNext PROVE Counters'
  <2>1. UNCHANGED << promo, used, counting >>
    BY <1>5 DEF PaymentNext, InitiatePayment, ProviderAnswers, PaymentWrite, MoneyUnchanged
  <2>2. \/ UNCHANGED charges
        \/ \E o : charges[o] < MaxCharges /\ charges' = [ charges EXCEPT ![o] = @ + 1 ]
    BY <1>5 DEF PaymentNext, InitiatePayment, ProviderAnswers, PaymentWrite, MoneyUnchanged
  <2>3. charges' \in [ Orders -> 0 .. MaxCharges ]
    BY <2>2, CheckoutAssumption DEF Counters
  <2> QED
    BY <1>0, <1>u, <2>1, <2>3 DEF Counters
<1> QED
  BY <1>2, <1>3, <1>4, <1>5 DEF Next

\* What a cart costs is a number, whatever it holds.
LEMMA SubtotalType ==
  ASSUME NEW items \in CartRows PROVE Subtotal(items) \in Int
<1>1. IsFiniteSet(Present(items))
  BY CheckoutAssumption, FS_Subset DEF Present
<1>2. \A r \in Present(items) : [ q \in Rows |-> items[q].quantity ][r] \in Int
  BY DEF Present, CartRows
<1> QED
  BY <1>1, <1>2, SumType DEF Subtotal

LEMMA ShapeInductive == Shape /\ [Next]_vars => Shape'
<1> SUFFICES ASSUME Shape, [Next]_vars PROVE Shape'
  OBVIOUS
<1> USE SlotCustomer
<1>0. /\ \A s \in Slots : TaskRecord(task[s]) /\ TaskFits(task[s])
      /\ TaskShape /\ CartShape /\ OrderShape /\ promo.id \in Int
  BY DEF Shape, TaskShape, IsTask, Counters
<1>s. scenario.dishes \subseteq Dishes /\ Counters'
  BY CountersInductive, CheckoutAssumption DEF Shape, Counters
\* What a step that leaves carts, orders and charges alone has to show.
<1>a. ASSUME TaskShape', UNCHANGED << cart, order >> PROVE Shape'
  BY <1>0, <1>s, <1>a DEF Shape, CartShape, OrderShape, IsOrder
<1>b. ASSUME TaskShape', CartShape', UNCHANGED order PROVE Shape'
  BY <1>0, <1>s, <1>b DEF Shape, OrderShape, IsOrder
<1>1. ASSUME NEW s \in Slots, NEW d \in scenario.dishes, AddItem(s, d, 1) PROVE Shape'
  <2>1. ASSUME NEW t, t = [ IdleTask EXCEPT !.pc = "cart", !.dish = d, !.quantity = 1 ] PROVE IsTask(t)
    <3>1. TaskRecord(t)
      BY <2>1 DEF TaskRecord, IdleTask
    <3>2. TaskFits(t)
      <4>1. /\ t.pc = "cart" /\ t.dish = d /\ t.quantity = 1 /\ t.operation = IdleTask.operation
            /\ t.row = IdleTask.row /\ t.items = IdleTask.items /\ t.order = IdleTask.order
            /\ t.method = IdleTask.method /\ t.promo = IdleTask.promo /\ t.total = IdleTask.total
            /\ t.payment = IdleTask.payment
        BY <2>1 DEF IdleTask
      <4>2. "cart" \in Steps /\ d \in Dishes
        BY <1>s DEF Steps, CartSteps
      <4>3. TaskFits(IdleTask)
        BY IdleShape DEF IsTask
      <4>4. t.quantity \in Int
        BY <4>1
      <4> QED
        BY <4>1, <4>2, <4>3, <4>4 DEF TaskFits
    <3> QED
      BY <3>1, <3>2 DEF IsTask
  <2> QED
    BY <1>0, <1>1, <1>a, <2>1, TaskSet DEF AddItem, Begin, MoneyUnchanged
<1>2. ASSUME NEW s \in Slots, AddReadCart(s) PROVE Shape'
  <2>0. /\ TaskRecord(task[s]) /\ TaskFits(task[s]) /\ cart[Customer(s)].items \in CartRows
        /\ task = [ u \in Slots |-> task[u] ]
    BY <1>0 DEF TaskShape, CartShape
  <2>1. ASSUME NEW t, NEW pc \in { "adopt", "put" },
                t = [ task[s] EXCEPT !.pc = pc, !.items = cart[Customer(s)].items ]
         PROVE IsTask(t)
    <3>1. TaskRecord(t)
      BY <2>0, <2>1 DEF TaskRecord
    <3>2. TaskFits(t)
      BY <1>2, <2>0, <2>1 DEF AddReadCart, TaskRecord, TaskFits, At, Steps, CartSteps
    <3> QED
      BY <3>1, <3>2 DEF IsTask
  <2>2. \/ Finish(s)
        \/ \E pc \in { "adopt", "put" } :
             task' = [ task EXCEPT ![s] = [ task[s] EXCEPT !.pc = pc, !.items = cart[Customer(s)].items ] ]
    BY <2>0, <1>2 DEF AddReadCart
  <2>3. TaskShape'
    BY <1>0, <2>1, <2>2, TaskFinish, TaskSet
  <2> QED
    BY <1>2, <1>a, <2>3 DEF AddReadCart, MoneyUnchanged
<1>3. ASSUME NEW s \in Slots, AddAdopt(s) PROVE Shape'
  <2>1. task[s].dish \in Dishes
    BY <1>0, <1>3 DEF AddAdopt, At, TaskFits
  <2>2. TaskShape'
    BY <1>0, <1>3, <2>1, TaskGoto DEF AddAdopt, Steps, CartSteps
  <2>3. CartShape'
    BY <1>0, <1>3, <2>1, CheckoutAssumption DEF AddAdopt, CartShape
  <2> QED
    BY <1>3, <1>b, <2>2, <2>3 DEF AddAdopt, MoneyUnchanged
<1>4. ASSUME NEW s \in Slots, AddPut(s) PROVE Shape'
  <2>1. /\ task[s].dish \in Dishes /\ task[s].quantity \in Int
        /\ \A r \in Rows : task[s].items[r].quantity \in Int
        /\ \A r \in Rows : cart[Customer(s)].items[r].dish \in Dishes \cup { NoDish }
    <3>1. task[s].items \in CartRows /\ cart[Customer(s)].items \in CartRows
      BY <1>0 DEF TaskFits, CartShape
    <3> QED
      BY <1>0, <1>4, <3>1 DEF AddPut, At, TaskFits, CartRows
  <2>2. \/ UNCHANGED cart
        \/ \E r \in Rows, dish \in Dishes \cup { NoDish }, quantity \in Int :
             SetItem(Customer(s), r, dish, quantity)
    <3>1. \A r \in Rows : Least(task[s].items[r].quantity + task[s].quantity, MaxQuantity) \in Int
      <4>1. MaxQuantity \in Int
        BY CheckoutAssumption
      <4> QED
        BY <2>1, <4>1 DEF Least
    <3> QED
      BY <1>4, <2>1, <3>1 DEF AddPut
  <2>3. CartShape'
    BY <1>0, <2>2, ItemSet DEF CartShape
  <2>4. TaskShape'
    BY <1>0, <1>4, TaskFinish DEF AddPut
  <2> QED
    BY <1>4, <1>b, <2>3, <2>4 DEF AddPut, MoneyUnchanged
<1>5. ASSUME NEW s \in Slots, NEW r \in Rows,
             NEW operation \in RowOperations, ReadRow(s, r, operation)
      PROVE  Shape'
  <2>1. ASSUME NEW t, NEW pc \in { "delete", "row", "write" }, pc = "write" => operation # "remove",
                t = [ IdleTask EXCEPT !.row = r, !.pc = pc, !.operation = operation ]
         PROVE IsTask(t)
    <3>1. TaskRecord(t)
      BY <2>1 DEF TaskRecord, IdleTask
    <3>2. TaskFits(t)
      BY <2>1, IdleShape DEF IsTask, TaskRecord, TaskFits, RowOperations, Steps, CartSteps
    <3> QED
      BY <3>1, <3>2 DEF IsTask
  <2>2. TaskShape'
    BY <1>0, <1>5, <2>1, TaskSet DEF ReadRow, Begin
  <2> QED
    BY <1>5, <1>a, <2>2 DEF ReadRow, MoneyUnchanged
<1>6. ASSUME NEW s \in Slots, ReadRowAgain(s) PROVE Shape'
  <2>1. TaskShape'
    BY <1>0, <1>6, TaskFinish, TaskGoto DEF ReadRowAgain, Steps, CartSteps
  <2> QED
    BY <1>6, <1>a, <2>1 DEF ReadRowAgain, MoneyUnchanged
<1>7. ASSUME NEW s \in Slots, WriteRow(s) PROVE Shape'
  <2>1. /\ task[s].row \in Rows /\ task[s].operation \in { "update", "increment", "decrement" }
        /\ \A r \in Rows : /\ cart[Customer(s)].items[r].dish \in Dishes \cup { NoDish }
                           /\ cart[Customer(s)].items[r].quantity \in Int
    <3>1. cart[Customer(s)].items \in CartRows
      BY <1>0 DEF CartShape
    <3> QED
      BY <1>0, <1>7, <3>1 DEF WriteRow, At, TaskFits, CartRows
  <2>2. \/ UNCHANGED cart
        \/ \E r \in Rows, dish \in Dishes \cup { NoDish }, quantity \in Int :
             SetItem(Customer(s), r, dish, quantity)
    BY <1>7, <2>1, CheckoutAssumption DEF WriteRow, Least
  <2>3. CartShape'
    BY <1>0, <2>2, ItemSet DEF CartShape
  <2>4. TaskShape'
    BY <1>0, <1>7, TaskFinish DEF WriteRow
  <2> QED
    BY <1>7, <1>b, <2>3, <2>4 DEF WriteRow, MoneyUnchanged
<1>8. ASSUME NEW s \in Slots, DeleteRow(s) PROVE Shape'
  <2>1. task[s].row \in Rows
    BY <1>0 DEF TaskFits
  <2>2. CartShape'
    <3>1. UNCHANGED cart \/ SetItem(Customer(s), task[s].row, NoDish, 0)
      BY <1>8 DEF DeleteRow
    <3>2. CartShape /\ Customer(s) \in Customers /\ NoDish \in Dishes \cup { NoDish } /\ 0 \in Int
      BY <1>0
    <3>3. CASE UNCHANGED cart
      BY <3>2, <3>3 DEF CartShape
    <3>4. CASE SetItem(Customer(s), task[s].row, NoDish, 0)
      BY <2>1, <3>2, <3>4, ItemSet
    <3> QED
      BY <3>1, <3>3, <3>4
  <2>3. TaskShape'
    BY <1>0, <1>8, TaskFinish, TaskGoto DEF DeleteRow, Steps, CartSteps
  <2> QED
    BY <1>8, <1>b, <2>2, <2>3 DEF DeleteRow, MoneyUnchanged
<1>9. ASSUME NEW s \in Slots, CountRows(s) PROVE Shape'
  <2>1. TaskShape'
    BY <1>0, <1>9, TaskFinish, TaskGoto DEF CountRows, Steps, CartSteps
  <2> QED
    BY <1>9, <1>a, <2>1 DEF CountRows, MoneyUnchanged
<1>10. ASSUME NEW s \in Slots, ClearCart(s) PROVE Shape'
  <2>1. ASSUME NEW t, t = [ IdleTask EXCEPT !.pc = "unset" ] PROVE IsTask(t)
    <3>1. TaskRecord(t)
      BY <2>1 DEF TaskRecord, IdleTask
    <3>2. TaskFits(t)
      BY <2>1, IdleShape DEF IsTask, TaskRecord, TaskFits, Steps, CartSteps, CheckoutSteps, CancelSteps
    <3> QED
      BY <3>1, <3>2 DEF IsTask
  <2>2. TaskShape' /\ CartShape'
    BY <1>0, <1>10, <2>1, TaskSet, NoItemsType DEF ClearCart, Begin, CartShape
  <2> QED
    BY <1>10, <1>b, <2>2 DEF ClearCart, MoneyUnchanged
<1>11. ASSUME NEW s \in Slots, UnsetRestaurant(s) PROVE Shape'
  <2>1. TaskShape' /\ CartShape'
    BY <1>0, <1>11, TaskFinish DEF UnsetRestaurant, CartShape
  <2> QED
    BY <1>11, <1>b, <2>1 DEF UnsetRestaurant, MoneyUnchanged
<1>12. ASSUME NEW s \in Slots, NEW method \in Methods, NEW withPromo \in BOOLEAN,
              CheckoutReadCart(s, method, withPromo)
       PROVE  Shape'
  <2>1. ASSUME NEW t, NEW pc \in { "promotion", "wallet", "purchase" }, NEW total \in Int,
                t = [ IdleTask EXCEPT !.pc = pc, !.items = cart[Customer(s)].items,
                                      !.method = method, !.total = total ]
         PROVE IsTask(t)
    <3>1. TaskRecord(t)
      BY <2>1 DEF TaskRecord, IdleTask
    <3>2. TaskFits(t)
      BY <1>0, <2>1, IdleShape, CheckoutAssumption
         DEF IsTask, TaskRecord, TaskFits, CartShape, Steps, CheckoutSteps
    <3> QED
      BY <3>1, <3>2 DEF IsTask
  <2>2. Subtotal(cart[Customer(s)].items) + Fees \in Int
    <3>1. cart[Customer(s)].items \in CartRows
      BY <1>0 DEF CartShape
    <3> QED
      BY <3>1, SubtotalType, CheckoutAssumption
  <2>3. TaskShape'
    BY <1>0, <1>12, <2>1, <2>2, TaskSet DEF CheckoutReadCart, Begin
  <2> QED
    BY <1>12, <1>a, <2>3 DEF CheckoutReadCart, MoneyUnchanged
<1>13. ASSUME NEW s \in Slots, CheckoutReadPromotion(s) PROVE Shape'
  <2>0. /\ TaskRecord(task[s]) /\ TaskFits(task[s]) 
        /\ task = [ u \in Slots |-> task[u] ]
    BY <1>0 DEF TaskShape, CartShape
  <2>1. ASSUME NEW t, t = [ task[s] EXCEPT !.pc = "usages", !.promo = promo.id ] PROVE IsTask(t)
    <3>1. TaskRecord(t)
      BY <2>0, <2>1 DEF TaskRecord
    <3>2. TaskFits(t)
      BY <1>0, <2>0, <2>1 DEF TaskRecord, TaskFits, Steps, CheckoutSteps
    <3> QED
      BY <3>1, <3>2 DEF IsTask
  <2>2. \/ Finish(s)
        \/ task' = [ task EXCEPT ![s] = [ task[s] EXCEPT !.pc = "usages", !.promo = promo.id ] ]
    BY <2>0, <1>13 DEF CheckoutReadPromotion
  <2>3. TaskShape'
    BY <1>0, <2>1, <2>2, TaskFinish, TaskSet
  <2> QED
    BY <1>13, <1>a, <2>3 DEF CheckoutReadPromotion, MoneyUnchanged
<1>14. ASSUME NEW s \in Slots, CheckoutReadUsages(s) PROVE Shape'
  <2>0. /\ TaskRecord(task[s]) /\ TaskFits(task[s]) 
        /\ task = [ u \in Slots |-> task[u] ]
    BY <1>0 DEF TaskShape, CartShape
  <2>1. ASSUME NEW t, NEW pc \in { "wallet", "purchase" },
                t = [ task[s] EXCEPT !.total = @ - Discount, !.pc = pc ]
         PROVE IsTask(t)
    <3>1. TaskRecord(t)
      BY <2>0, <2>1 DEF TaskRecord
    <3>2. TaskFits(t)
      <4>1. Discount \in Int
        BY CheckoutAssumption
      <4>2. /\ t.pc = pc /\ t.total = task[s].total - Discount
            /\ t.operation = task[s].operation /\ t.dish = task[s].dish /\ t.row = task[s].row
            /\ t.quantity = task[s].quantity /\ t.items = task[s].items /\ t.order = task[s].order
            /\ t.method = task[s].method /\ t.promo = task[s].promo /\ t.payment = task[s].payment
        BY <2>0, <2>1 DEF TaskRecord
      <4>3. pc \in Steps /\ pc \notin { "write", "cart", "adopt", "put" }
        BY DEF Steps, CheckoutSteps
      <4>4. task[s].total \in Int
        BY <2>0 DEF TaskFits
      <4>5. task[s].total - Discount \in Int
        BY <4>1, <4>4
      <4> QED
        BY <2>0, <4>2, <4>3, <4>5 DEF TaskFits
    <3> QED
      BY <3>1, <3>2 DEF IsTask
  <2>2. \/ Finish(s)
        \/ \E pc \in { "wallet", "purchase" } :
             task' = [ task EXCEPT ![s] = [ task[s] EXCEPT !.total = @ - Discount, !.pc = pc ] ]
    BY <2>0, <1>14 DEF CheckoutReadUsages
  <2>3. TaskShape'
    BY <1>0, <2>1, <2>2, TaskFinish, TaskSet
  <2> QED
    BY <1>14, <1>a, <2>3 DEF CheckoutReadUsages, MoneyUnchanged
<1>15. ASSUME NEW s \in Slots, CheckoutReadWallet(s) PROVE Shape'
  <2>1. TaskShape'
    BY <1>0, <1>15, TaskFinish, TaskGoto DEF CheckoutReadWallet, Steps, CheckoutSteps
  <2> QED
    BY <1>15, <1>a, <2>1 DEF CheckoutReadWallet, MoneyUnchanged
<1>16. ASSUME NEW s \in Slots, CheckoutPurchase(s) PROVE Shape'
  <2>1. CASE Finish(s) /\ UNCHANGED << cart, order >>
    BY <1>0, <1>16, <1>a, <2>1, TaskFinish DEF CheckoutPurchase
  <2>2. CASE cart' = [ cart EXCEPT ![Customer(s)] = [ restaurant |-> NoRestaurant, items |-> NoItems ] ]
    <3> DEFINE new == [ status |-> "PENDING", customer |-> Customer(s), method |-> task[s].method,
                        payment |-> IF task[s].method = "WALLET" THEN "PAID" ELSE "PENDING",
                        total |-> task[s].total, refunds |-> 0 ]
    <3>1. IsOrder(new)
      BY <1>0 DEF IsOrder, OrderRecord, OrderFits, Statuses, PaymentStates, TaskFits
    <3>2. ASSUME NEW t, NEW o \in Orders, t = [ IdleTask EXCEPT !.pc = "pay", !.order = o ]
           PROVE IsTask(t)
      <4>1. TaskRecord(t)
        BY <3>2 DEF TaskRecord, IdleTask
      <4>2. TaskFits(t)
        BY <3>2, IdleShape DEF IsTask, TaskRecord, TaskFits, Steps, CheckoutSteps
      <4> QED
        BY <4>1, <4>2 DEF IsTask
    <3>3. CartShape'
      BY <1>0, <2>2, NoItemsType DEF CartShape
    <3>4. TaskShape'
      BY <1>0, <1>16, <3>2, TaskSet, TaskFinish DEF CheckoutPurchase
    <3>5. UNCHANGED order \/ \E o \in Orders : order' = [ order EXCEPT ![o] = new ]
      BY <1>16 DEF CheckoutPurchase
    <3> HIDE DEF new
    <3>6. OrderShape'
      BY <1>0, <3>1, <3>5, OrderSet DEF OrderShape, IsOrder, OrderRecord
    <3> QED
      BY <1>0, <1>s, <1>16, <3>3, <3>4, <3>6 DEF CheckoutPurchase, Shape
  <2> QED
    BY <1>16, <2>1, <2>2 DEF CheckoutPurchase
<1>17. ASSUME IncrementUsage \/ LoseIncrement \/ CreatePromotion \/ UpdatePromotion \/ RemovePromotion
       PROVE  Shape'
  <2>1. UNCHANGED << cart, order, task >>
    BY <1>17 DEF IncrementUsage, LoseIncrement, CreatePromotion, UpdatePromotion, RemovePromotion
  <2> QED
    BY <1>0, <1>a, <2>1 DEF TaskShape
<1>18. ASSUME NEW s \in Slots, NEW o \in Orders, InitiatePayment(s, o) PROVE Shape'
  <2>1. ASSUME NEW t, t = [ IdleTask EXCEPT !.pc = "pay", !.order = o ] PROVE IsTask(t)
    <3>1. TaskRecord(t)
      BY <2>1 DEF TaskRecord, IdleTask
    <3>2. TaskFits(t)
      BY <2>1, IdleShape DEF IsTask, TaskRecord, TaskFits, Steps, CartSteps, CheckoutSteps, CancelSteps
    <3> QED
      BY <3>1, <3>2 DEF IsTask
  <2> QED
    BY <1>0, <1>18, <1>a, <2>1, TaskSet DEF InitiatePayment, Begin, MoneyUnchanged
<1>19. ASSUME NEW s \in Slots, ProviderAnswers(s) PROVE Shape'
  <2>1. TaskShape'
    BY <1>0, <1>19, TaskFinish, TaskGoto DEF ProviderAnswers, Steps, CheckoutSteps
  <2> QED
    BY <1>0, <1>s, <1>19, <2>1 DEF ProviderAnswers, Shape, CartShape, OrderShape
<1>20. ASSUME NEW s \in Slots, NEW x, IsOrder(x), order' = [ order EXCEPT ![task[s].order] = x ],
              Finish(s) \/ \E pc \in CancelSteps : Goto(s, pc), UNCHANGED cart
       PROVE  Shape'
  <2>1. task[s].order \in Orders
    BY <1>0 DEF TaskFits
  <2>2. TaskShape'
    BY <1>0, <1>20, TaskFinish, TaskGoto DEF Steps, CancelSteps
  <2> QED
    BY <1>0, <1>s, <1>20, <2>1, <2>2, OrderSet DEF Shape, CartShape
<1>21. ASSUME NEW s \in Slots, PaymentWrite(s) PROVE Shape'
  <2> DEFINE x == [ order[task[s].order] EXCEPT !.payment = "PAID" ]
  <2>1. ASSUME NEW y, y = x PROVE IsOrder(y)
    <3>1. task[s].order \in Orders /\ OrderRecord(order[task[s].order]) /\ IsOrder(order[task[s].order])
      BY <1>0 DEF OrderShape, IsOrder, TaskFits
    <3>2. OrderRecord(y)
      BY <2>1, <3>1 DEF OrderRecord
    <3> QED
      BY <2>1, <3>1, <3>2 DEF IsOrder, OrderRecord, OrderFits, Statuses, PaymentStates
  <2>2. order' = [ order EXCEPT ![task[s].order] = x ]
    BY <1>21 DEF PaymentWrite
  <2> HIDE DEF x
  <2> QED
    BY <1>20, <1>21, <2>1, <2>2 DEF PaymentWrite
<1>22. ASSUME NEW s \in Slots, NEW o \in Orders, CancelRead(s, o) PROVE Shape'
  <2>1. ASSUME NEW t, t = [ IdleTask EXCEPT !.pc = "cancel", !.order = o, !.payment = order[o].payment ] PROVE IsTask(t)
    <3>1. TaskRecord(t)
      BY <2>1 DEF TaskRecord, IdleTask
    <3>2. TaskFits(t)
      BY <1>0, <2>1, IdleShape DEF OrderShape, IsOrder, OrderFits, IsTask, TaskRecord, TaskFits, Steps, CartSteps, CheckoutSteps, CancelSteps
    <3> QED
      BY <3>1, <3>2 DEF IsTask
  <2> QED
    BY <1>0, <1>22, <1>a, <2>1, TaskSet DEF CancelRead, Begin, MoneyUnchanged
<1>23. ASSUME NEW s \in Slots, CancelWrite(s) PROVE Shape'
  <2> DEFINE x == [ order[task[s].order] EXCEPT !.status = "CANCELLED" ]
  <2>1. ASSUME NEW y, y = x PROVE IsOrder(y)
    <3>1. task[s].order \in Orders /\ OrderRecord(order[task[s].order]) /\ IsOrder(order[task[s].order])
      BY <1>0 DEF OrderShape, IsOrder, TaskFits
    <3>2. OrderRecord(y)
      BY <2>1, <3>1 DEF OrderRecord
    <3> QED
      BY <2>1, <3>1, <3>2 DEF IsOrder, OrderRecord, OrderFits, Statuses, PaymentStates
  <2>2. order' = [ order EXCEPT ![task[s].order] = x ]
    BY <1>23 DEF CancelWrite
  <2> HIDE DEF x
  <2> QED
    BY <1>20, <1>23, <2>1, <2>2 DEF CancelWrite, CancelSteps
<1>24. ASSUME NEW s \in Slots, CancelRefund(s) PROVE Shape'
  <2>1. TaskShape'
    BY <1>0, <1>24, TaskGoto DEF CancelRefund, Steps, CancelSteps
  <2> QED
    BY <1>24, <1>a, <2>1 DEF CancelRefund
<1>25. ASSUME NEW s \in Slots, CancelRefunded(s) PROVE Shape'
  <2> DEFINE x == [ order[task[s].order] EXCEPT !.payment = "REFUNDED" ]
  <2>1. ASSUME NEW y, y = x PROVE IsOrder(y)
    <3>1. task[s].order \in Orders /\ OrderRecord(order[task[s].order]) /\ IsOrder(order[task[s].order])
      BY <1>0 DEF OrderShape, IsOrder, TaskFits
    <3>2. OrderRecord(y)
      BY <2>1, <3>1 DEF OrderRecord
    <3>3. /\ y.status = order[task[s].order].status /\ y.customer = order[task[s].order].customer
          /\ y.method = order[task[s].order].method /\ y.payment = "REFUNDED"
          /\ y.total = order[task[s].order].total /\ y.refunds = order[task[s].order].refunds
      BY <2>1, <3>1 DEF OrderRecord
    <3>4. OrderFits(y)
      BY <3>1, <3>3 DEF IsOrder, OrderFits, PaymentStates
    <3> QED
      BY <3>2, <3>4 DEF IsOrder
  <2>2. order' = [ order EXCEPT ![task[s].order] = x ]
    BY <1>25 DEF CancelRefunded
  <2> HIDE DEF x
  <2> QED
    BY <1>20, <1>25, <2>1, <2>2 DEF CancelRefunded, CancelSteps
<1>26. ASSUME NEW s \in Slots, CancelEntry(s) PROVE Shape'
  <2> DEFINE x == [ order[task[s].order] EXCEPT !.refunds = @ + 1 ]
  <2>1. ASSUME NEW y, y = x PROVE IsOrder(y)
    <3>1. task[s].order \in Orders /\ OrderRecord(order[task[s].order]) /\ IsOrder(order[task[s].order])
      BY <1>0 DEF OrderShape, IsOrder, TaskFits
    <3>2. OrderRecord(y)
      BY <2>1, <3>1 DEF OrderRecord
    <3>3. /\ y.status = order[task[s].order].status /\ y.customer = order[task[s].order].customer
          /\ y.method = order[task[s].order].method /\ y.payment = order[task[s].order].payment
          /\ y.total = order[task[s].order].total /\ y.refunds = order[task[s].order].refunds + 1
      BY <2>1, <3>1 DEF OrderRecord
    <3>4. OrderFits(y)
      BY <3>1, <3>3 DEF IsOrder, OrderFits
    <3> QED
      BY <3>2, <3>4 DEF IsOrder
  <2>2. order' = [ order EXCEPT ![task[s].order] = x ]
    BY <1>26 DEF CancelEntry
  <2> HIDE DEF x
  <2> QED
    BY <1>20, <1>26, <2>1, <2>2 DEF CancelEntry
<1>27. ASSUME NEW o \in Orders, NEW target \in Targets, UpdateStatusWrite(o, target) PROVE Shape'
  <2> DEFINE x == [ order[o] EXCEPT !.status = target ]
  <2>1. order' = [ order EXCEPT ![o] = x ]
    BY <1>27 DEF UpdateStatusWrite
  <2>2. ASSUME NEW y, y = x PROVE IsOrder(y)
    <3>1. OrderRecord(order[o]) /\ IsOrder(order[o])
      BY <1>0 DEF OrderShape, IsOrder
    <3>2. OrderRecord(y)
      BY <2>2, <3>1 DEF OrderRecord
    <3>3. target \in Statuses
      BY CheckoutAssumption DEF Statuses
    <3> QED
      BY <2>2, <3>1, <3>2, <3>3 DEF IsOrder, OrderRecord, OrderFits
  <2> HIDE DEF x
  <2>3. OrderShape'
    BY <1>0, <2>1, <2>2, OrderSet
  <2> QED
    BY <1>0, <1>s, <1>27, <2>3 DEF UpdateStatusWrite, Shape, CartShape, TaskShape
<1>30. ASSUME NEW o \in Orders, NEW target \in Targets, UpdateStatusRead(o, target) PROVE Shape'
  BY <1>0, <1>30, <1>a DEF UpdateStatusRead, TaskShape
<1>28. ASSUME NEW s \in Slots, Fail(s) PROVE Shape'
  BY <1>0, <1>28, <1>a, TaskFinish DEF Fail, MoneyUnchanged
<1>29. CASE UNCHANGED vars
  BY <1>0, <1>29, <1>a DEF vars, TaskShape
<1> QED
  BY <1>1, <1>2, <1>3, <1>4, <1>5, <1>6, <1>7, <1>8, <1>9, <1>10, <1>11, <1>12, <1>13, <1>14,
     <1>15, <1>16, <1>17, <1>18, <1>19, <1>21, <1>22, <1>23, <1>24, <1>25, <1>26, <1>27, <1>28, <1>29, <1>30
     DEF Next, CartNext, CheckoutNext, PromotionNext, PaymentNext, CancelNext, VendorNext

LEMMA ShapeInit == Init => Shape
<1> SUFFICES ASSUME Init PROVE Shape
  OBVIOUS
<1>1. TaskShape
  BY IdleShape DEF Init, TaskShape
<1>2. CartShape
  BY NoItemsType DEF Init, CartShape
<1>3. IsOrder(NoOrder)
  <2>1. OrderRecord(NoOrder)
    BY DEF NoOrder, OrderRecord
  <2> QED
    BY <2>1, CheckoutAssumption DEF IsOrder, OrderFits, NoOrder, Statuses, PaymentStates
<1>4. OrderShape
  BY <1>3 DEF Init, OrderShape
<1>5. Counters
  BY CheckoutAssumption DEF Init, Counters
<1> QED
  BY <1>1, <1>2, <1>4, <1>5 DEF Shape

(***************************************************************************)
(* The single-restaurant rule                                              *)
(***************************************************************************)

\* What an addItem or a removeItem in progress relies on: nothing else of this customer has
\* changed the cart since it was looked at.
CartBetween(s) ==
  /\ At(s, "adopt") => Present(cart[Customer(s)].items) = {}
  /\ At(s, "put") => cart[Customer(s)].restaurant = RestaurantOf[task[s].dish]
  /\ At(s, "unset") => Present(cart[Customer(s)].items) = {}

CartInv == CartOfOneRestaurant /\ \A s \in Slots : CartBetween(s)

\* A step of one call that changes at most the cart of its customer, keeps what is promised
\* of it and of the call.
LEMMA CartStep ==
  ASSUME OneCallAtATime, Shape, CartInv, Shape', NEW s \in Slots,
         \A t \in Slots : t # s => task'[t] = task[t],
         \A c \in Customers : c # Customer(s) => cart'[c] = cart[c],
         \A r \in Present(cart'[Customer(s)].items) :
           RestaurantOf[cart'[Customer(s)].items[r].dish] = cart'[Customer(s)].restaurant,
         CartBetween(s)'
  PROVE  CartInv'
<1>1. CartOfOneRestaurant'
  BY DEF CartInv, CartOfOneRestaurant, Present
<1>2. ASSUME NEW t \in Slots, t # s PROVE CartBetween(t)'
  <2>1. Customer(t) # Customer(s) /\ Customer(t) \in Customers
    BY <1>2, SlotCustomer DEF OneCallAtATime
  <2> QED
    BY <1>2, <2>1 DEF CartInv, CartBetween, At, Present
<1> QED
  BY <1>1, <1>2 DEF CartInv

\* So does a step that leaves the carts alone and does not lead to where one is relied upon.
LEMMA QuietStep ==
  ASSUME OneCallAtATime, Shape, CartInv, Shape', NEW s \in Slots, UNCHANGED cart,
         \A t \in Slots : t # s => task'[t] = task[t],
         task'[s].pc \notin { "adopt", "put", "unset" }
  PROVE  CartInv'
<1>1. CartBetween(s)'
  BY DEF CartBetween, At
<1>2. \A r \in Present(cart'[Customer(s)].items) :
        RestaurantOf[cart'[Customer(s)].items[r].dish] = cart'[Customer(s)].restaurant
  BY SlotCustomer DEF CartInv, CartOfOneRestaurant
<1> QED
  BY <1>1, <1>2, CartStep

LEMMA CartInductive ==
  ASSUME OneCallAtATime PROVE Shape /\ CartInv /\ [Next]_vars => CartInv'
<1> SUFFICES ASSUME Shape, CartInv, [Next]_vars PROVE CartInv'
  OBVIOUS
<1> USE SlotCustomer
<1>0. /\ Shape'
      /\ \A s \in Slots : TaskRecord(task[s]) /\ TaskFits(task[s])
      /\ task = [ s \in Slots |-> task[s] ]
      /\ scenario.dishes \subseteq Dishes
  BY ShapeInductive, CheckoutAssumption DEF Shape, TaskShape, IsTask, Counters
<1>c. /\ \A c \in Customers : \A r \in Present(cart[c].items) :
           RestaurantOf[cart[c].items[r].dish] = cart[c].restaurant
      /\ \A s \in Slots : CartBetween(s)
  BY DEF CartInv, CartOfOneRestaurant
<1>t. /\ IdleTask.pc = "idle"
      /\ \A c \in Customers : cart[c] \in [ restaurant : Restaurants \cup { NoRestaurant }, items : CartRows ]
      /\ Present(NoItems) = {}
  BY DEF IdleTask, Shape, CartShape, Present, NoItems
\* Calls that leave the carts alone.
<1>q. ASSUME NEW s \in Slots, UNCHANGED cart,
             \/ Finish(s)
             \/ \E pc \in Steps \ { "adopt", "put", "unset" } : Goto(s, pc)
             \/ \E t : t.pc \notin { "adopt", "put", "unset" } /\ task' = [ task EXCEPT ![s] = t ]
      PROVE  CartInv'
  <2>1. /\ \A t \in Slots : t # s => task'[t] = task[t]
        /\ task'[s].pc \notin { "adopt", "put", "unset" }
    BY <1>0, <1>q, <1>t DEF Finish, Goto, TaskRecord
  <2> QED
    BY <1>0, <1>q, <2>1, QuietStep
<1>1. ASSUME NEW s \in Slots, NEW d \in Dishes, AddItem(s, d, 1) PROVE CartInv'
  <2>1. ASSUME NEW t, t = [ IdleTask EXCEPT !.pc = "cart", !.dish = d, !.quantity = 1 ] PROVE t.pc = "cart"
    BY <2>1 DEF IdleTask
  <2> QED
    BY <1>1, <1>q, <2>1 DEF AddItem, Begin
<1>2. ASSUME NEW s \in Slots, AddReadCart(s) PROVE CartInv'
  <2> DEFINE c == Customer(s)
  <2>1. CASE Finish(s)
    BY <1>2, <1>q, <2>1 DEF AddReadCart
  <2>2. ASSUME NEW pc \in { "adopt", "put" },
               task' = [ task EXCEPT ![s].pc = pc, ![s].items = cart[c].items ],
               pc = "adopt" <=> cart[c].restaurant = NoRestaurant \/ Present(cart[c].items) = {},
               ~OtherRestaurant(c, RestaurantOf[task[s].dish])
        PROVE  CartInv'
    <3>1. task'[s].pc = pc /\ task'[s].dish = task[s].dish /\ \A t \in Slots : t # s => task'[t] = task[t]
      BY <1>0, <2>2 DEF TaskRecord
    <3>2. cart[c].restaurant = NoRestaurant => Present(cart[c].items) = {}
      <4> SUFFICES ASSUME cart[c].restaurant = NoRestaurant, NEW r \in Present(cart[c].items) PROVE FALSE
        OBVIOUS
      <4>1. cart[c].items[r].dish \in Dishes
        BY <1>t DEF Present, CartRows
      <4> QED
        BY <1>c, <4>1, CheckoutAssumption
    <3>3. UNCHANGED cart
      BY <1>2 DEF AddReadCart
    <3>4. CartBetween(s)'
      BY <2>2, <3>1, <3>2, <3>3 DEF CartBetween, At, OtherRestaurant
    <3> QED
      BY <1>0, <1>c, <3>1, <3>3, <3>4, CartStep
  <2> QED
    BY <1>2, <2>1, <2>2 DEF AddReadCart
<1>3. ASSUME NEW s \in Slots, AddAdopt(s) PROVE CartInv'
  <2>1. /\ task'[s].pc = "put" /\ task'[s].dish = task[s].dish
        /\ \A t \in Slots : t # s => task'[t] = task[t]
    BY <1>0, <1>3 DEF AddAdopt, Goto, TaskRecord
  <2>2. /\ cart'[Customer(s)].restaurant = RestaurantOf[task[s].dish]
        /\ cart'[Customer(s)].items = cart[Customer(s)].items
        /\ \A c \in Customers : c # Customer(s) => cart'[c] = cart[c]
    BY <1>3, <1>t DEF AddAdopt, Shape, CartShape
  <2>3. Present(cart[Customer(s)].items) = {}
    BY <1>3, <1>c DEF AddAdopt, CartBetween
  <2> QED
    BY <1>0, <2>1, <2>2, <2>3, CartStep DEF CartBetween, At
\* A row of the dish that was there keeps its dish; a new one has the dish of the restaurant.
<1>s. ASSUME NEW s \in Slots, NEW r \in Rows, NEW dish, NEW quantity, SetItem(Customer(s), r, dish, quantity),
             \/ dish = NoDish
             \/ r \in Present(cart[Customer(s)].items) /\ dish = cart[Customer(s)].items[r].dish
             \/ RestaurantOf[dish] = cart[Customer(s)].restaurant
      PROVE  /\ cart'[Customer(s)].restaurant = cart[Customer(s)].restaurant
             /\ \A c \in Customers : c # Customer(s) => cart'[c] = cart[c]
             /\ \A q \in Present(cart'[Customer(s)].items) :
                  RestaurantOf[cart'[Customer(s)].items[q].dish] = cart[Customer(s)].restaurant
  <2>1. /\ cart'[Customer(s)].restaurant = cart[Customer(s)].restaurant
        /\ \A c \in Customers : c # Customer(s) => cart'[c] = cart[c]
        /\ \A q \in Rows : cart'[Customer(s)].items[q].dish =
                             IF q = r THEN dish ELSE cart[Customer(s)].items[q].dish
    BY <1>s, <1>t DEF SetItem, Shape, CartShape, CartRows
  <2> QED
    BY <1>s, <1>c, <2>1 DEF Present
<1>4. ASSUME NEW s \in Slots, AddPut(s) PROVE CartInv'
  <2>1. task'[s].pc = "idle" /\ \A t \in Slots : t # s => task'[t] = task[t]
    BY <1>0, <1>4, <1>t DEF AddPut, Finish
  <2>2. RestaurantOf[task[s].dish] = cart[Customer(s)].restaurant
    BY <1>4, <1>c DEF AddPut, CartBetween
  <2>3. CASE UNCHANGED cart
    BY <1>0, <2>1, <2>3, QuietStep
  <2>4. ASSUME NEW r \in Rows, NEW quantity, cart[Customer(s)].items[r].dish # NoDish,
               SetItem(Customer(s), r, cart[Customer(s)].items[r].dish, quantity)
        PROVE  CartInv'
    BY <1>0, <1>s, <2>1, <2>4, CartStep DEF CartBetween, At, Present
  <2>5. ASSUME NEW r \in Rows, SetItem(Customer(s), r, task[s].dish, task[s].quantity) PROVE CartInv'
    BY <1>0, <1>s, <2>1, <2>2, <2>5, CartStep DEF CartBetween, At
  <2> QED
    BY <1>4, <2>3, <2>4, <2>5 DEF AddPut
<1>5. ASSUME NEW s \in Slots, NEW r \in Rows,
             NEW operation \in RowOperations, ReadRow(s, r, operation)
      PROVE  CartInv'
  <2>1. ASSUME NEW t, NEW pc \in { "delete", "row", "write" },
               t = [ IdleTask EXCEPT !.row = r, !.pc = pc, !.operation = operation ] PROVE t.pc = pc
    BY <2>1 DEF IdleTask
  <2> QED
    BY <1>5, <1>q, <2>1 DEF ReadRow, Begin
<1>6. ASSUME NEW s \in Slots, ReadRowAgain(s) PROVE CartInv'
  BY <1>6, <1>q DEF ReadRowAgain, Steps, CartSteps
<1>7. ASSUME NEW s \in Slots, WriteRow(s) PROVE CartInv'
  <2>1. task'[s].pc = "idle" /\ \A t \in Slots : t # s => task'[t] = task[t]
    BY <1>0, <1>7, <1>t DEF WriteRow, Finish
  <2>2. CASE UNCHANGED cart
    BY <1>0, <2>1, <2>2, QuietStep
  <2>3. ASSUME NEW r \in Rows, NEW quantity, cart[Customer(s)].items[r].dish # NoDish,
               SetItem(Customer(s), r, cart[Customer(s)].items[r].dish, quantity)
        PROVE  CartInv'
    BY <1>0, <1>s, <2>1, <2>3, CartStep DEF CartBetween, At, Present
  <2>4. task[s].row \in Rows
    BY <1>0 DEF TaskFits
  <2> QED
    BY <1>7, <2>2, <2>3, <2>4 DEF WriteRow
<1>8. ASSUME NEW s \in Slots, DeleteRow(s) PROVE CartInv'
  <2>1. CASE Finish(s) /\ UNCHANGED cart
    BY <1>q, <2>1
  <2>2. CASE SetItem(Customer(s), task[s].row, NoDish, 0) /\ Goto(s, "count")
    <3>1. task'[s].pc = "count" /\ \A t \in Slots : t # s => task'[t] = task[t]
      BY <1>0, <2>2 DEF Goto, TaskRecord
    <3>2. task[s].row \in Rows
      BY <1>0 DEF TaskFits
    <3> QED
      BY <1>0, <1>s, <2>2, <3>1, <3>2, CartStep DEF CartBetween, At
  <2> QED
    BY <1>8, <2>1, <2>2 DEF DeleteRow
<1>9. ASSUME NEW s \in Slots, CountRows(s) PROVE CartInv'
  <2>1. CASE Finish(s)
    BY <1>9, <1>q, <2>1 DEF CountRows
  <2>2. CASE Goto(s, "unset") /\ Present(cart[Customer(s)].items) = {}
    <3>1. task'[s].pc = "unset" /\ (\A t \in Slots : t # s => task'[t] = task[t]) /\ UNCHANGED cart
      BY <1>0, <1>9, <2>2 DEF Goto, TaskRecord, CountRows
    <3> QED
      BY <1>0, <1>c, <2>2, <3>1, CartStep DEF CartBetween, At
  <2> QED
    BY <1>9, <2>1, <2>2 DEF CountRows
<1>10. ASSUME NEW s \in Slots, ClearCart(s) PROVE CartInv'
  <2>1. ASSUME NEW t, t = [ IdleTask EXCEPT !.pc = "unset" ] PROVE t.pc = "unset"
    BY <2>1 DEF IdleTask
  <2>2. task'[s].pc = "unset" /\ \A t \in Slots : t # s => task'[t] = task[t]
    BY <1>0, <1>10, <2>1 DEF ClearCart, Begin
  <2>3. /\ \A c \in Customers : c # Customer(s) => cart'[c] = cart[c]
        /\ Present(cart'[Customer(s)].items) = {}
    BY <1>10, <1>t DEF ClearCart, Shape, CartShape
  <2> QED
    BY <1>0, <2>2, <2>3, CartStep DEF CartBetween, At
<1>11. ASSUME NEW s \in Slots, UnsetRestaurant(s) PROVE CartInv'
  <2>1. task'[s].pc = "idle" /\ \A t \in Slots : t # s => task'[t] = task[t]
    BY <1>0, <1>11, <1>t DEF UnsetRestaurant, Finish
  <2>2. /\ \A c \in Customers : c # Customer(s) => cart'[c] = cart[c]
        /\ cart'[Customer(s)].items = cart[Customer(s)].items
    BY <1>11, <1>t DEF UnsetRestaurant, Shape, CartShape
  <2>3. Present(cart[Customer(s)].items) = {}
    BY <1>11, <1>c DEF UnsetRestaurant, CartBetween
  <2> QED
    BY <1>0, <2>1, <2>2, <2>3, CartStep DEF CartBetween, At
<1>12. ASSUME NEW s \in Slots, NEW method \in Methods, NEW withPromo \in BOOLEAN,
              CheckoutReadCart(s, method, withPromo)
       PROVE  CartInv'
  <2>1. ASSUME NEW t, NEW pc \in { "promotion", "wallet", "purchase" }, NEW total,
               t = [ IdleTask EXCEPT !.pc = pc, !.items = cart[Customer(s)].items,
                                     !.method = method, !.total = total ]
        PROVE  t.pc = pc
    BY <2>1 DEF IdleTask
  <2> QED
    BY <1>12, <1>q, <2>1 DEF CheckoutReadCart, Begin
<1>13. ASSUME NEW s \in Slots, CheckoutReadPromotion(s) \/ CheckoutReadUsages(s) PROVE CartInv'
  <2>1. task'[s].pc \notin { "adopt", "put", "unset" } /\ \A t \in Slots : t # s => task'[t] = task[t]
    <3>1. TaskRecord(task[s]) /\ task = [ t \in Slots |-> task[t] ]
      BY <1>0
    <3>2. CASE Finish(s)
      BY <1>t, <3>1, <3>2 DEF Finish
    <3>3. CASE task' = [ task EXCEPT ![s].pc = "usages", ![s].promo = promo.id ]
      BY <3>1, <3>3 DEF TaskRecord
    <3>4. ASSUME NEW pc \in { "wallet", "purchase" },
                 task' = [ task EXCEPT ![s].total = @ - Discount, ![s].pc = pc ]
          PROVE  task'[s].pc = pc /\ \A t \in Slots : t # s => task'[t] = task[t]
      BY <3>1, <3>4 DEF TaskRecord
    <3> QED
      BY <1>13, <3>2, <3>3, <3>4 DEF CheckoutReadPromotion, CheckoutReadUsages
  <2> QED
    BY <1>0, <1>13, <2>1, QuietStep DEF CheckoutReadPromotion, CheckoutReadUsages
<1>15. ASSUME NEW s \in Slots, CheckoutReadWallet(s) PROVE CartInv'
  BY <1>15, <1>q DEF CheckoutReadWallet, Steps, CheckoutSteps
<1>16. ASSUME NEW s \in Slots, CheckoutPurchase(s) PROVE CartInv'
  <2>1. task'[s].pc \notin { "adopt", "put", "unset" } /\ \A t \in Slots : t # s => task'[t] = task[t]
    <3>1. ASSUME NEW t, NEW o, t = [ IdleTask EXCEPT !.pc = "pay", !.order = o ] PROVE t.pc = "pay"
      BY <3>1 DEF IdleTask
    <3>2. Finish(s) \/ \E o \in Orders : task' = [ task EXCEPT ![s] = [ IdleTask EXCEPT !.pc = "pay", !.order = o ] ]
      BY <1>16 DEF CheckoutPurchase
    <3> QED
      BY <1>0, <1>t, <3>1, <3>2 DEF Finish
  <2>2. CASE UNCHANGED cart
    BY <1>0, <2>1, <2>2, QuietStep
  <2>3. CASE cart' = [ cart EXCEPT ![Customer(s)] = [ restaurant |-> NoRestaurant, items |-> NoItems ] ]
    <3>1. /\ \A c \in Customers : c # Customer(s) => cart'[c] = cart[c]
          /\ Present(cart'[Customer(s)].items) = {}
      BY <2>3, <1>t DEF Shape, CartShape
    <3> QED
      BY <1>0, <2>1, <3>1, CartStep DEF CartBetween, At
  <2> QED
    BY <1>16, <2>2, <2>3 DEF CheckoutPurchase
\* The provider, cancellations and failures.
<1>17. ASSUME NEW s \in Slots,
              \/ ProviderAnswers(s) \/ PaymentWrite(s) \/ Fail(s)
              \/ CancelWrite(s) \/ CancelRefund(s) \/ CancelRefunded(s) \/ CancelEntry(s)
       PROVE  CartInv'
  BY <1>17, <1>q DEF ProviderAnswers, PaymentWrite, Fail, CancelWrite, CancelRefund, CancelRefunded,
                     CancelEntry, Steps, CheckoutSteps, CancelSteps
<1>18. ASSUME NEW s \in Slots, NEW o \in Orders, InitiatePayment(s, o) \/ CancelRead(s, o) PROVE CartInv'
  <2>1. ASSUME NEW t, \/ t = [ IdleTask EXCEPT !.pc = "pay", !.order = o ]
                      \/ t = [ IdleTask EXCEPT !.pc = "cancel", !.order = o, !.payment = order[o].payment ]
        PROVE  t.pc \in { "pay", "cancel" }
    BY <2>1 DEF IdleTask
  <2> QED
    BY <1>18, <1>q, <2>1 DEF InitiatePayment, CancelRead, Begin
<1>19. ASSUME UNCHANGED << cart, task >> PROVE CartInv'
  BY <1>19 DEF CartInv, CartOfOneRestaurant, CartBetween, At, Present
<1>20. ASSUME \/ IncrementUsage \/ LoseIncrement \/ CreatePromotion \/ UpdatePromotion \/ RemovePromotion
              \/ \E o \in Orders, target \in Targets :
                   UpdateStatusRead(o, target) \/ UpdateStatusWrite(o, target)
              \/ UNCHANGED vars
       PROVE  CartInv'
  BY <1>19, <1>20 DEF IncrementUsage, LoseIncrement, CreatePromotion, UpdatePromotion, RemovePromotion,
                      UpdateStatusRead, UpdateStatusWrite, vars
<1> QED
  BY <1>0, <1>1, <1>2, <1>3, <1>4, <1>5, <1>6, <1>7, <1>8, <1>9, <1>10, <1>11, <1>12, <1>13,
     <1>15, <1>16, <1>17, <1>18, <1>20
     DEF Next, CartNext, CheckoutNext, PromotionNext, PaymentNext, CancelNext, VendorNext

\* However a customer fills, edits and clears the cart and checks out, and wherever one of
\* these calls stops, the cart holds items of the restaurant it names only.
THEOREM SingleRestaurant ==
  ASSUME OneCallAtATime PROVE Spec => []CartOfOneRestaurant
<1>1. Init => CartInv
  <2> SUFFICES ASSUME Init PROVE CartInv
    OBVIOUS
  <2>1. \A s \in Slots : At(s, "idle")
    BY DEF Init, At, IdleTask
  <2>2. \A c \in Customers : Present(cart[c].items) = {}
    BY DEF Init, Present, NoItems
  <2> QED
    BY <2>1, <2>2 DEF CartInv, CartBetween, CartOfOneRestaurant, At
<1>2. CartInv => CartOfOneRestaurant
  BY DEF CartInv
<1> QED
  BY <1>1, <1>2, ShapeInit, ShapeInductive, CartInductive, PTL DEF Spec

(***************************************************************************)
(* The steps, as they are about money                                      *)
(***************************************************************************)

\* A call that is not at a statement about money, and leaves orders, wallets and charges alone.
Elsewhere(s) ==
  /\ UNCHANGED << order, wallet, charges >>
  /\ \A t \in Slots : t # s => task'[t] = task[t]
  /\ task[s].pc \notin CancelSteps \cup { "paid" }
  /\ task'[s].pc \notin CancelSteps \cup { "paid" }

LEMMA StepCases ==
  ASSUME Shape, [Next]_vars
  PROVE  \/ \E s \in Slots : Elsewhere(s)
         \/ \E s \in Slots :
              \/ CheckoutPurchase(s) \/ ProviderAnswers(s) \/ PaymentWrite(s)
              \/ \E o \in Orders : CancelRead(s, o)
              \/ CancelWrite(s) \/ CancelRefund(s) \/ CancelRefunded(s) \/ CancelEntry(s) \/ Fail(s)
         \/ \E o \in Orders, target \in Targets : UpdateStatusWrite(o, target)
         \/ UNCHANGED << order, wallet, charges, task >>
<1> USE SlotCustomer
<1>0. /\ \A s \in Slots : TaskRecord(task[s])
      /\ task = [ s \in Slots |-> task[s] ]
  BY DEF Shape, TaskShape, IsTask
<1>t. IdleTask.pc = "idle"
  BY DEF IdleTask
<1>q. ASSUME NEW s \in Slots, UNCHANGED << order, wallet, charges >>,
             task[s].pc \notin CancelSteps \cup { "paid" },
             \/ Finish(s)
             \/ \E pc \in Steps \ (CancelSteps \cup { "paid" }) : Goto(s, pc)
             \/ \E t : t.pc \notin CancelSteps \cup { "paid" } /\ task' = [ task EXCEPT ![s] = t ]
      PROVE  Elsewhere(s)
  BY <1>0, <1>q, <1>t DEF Elsewhere, Finish, Goto, TaskRecord, CancelSteps
<1>f. ASSUME NEW s \in Slots, Finish(s)
      PROVE  task'[s].pc = "idle" /\ \A t \in Slots : t # s => task'[t] = task[t]
  BY <1>0, <1>f, <1>t DEF Finish
<1>1. ASSUME NEW s \in Slots, NEW d \in scenario.dishes, AddItem(s, d, 1) PROVE Elsewhere(s)
  <2>1. ASSUME NEW t, t = [ IdleTask EXCEPT !.pc = "cart", !.dish = d, !.quantity = 1 ] PROVE t.pc = "cart"
    BY <2>1 DEF IdleTask
  <2> QED
    BY <1>1, <1>q, <2>1 DEF AddItem, Begin, At, MoneyUnchanged, CancelSteps
<1>2. ASSUME NEW s \in Slots, AddReadCart(s) PROVE Elsewhere(s)
  <2>1. TaskRecord(task[s]) /\ task = [ t \in Slots |-> task[t] ]
    BY <1>0
  <2>2. ASSUME NEW pc \in { "adopt", "put" },
               task' = [ task EXCEPT ![s].pc = pc, ![s].items = cart[Customer(s)].items ]
        PROVE  task'[s].pc = pc /\ \A t \in Slots : t # s => task'[t] = task[t]
    BY <2>1, <2>2 DEF TaskRecord
  <2>3. task'[s].pc \notin CancelSteps \cup { "paid" } /\ \A t \in Slots : t # s => task'[t] = task[t]
    BY <1>2, <1>f, <2>2 DEF AddReadCart, CancelSteps
  <2> QED
    BY <1>2, <2>3 DEF Elsewhere, AddReadCart, At, MoneyUnchanged, CancelSteps
\* The other statements about a cart.
<1>3. ASSUME NEW s \in Slots,
             \/ AddAdopt(s) \/ AddPut(s) \/ ReadRowAgain(s) \/ WriteRow(s) \/ DeleteRow(s)
             \/ CountRows(s) \/ UnsetRestaurant(s) \/ CheckoutReadWallet(s)
      PROVE  Elsewhere(s)
  <2>1. UNCHANGED << order, wallet, charges >>
    BY <1>3 DEF AddAdopt, AddPut, ReadRowAgain, WriteRow, DeleteRow, CountRows, UnsetRestaurant,
                CheckoutReadWallet, MoneyUnchanged
  <2>2. Finish(s) \/ \E pc \in Steps \ (CancelSteps \cup { "paid" }) : Goto(s, pc)
    BY <1>3 DEF AddAdopt, AddPut, ReadRowAgain, WriteRow, DeleteRow, CountRows, UnsetRestaurant,
                CheckoutReadWallet, Steps, CartSteps, CheckoutSteps, CancelSteps
  <2>3. task[s].pc \notin CancelSteps \cup { "paid" }
    BY <1>3 DEF AddAdopt, AddPut, ReadRowAgain, WriteRow, DeleteRow, CountRows, UnsetRestaurant,
                CheckoutReadWallet, At, CancelSteps
  <2> QED
    BY <1>q, <2>1, <2>2, <2>3
<1>4. ASSUME NEW s \in Slots, NEW r \in Rows,
             NEW operation \in RowOperations, ReadRow(s, r, operation)
      PROVE  Elsewhere(s)
  <2>1. ASSUME NEW t, NEW pc \in { "delete", "row", "write" },
               t = [ IdleTask EXCEPT !.row = r, !.pc = pc, !.operation = operation ] PROVE t.pc = pc
    BY <2>1 DEF IdleTask
  <2> QED
    BY <1>4, <1>q, <2>1 DEF ReadRow, Begin, At, MoneyUnchanged, CancelSteps
<1>5. ASSUME NEW s \in Slots, ClearCart(s) PROVE Elsewhere(s)
  <2>1. ASSUME NEW t, t = [ IdleTask EXCEPT !.pc = "unset" ] PROVE t.pc = "unset"
    BY <2>1 DEF IdleTask
  <2> QED
    BY <1>5, <1>q, <2>1 DEF ClearCart, Begin, At, MoneyUnchanged, CancelSteps
<1>6. ASSUME NEW s \in Slots, NEW method \in Methods, NEW withPromo \in BOOLEAN,
             CheckoutReadCart(s, method, withPromo)
      PROVE  Elsewhere(s)
  <2>1. ASSUME NEW t, NEW pc \in { "promotion", "wallet", "purchase" }, NEW total,
               t = [ IdleTask EXCEPT !.pc = pc, !.items = cart[Customer(s)].items,
                                     !.method = method, !.total = total ]
        PROVE  t.pc = pc
    BY <2>1 DEF IdleTask
  <2> QED
    BY <1>6, <1>q, <2>1 DEF CheckoutReadCart, Begin, At, MoneyUnchanged, CancelSteps
<1>7. ASSUME NEW s \in Slots, CheckoutReadPromotion(s) \/ CheckoutReadUsages(s) PROVE Elsewhere(s)
  <2>1. TaskRecord(task[s]) /\ task = [ t \in Slots |-> task[t] ]
    BY <1>0
  <2>2. ASSUME task' = [ task EXCEPT ![s].pc = "usages", ![s].promo = promo.id ]
        PROVE  task'[s].pc = "usages" /\ \A t \in Slots : t # s => task'[t] = task[t]
    BY <2>1, <2>2 DEF TaskRecord
  <2>3. ASSUME NEW pc \in { "wallet", "purchase" },
               task' = [ task EXCEPT ![s].total = @ - Discount, ![s].pc = pc ]
        PROVE  task'[s].pc = pc /\ \A t \in Slots : t # s => task'[t] = task[t]
    BY <2>1, <2>3 DEF TaskRecord
  <2>4. task'[s].pc \notin CancelSteps \cup { "paid" } /\ \A t \in Slots : t # s => task'[t] = task[t]
    BY <1>7, <1>f, <2>2, <2>3 DEF CheckoutReadPromotion, CheckoutReadUsages, CancelSteps
  <2> QED
    BY <1>7, <2>4 DEF Elsewhere, CheckoutReadPromotion, CheckoutReadUsages, At, MoneyUnchanged, CancelSteps
<1>8. ASSUME NEW s \in Slots, NEW o \in Orders, InitiatePayment(s, o) PROVE Elsewhere(s)
  <2>1. ASSUME NEW t, t = [ IdleTask EXCEPT !.pc = "pay", !.order = o ] PROVE t.pc = "pay"
    BY <2>1 DEF IdleTask
  <2> QED
    BY <1>8, <1>q, <2>1 DEF InitiatePayment, Begin, At, MoneyUnchanged, CancelSteps
<1> QED
  BY <1>1, <1>2, <1>3, <1>4, <1>5, <1>6, <1>7, <1>8
     DEF Next, CartNext, CheckoutNext, PromotionNext, PaymentNext, CancelNext, VendorNext,
         IncrementUsage, LoseIncrement, CreatePromotion, UpdatePromotion, RemovePromotion,
         UpdateStatusRead, vars

\* A status is written to an order that exists: it was there when it was read.
UpdatesExist == \A o \in Orders : updating[o] # {} => order[o].status # "none"

LEMMA UpdatesExistInit == Init => UpdatesExist
BY DEF Init, UpdatesExist

\* An order that was placed stays, with its customer and its method.
LEMMA OrderStays ==
  ASSUME Shape, [Next]_vars, NEW p \in Orders
  PROVE  /\ order[p].status # "none" => order'[p].status # "none"
         /\ order[p].status # "none" \/ order'[p].status = "none" =>
              order'[p].customer = order[p].customer /\ order'[p].method = order[p].method
<1>0. /\ order = [ o \in Orders |-> order[o] ]
      /\ \A o \in Orders : OrderRecord(order[o])
      /\ \A s \in Slots : task[s].order \in Orders
  BY DEF Shape, OrderShape, IsOrder, TaskShape, IsTask, TaskFits
<1>1. ASSUME NEW o \in Orders, NEW target \in Targets, UpdateStatusWrite(o, target)
      PROVE  /\ order'[o].status = target /\ target # "none"
             /\ order'[o].customer = order[o].customer /\ order'[o].method = order[o].method
             /\ \A q \in Orders : q # o => order'[q] = order[q]
  <2>1. OrderRecord(order[o]) /\ order = [ q \in Orders |-> order[q] ] /\ target # "none"
    BY <1>0, CheckoutAssumption
  <2> QED
    BY <1>1, <2>1 DEF UpdateStatusWrite, OrderRecord
<1>2. ASSUME NEW s \in Slots, PaymentWrite(s) \/ CancelWrite(s) \/ CancelRefunded(s) \/ CancelEntry(s)
      PROVE  \E o \in Orders :
               /\ order'[o].status \in { order[o].status, "CANCELLED" }
               /\ order'[o].customer = order[o].customer /\ order'[o].method = order[o].method
               /\ \A q \in Orders : q # o => order'[q] = order[q]
  <2>o. PICK o \in Orders : o = task[s].order
    BY <1>0
  <2>1. OrderRecord(order[o]) /\ order = [ q \in Orders |-> order[q] ]
    BY <1>0
  <2> QED
    BY <1>2, <2>o, <2>1 DEF PaymentWrite, CancelWrite, CancelRefunded, CancelEntry, OrderRecord
<1>3. ASSUME NEW s \in Slots, CheckoutPurchase(s), ~ UNCHANGED order
      PROVE  \E o \in Orders : /\ order[o].status = "none" /\ order'[o].status = "PENDING"
                               /\ \A q \in Orders : q # o => order'[q] = order[q]
  <2> DEFINE new == [ status |-> "PENDING", customer |-> Customer(s), method |-> task[s].method,
                      payment |-> IF task[s].method = "WALLET" THEN "PAID" ELSE "PENDING",
                      total |-> task[s].total, refunds |-> 0 ]
  <2>1. PICK o \in Orders : order[o].status = "none" /\ order' = [ order EXCEPT ![o] = new ]
    BY <1>3 DEF CheckoutPurchase, IsNext
  <2>2. new.status = "PENDING"
    OBVIOUS
  <2> HIDE DEF new
  <2> QED
    BY <1>0, <2>1, <2>2
<1>4. CASE \E s \in Slots : CheckoutPurchase(s)
  BY <1>3, <1>4
<1>5. CASE \E s \in Slots : PaymentWrite(s) \/ CancelWrite(s) \/ CancelRefunded(s) \/ CancelEntry(s)
  BY <1>2, <1>5
<1>6. CASE \E o \in Orders, target \in Targets : UpdateStatusWrite(o, target)
  BY <1>1, <1>6
<1>7. CASE UNCHANGED order
  BY <1>7
<1> QED
  BY <1>4, <1>5, <1>6, <1>7, StepCases
     DEF Elsewhere, ProviderAnswers, CancelRead, CancelRefund, Fail, MoneyUnchanged

LEMMA UpdatesExistInductive == Shape /\ UpdatesExist /\ [Next]_vars => UpdatesExist'
<1> SUFFICES ASSUME Shape, UpdatesExist, [Next]_vars PROVE UpdatesExist'
  OBVIOUS
<1>0. updating \in [ Orders -> SUBSET Targets ]
  BY DEF Shape, Counters
<1>1. ASSUME NEW o \in Orders, NEW target \in Targets, UpdateStatusRead(o, target) PROVE UpdatesExist'
  BY <1>0, <1>1 DEF UpdateStatusRead, UpdatesExist
<1>2. ASSUME \A o \in Orders : updating'[o] \subseteq updating[o] PROVE UpdatesExist'
  BY <1>2, OrderStays DEF UpdatesExist
<1>3. ASSUME NEW o \in Orders, NEW target \in Targets, UpdateStatusWrite(o, target) PROVE UpdatesExist'
  <2>1. \A p \in Orders : updating'[p] \subseteq updating[p]
    BY <1>0, <1>3 DEF UpdateStatusWrite
  <2> QED
    BY <1>2, <2>1
<1>4. ASSUME UNCHANGED updating PROVE UpdatesExist'
  BY <1>2, <1>4
<1> QED
  BY <1>1, <1>3, <1>4 DEF Next, CartNext, CheckoutNext, PromotionNext, PaymentNext, CancelNext, VendorNext, vars

(***************************************************************************)
(* Refunds                                                                 *)
(***************************************************************************)

\* How often the total of the order was taken, from the wallet or off a card.
Taken(o) == charges[o] + (IF order[o].method = "WALLET" THEN 1 ELSE 0)

\* The call is about to give a payment back: it cancels an order it found paid.
GivesBack(s) ==
  \/ At(s, "cancel") /\ task[s].payment = "PAID"
  \/ task[s].pc \in { "refund", "refunded" }

\* Each of these calls stands for one payment of the order: its PAID is not written yet, or its
\* refund is not entered yet.
Claims(o) ==
  { s \in Slots : task[s].order = o /\ (GivesBack(s) \/ task[s].pc \in { "paid", "entry" }) }

\* The PAID in the row can still be refunded: no call is giving it back.
ToRefund(o) ==
  order[o].payment = "PAID" /\ ~ \E s \in Slots : task[s].order = o /\ GivesBack(s)

\* Every refund in the ledger, the PAID in the row and every such call has a payment of its own.
Budget(o) ==
  order[o].refunds + (IF ToRefund(o) THEN 1 ELSE 0) + Cardinality(Claims(o)) <= Taken(o)

\* A cancellation is of an order its customer has placed.
CancelsOwn(s) ==
  task[s].pc \in CancelSteps => /\ order[task[s].order].status # "none"
                                /\ order[task[s].order].customer = Customer(s)

RefundInv ==
  /\ \A o \in Orders : Budget(o) /\ (order[o].status = "none" => order[o].method = "CASH")
  /\ \A s \in Slots : CancelsOwn(s)

LEMMA SlotsFinite == IsFiniteSet(Slots)
BY CheckoutAssumption, FS_Product DEF Slots

\* A step of one call: it alone can have joined or left the claims.
OneCalls(s) == \A t \in Slots : t # s => task'[t] = task[t]

LEMMA ClaimsChange ==
  ASSUME NEW o, NEW s \in Slots, OneCalls(s)
  PROVE  /\ Cardinality(Claims(o)) \in Nat /\ Cardinality(Claims(o)') \in Nat
         /\ Cardinality(Claims(o)') =
              Cardinality(Claims(o)) + (IF s \in Claims(o)' THEN 1 ELSE 0) - (IF s \in Claims(o) THEN 1 ELSE 0)
<1>1. PICK before : before = Claims(o)
  OBVIOUS
<1>2. PICK after : after = Claims(o)'
  OBVIOUS
<1>3. IsFiniteSet(before) /\ IsFiniteSet(after)
  BY <1>1, <1>2, SlotsFinite, FS_Subset DEF Claims
<1>4. before \ { s } = after \ { s }
  BY <1>1, <1>2 DEF Claims, GivesBack, At, OneCalls
<1>5. Cardinality(before) \in Nat /\ Cardinality(after) \in Nat
  BY <1>3, FS_CardinalityType
<1>6. /\ Cardinality(before \ { s }) = IF s \in before THEN Cardinality(before) - 1 ELSE Cardinality(before)
      /\ Cardinality(after \ { s }) = IF s \in after THEN Cardinality(after) - 1 ELSE Cardinality(after)
  BY <1>3, FS_RemoveElement
<1> QED
  BY <1>1, <1>2, <1>4, <1>5, <1>6

\* What the steps do with the claims of an order.  The numbers of an order, before and after.
Numbers(o) == order[o].refunds \in Nat /\ charges[o] \in Nat

LEMMA ClaimDropped ==
  ASSUME NEW o, NEW s \in Slots, OneCalls(s), Budget(o), Numbers(o), Numbers(o)',
         s \notin Claims(o)', s \in Claims(o) \/ order'[o].payment = order[o].payment,
         order'[o].refunds = order[o].refunds,
         order'[o].method = order[o].method, charges'[o] >= charges[o]
  PROVE  Budget(o)'
<1>1. s \notin Claims(o) => ToRefund(o)' = ToRefund(o)
  BY DEF ToRefund, Claims, GivesBack, At, OneCalls
<1> QED
  BY <1>1, ClaimsChange DEF Budget, Taken, Numbers

LEMMA ClaimKept ==
  ASSUME NEW o, NEW s \in Slots, OneCalls(s), Budget(o), Numbers(o), Numbers(o)',
         s \in Claims(o), s \in Claims(o)',
         \/ order'[o].payment = order[o].payment /\ GivesBack(s) /\ GivesBack(s)'
         \/ order'[o].payment # "PAID",
         order'[o].refunds = order[o].refunds,
         order'[o].method = order[o].method, charges'[o] = charges[o]
  PROVE  Budget(o)'
<1>1. ToRefund(o)' => ToRefund(o)
  BY DEF ToRefund, Claims, OneCalls
<1> QED
  BY <1>1, ClaimsChange DEF Budget, Taken, Numbers

\* The call's claim becomes a refund in the ledger.
LEMMA ClaimEntered ==
  ASSUME NEW o, NEW s \in Slots, OneCalls(s), Budget(o), Numbers(o), Numbers(o)',
         s \in Claims(o), s \notin Claims(o)', ~ GivesBack(s), ~ GivesBack(s)',
         order'[o].payment = order[o].payment, order'[o].refunds = order[o].refunds + 1,
         order'[o].method = order[o].method, charges'[o] = charges[o]
  PROVE  Budget(o)'
<1>1. ToRefund(o)' => ToRefund(o)
  BY DEF ToRefund, GivesBack, At, OneCalls
<1> QED
  BY <1>1, ClaimsChange DEF Budget, Taken, Numbers

\* A charge is claimed by the call that took it.
LEMMA ChargeClaimed ==
  ASSUME NEW o, NEW s \in Slots, OneCalls(s), Budget(o), Numbers(o), Numbers(o)',
         s \notin Claims(o), s \in Claims(o)', ~ GivesBack(s), ~ GivesBack(s)',
         order'[o] = order[o], charges'[o] = charges[o] + 1
  PROVE  Budget(o)'
<1>1. ToRefund(o)' => ToRefund(o)
  BY DEF ToRefund, GivesBack, At, OneCalls
<1> QED
  BY <1>1, ClaimsChange DEF Budget, Taken, Numbers

\* The PAID that nobody was giving back becomes a call's claim.
LEMMA PaymentClaimed ==
  ASSUME NEW o, NEW s \in Slots, OneCalls(s), Budget(o), Numbers(o), Numbers(o)',
         s \notin Claims(o), s \in Claims(o)', GivesBack(s)', ToRefund(o),
         order'[o] = order[o], charges'[o] = charges[o]
  PROVE  Budget(o)'
<1>1. ~ ToRefund(o)'
  BY DEF ToRefund, Claims
<1> QED
  BY <1>1, ClaimsChange DEF Budget, Taken, Numbers

LEMMA RefundInductive ==
  ASSUME OneCallAtATime PROVE Shape /\ RefundInv /\ [Next]_vars => RefundInv'
<1> SUFFICES ASSUME Shape, RefundInv, [Next]_vars PROVE RefundInv'
  OBVIOUS
<1> USE SlotCustomer
<1>0. /\ \A s \in Slots : TaskRecord(task[s])
      /\ \A s \in Slots : task[s].order \in Orders
      /\ task = [ s \in Slots |-> task[s] ]
      /\ order = [ o \in Orders |-> order[o] ]
      /\ \A o \in Orders : OrderRecord(order[o])
      /\ charges \in [ Orders -> Nat ]
  <2>1. charges \in [ Orders -> Nat ]
    BY CheckoutAssumption DEF Shape, Counters
  <2> QED
    BY <2>1 DEF Shape, TaskShape, OrderShape, IsTask, TaskFits, IsOrder
<1>n. \A o \in Orders : Numbers(o) /\ Numbers(o)'
  <2>1. Shape'
    BY ShapeInductive
  <2> QED
    BY <2>1, CheckoutAssumption DEF Shape, OrderShape, IsOrder, OrderFits, Counters, Numbers
<1>r. /\ \A o \in Orders : Budget(o) /\ (order[o].status = "none" => order[o].method = "CASH")
      /\ \A s \in Slots : CancelsOwn(s)
  BY DEF RefundInv
<1>m. \A o \in Orders : order'[o].status = "none" => order'[o].method = "CASH"
  BY <1>r, OrderStays
<1>t. IdleTask.pc = "idle"
  BY DEF IdleTask
\* Where a call that goes on, or has ended, stands.
<1>g. ASSUME NEW s \in Slots, NEW pc, Goto(s, pc)
      PROVE  /\ task'[s].pc = pc /\ task'[s].order = task[s].order /\ task'[s].payment = task[s].payment
             /\ OneCalls(s)
  <2>1. TaskRecord(task[s]) /\ task = [ t \in Slots |-> task[t] ]
    BY <1>0
  <2> QED
    BY <1>g, <2>1 DEF Goto, TaskRecord, OneCalls
<1>f. ASSUME NEW s \in Slots, Finish(s)
      PROVE  task'[s].pc = "idle" /\ OneCalls(s)
  BY <1>0, <1>f, <1>t DEF Finish, OneCalls
\* The calls of the others cancel orders of their customers still.
<1>q. ASSUME NEW s \in Slots, OneCalls(s), CancelsOwn(s)', \A o \in Orders : Budget(o)'
      PROVE  RefundInv'
  <2>1. ASSUME NEW t \in Slots, t # s PROVE CancelsOwn(t)'
    <3>1. task'[t] = task[t] /\ task[t].order \in Orders /\ CancelsOwn(t)
      BY <1>0, <1>q, <1>r, <2>1 DEF OneCalls
    <3> QED
      BY <3>1, OrderStays DEF CancelsOwn
  <2> QED
    BY <1>m, <1>q, <2>1 DEF RefundInv
\* A call goes on with its cancellation, or with none.
<1>o. ASSUME NEW s \in Slots, \/ task'[s].pc \notin CancelSteps
                              \/ task[s].pc \in CancelSteps /\ task'[s].order = task[s].order
      PROVE  CancelsOwn(s)'
  BY <1>0, <1>o, <1>r, OrderStays DEF CancelsOwn
\* An order that a call has changed in payment, status or refunds.
<1>u. ASSUME NEW s \in Slots, NEW o \in Orders, o = task[s].order,
             PaymentWrite(s) \/ CancelWrite(s) \/ CancelRefunded(s) \/ CancelEntry(s)
      PROVE  /\ \A p \in Orders : p # o => order'[p] = order[p]
             /\ order'[o].method = order[o].method
             /\ PaymentWrite(s) => order'[o].refunds = order[o].refunds
             /\ CancelWrite(s) => order'[o].refunds = order[o].refunds /\ order'[o].payment = order[o].payment
             /\ CancelRefunded(s) => order'[o].refunds = order[o].refunds /\ order'[o].payment = "REFUNDED"
             /\ CancelEntry(s) => order'[o].refunds = order[o].refunds + 1 /\ order'[o].payment = order[o].payment
             /\ UNCHANGED charges
  <2>1. OrderRecord(order[o]) /\ order = [ p \in Orders |-> order[p] ]
    BY <1>0
  <2>2. ASSUME PaymentWrite(s)
        PROVE  /\ \A p \in Orders : p # o => order'[p] = order[p]
               /\ order'[o].method = order[o].method /\ order'[o].refunds = order[o].refunds
    BY <1>u, <2>1, <2>2 DEF PaymentWrite, OrderRecord
  <2>3. ASSUME CancelWrite(s)
        PROVE  /\ \A p \in Orders : p # o => order'[p] = order[p]
               /\ order'[o].method = order[o].method /\ order'[o].refunds = order[o].refunds
               /\ order'[o].payment = order[o].payment
    BY <1>u, <2>1, <2>3 DEF CancelWrite, OrderRecord
  <2>4. ASSUME CancelRefunded(s)
        PROVE  /\ \A p \in Orders : p # o => order'[p] = order[p]
               /\ order'[o].method = order[o].method /\ order'[o].refunds = order[o].refunds
               /\ order'[o].payment = "REFUNDED"
    BY <1>u, <2>1, <2>4 DEF CancelRefunded, OrderRecord
  <2>5. ASSUME CancelEntry(s)
        PROVE  /\ \A p \in Orders : p # o => order'[p] = order[p]
               /\ order'[o].method = order[o].method /\ order'[o].refunds = order[o].refunds + 1
               /\ order'[o].payment = order[o].payment
    BY <1>u, <2>1, <2>5 DEF CancelEntry, OrderRecord
  <2>6. UNCHANGED charges
    BY <1>u DEF PaymentWrite, CancelWrite, CancelRefunded, CancelEntry
  <2> QED
    BY <1>u, <2>2, <2>3, <2>4, <2>5, <2>6
\* A call that gives nothing back any more.
<1>1. ASSUME NEW s \in Slots, UNCHANGED << order, charges >>, OneCalls(s),
             task'[s].pc \notin CancelSteps \cup { "paid" }
      PROVE  RefundInv'
  <2>1. ASSUME NEW o \in Orders PROVE Budget(o)'
    <3>1. s \notin Claims(o)'
      BY <1>1 DEF Claims, GivesBack, At, CancelSteps
    <3> QED
      BY <1>1, <1>n, <1>r, <3>1, ClaimDropped DEF Numbers
  <2> QED
    BY <1>1, <1>o, <1>q, <2>1
<1>2. ASSUME NEW s \in Slots, Elsewhere(s) \/ Fail(s) PROVE RefundInv'
  BY <1>1, <1>2, <1>f DEF Elsewhere, Fail, MoneyUnchanged, OneCalls, CancelSteps
<1>3. ASSUME NEW s \in Slots, CheckoutPurchase(s) PROVE RefundInv'
  <2> DEFINE new == [ status |-> "PENDING", customer |-> Customer(s), method |-> task[s].method,
                      payment |-> IF task[s].method = "WALLET" THEN "PAID" ELSE "PENDING",
                      total |-> task[s].total, refunds |-> 0 ]
  <2>1. task'[s].pc \notin CancelSteps \cup { "paid" } /\ OneCalls(s)
    <3>1. ASSUME NEW t, NEW o, t = [ IdleTask EXCEPT !.pc = "pay", !.order = o ] PROVE t.pc = "pay"
      BY <3>1 DEF IdleTask
    <3>2. Finish(s) \/ \E o \in Orders : task' = [ task EXCEPT ![s] = [ IdleTask EXCEPT !.pc = "pay", !.order = o ] ]
      BY <1>3 DEF CheckoutPurchase
    <3>3. CASE Finish(s)
      BY <1>f, <3>3 DEF CancelSteps
    <3>4. ASSUME NEW t, t.pc = "pay", task' = [ task EXCEPT ![s] = t ]
          PROVE  task'[s].pc = "pay" /\ OneCalls(s)
      BY <1>0, <3>4 DEF OneCalls
    <3> QED
      BY <3>1, <3>2, <3>3, <3>4 DEF CancelSteps
  <2>c. UNCHANGED charges
    BY <1>3 DEF CheckoutPurchase
  <2>2. CASE UNCHANGED order
    BY <1>1, <2>1, <2>2, <2>c
  <2>3. ASSUME NEW o \in Orders, order[o].status = "none", order' = [ order EXCEPT ![o] = new ]
        PROVE  RefundInv'
    <3>1. order'[o] = new /\ \A p \in Orders : p # o => order'[p] = order[p]
      BY <1>0, <2>3
    <3>2. ASSUME NEW p \in Orders, p # o PROVE Budget(p)'
      <4>1. s \notin Claims(p)' /\ order'[p] = order[p]
        BY <2>1, <3>1, <3>2 DEF Claims, GivesBack, At, CancelSteps
      <4> QED
        BY <1>n, <1>r, <2>1, <2>c, <4>1, ClaimDropped DEF Numbers
    <3>3. Budget(o)'
      <4>1. /\ order'[o].refunds = 0
            /\ order'[o].payment = "PAID" => order'[o].method = "WALLET"
            /\ order[o].method # "WALLET"
        BY <1>r, <2>3, <3>1
      <4>2. s \notin Claims(o)'
        BY <2>1 DEF Claims, GivesBack, At, CancelSteps
      <4>3. ToRefund(o)' => order'[o].method = "WALLET"
        BY <4>1 DEF ToRefund
      <4>4. Budget(o) /\ Numbers(o) /\ order'[o].refunds = 0
        BY <1>n, <1>r, <3>1
      <4> HIDE DEF new
      <4> QED
        BY <2>1, <2>c, <4>1, <4>2, <4>3, <4>4, ClaimsChange DEF Budget, Taken, Numbers
    <3> QED
      BY <1>o, <1>q, <2>1, <3>2, <3>3
  <2> QED
    BY <1>3, <2>2, <2>3 DEF CheckoutPurchase, IsNext
<1>4. ASSUME NEW s \in Slots, ProviderAnswers(s) PROVE RefundInv'
  <2>o. PICK o \in Orders : o = task[s].order
    BY <1>0
  <2>1. UNCHANGED order /\ task[s].pc = "pay"
    BY <1>4 DEF ProviderAnswers, At
  <2>2. /\ \A p \in Orders : charges'[p] \in Nat /\ charges'[p] >= charges[p]
        /\ \A p \in Orders : p # o => charges'[p] = charges[p]
    BY <1>0, <1>4, <2>o DEF ProviderAnswers
  <2>3. \/ task'[s].pc = "idle" /\ OneCalls(s)
        \/ /\ task'[s].pc = "paid" /\ task'[s].order = o /\ OneCalls(s)
           /\ charges'[o] = charges[o] + 1
    BY <1>0, <1>4, <1>f, <1>g, <2>o DEF ProviderAnswers
  <2>4. ASSUME NEW p \in Orders PROVE Budget(p)'
    <3>1. s \notin Claims(p) /\ ~ GivesBack(s) /\ ~ GivesBack(s)'
      BY <2>1, <2>3 DEF Claims, GivesBack, At
    <3>2. CASE s \notin Claims(p)'
      BY <1>n, <1>r, <2>1, <2>2, <2>3, <3>2, ClaimDropped DEF Numbers
    <3>3. CASE s \in Claims(p)'
      <4>1. p = o /\ charges'[o] = charges[o] + 1
        BY <2>3, <3>3 DEF Claims, GivesBack, At
      <4> QED
        BY <1>n, <1>r, <2>1, <2>3, <3>1, <3>3, <4>1, ChargeClaimed
    <3> QED
      BY <3>2, <3>3
  <2> QED
    BY <1>o, <1>q, <2>3, <2>4 DEF CancelSteps
<1>5. ASSUME NEW s \in Slots, PaymentWrite(s) PROVE RefundInv'
  <2>o. PICK o \in Orders : o = task[s].order
    BY <1>0
  <2>1. /\ s \in Claims(o) /\ task'[s].pc = "idle" /\ OneCalls(s) /\ UNCHANGED charges
        /\ \A p : s \notin Claims(p)'
    BY <1>5, <1>f, <2>o DEF PaymentWrite, Claims, GivesBack, At
  <2>2. ASSUME NEW p \in Orders PROVE Budget(p)'
    <3>1. /\ order'[p].refunds = order[p].refunds /\ order'[p].method = order[p].method
          /\ s \in Claims(p) \/ order'[p].payment = order[p].payment
      BY <1>5, <1>u, <2>o, <2>1
    <3> QED
      BY <1>n, <1>r, <2>1, <3>1, ClaimDropped DEF Numbers
  <2> QED
    BY <1>o, <1>q, <2>1, <2>2 DEF CancelSteps
<1>6. ASSUME NEW s \in Slots, NEW o \in Orders, CancelRead(s, o) PROVE RefundInv'
  <2>1. ASSUME NEW t, t = [ IdleTask EXCEPT !.pc = "cancel", !.order = o, !.payment = order[o].payment ]
        PROVE  t.pc = "cancel" /\ t.order = o /\ t.payment = order[o].payment
    BY <2>1 DEF IdleTask
  <2>2. /\ task'[s].pc = "cancel" /\ task'[s].order = o /\ task'[s].payment = order[o].payment
        /\ OneCalls(s) /\ UNCHANGED << order, charges >> /\ task[s].pc = "idle"
        /\ order[o].customer = Customer(s) /\ order[o].status # "none"
    BY <1>0, <1>6, <2>1 DEF CancelRead, Begin, MoneyUnchanged, OneCalls, At, cancellable
  <2>3. CancelsOwn(s)'
    BY <2>2 DEF CancelsOwn
  <2>4. ASSUME NEW p \in Orders PROVE Budget(p)'
    <3>1. s \notin Claims(p)
      BY <2>2 DEF Claims, GivesBack, At
    <3>2. CASE s \notin Claims(p)'
      BY <1>n, <1>r, <2>2, <3>2, ClaimDropped DEF Numbers
    <3>3. CASE s \in Claims(p)'
      <4>1. p = o /\ GivesBack(s)' /\ order[o].payment = "PAID"
        BY <2>2, <3>3 DEF Claims, GivesBack, At
      \* Another call that gives it back would be one of the same customer.
      <4>2. ASSUME NEW t \in Slots, task[t].order = o, GivesBack(t) PROVE FALSE
        <5>1. task[t].pc \in CancelSteps
          BY <4>2 DEF GivesBack, At, CancelSteps
        <5>2. Customer(t) = Customer(s)
          BY <1>r, <2>2, <4>2, <5>1 DEF CancelsOwn
        <5> QED
          BY <2>2, <5>1, <5>2 DEF OneCallAtATime, CancelSteps
      <4>3. ToRefund(o)
        BY <4>1, <4>2 DEF ToRefund
      <4> QED
        BY <1>n, <1>r, <2>2, <3>1, <3>3, <4>1, <4>3, PaymentClaimed
    <3> QED
      BY <3>2, <3>3
  <2> QED
    BY <1>q, <2>2, <2>3, <2>4
<1>7. ASSUME NEW s \in Slots, CancelWrite(s) \/ CancelRefund(s) \/ CancelRefunded(s) PROVE RefundInv'
  <2>o. PICK o \in Orders : o = task[s].order
    BY <1>0
  <2>1. /\ \A p \in Orders : p # o => order'[p] = order[p]
        /\ order'[o].method = order[o].method /\ order'[o].refunds = order[o].refunds
        /\ CancelRefunded(s) => order'[o].payment = "REFUNDED"
        /\ ~ CancelRefunded(s) => order'[o].payment = order[o].payment
        /\ UNCHANGED charges
    <3>1. CASE CancelWrite(s)
      BY <1>u, <2>o, <3>1 DEF CancelWrite, CancelRefunded, At
    <3>2. CASE CancelRefund(s)
      BY <3>2 DEF CancelRefund, CancelRefunded, At
    <3>3. CASE CancelRefunded(s)
      BY <1>u, <2>o, <3>3
    <3> QED
      BY <1>7, <3>1, <3>2, <3>3
  <2>2. \/ Finish(s) /\ task[s].payment # "PAID" /\ CancelWrite(s)
        \/ Goto(s, "refund") /\ GivesBack(s) /\ CancelWrite(s)
        \/ Goto(s, "refunded") /\ GivesBack(s) /\ CancelRefund(s)
        \/ Goto(s, "entry") /\ GivesBack(s) /\ CancelRefunded(s)
    BY <1>7 DEF CancelWrite, CancelRefund, CancelRefunded, GivesBack, At
  <2>3. OneCalls(s) /\ (task'[s].pc = "idle" \/ (task[s].pc \in CancelSteps /\ task'[s].order = o))
    BY <1>7, <1>f, <1>g, <2>o, <2>2 DEF CancelWrite, CancelRefund, CancelRefunded, At, CancelSteps
  <2>4. ASSUME NEW p \in Orders, p # o PROVE Budget(p)'
    <3>1. s \notin Claims(p)'
      BY <2>3, <2>4 DEF Claims, GivesBack, At
    <3> QED
      BY <1>n, <1>r, <2>1, <2>3, <2>4, <3>1, ClaimDropped DEF Numbers
  <2>5. CASE Finish(s)
    <3>1. s \notin Claims(o)' /\ ~ CancelRefunded(s)
      BY <1>7, <1>f, <2>2, <2>5, <1>g DEF Claims, GivesBack, At, CancelWrite, CancelRefunded
    <3>2. Budget(o)'
      BY <1>n, <1>r, <2>1, <2>3, <3>1, ClaimDropped DEF Numbers
    <3> QED
      BY <1>o, <1>q, <2>3, <2>4, <2>o, <3>2 DEF CancelSteps
  <2>6. CASE ~ Finish(s)
    <3>1. s \in Claims(o)
      BY <2>2, <2>6, <2>o DEF Claims
    <3>2. /\ s \in Claims(o)'
          /\ ~ CancelRefunded(s) => GivesBack(s) /\ GivesBack(s)'
      BY <1>g, <2>2, <2>6, <2>o DEF Claims, GivesBack, At, CancelWrite, CancelRefund, CancelRefunded
    <3>3. Budget(o)'
      BY <1>n, <1>r, <2>1, <2>3, <3>1, <3>2, ClaimKept
    <3> QED
      BY <1>o, <1>q, <2>3, <2>4, <2>o, <3>3 DEF CancelSteps
  <2> QED
    BY <2>5, <2>6
<1>8. ASSUME NEW s \in Slots, CancelEntry(s) PROVE RefundInv'
  <2>o. PICK o \in Orders : o = task[s].order
    BY <1>0
  <2>1. /\ s \in Claims(o) /\ ~ GivesBack(s) /\ ~ GivesBack(s)' /\ task'[s].pc = "idle" /\ OneCalls(s)
        /\ \A p : s \notin Claims(p)'
    BY <1>8, <1>f, <2>o DEF CancelEntry, Claims, GivesBack, At
  <2>2. ASSUME NEW p \in Orders PROVE Budget(p)'
    <3>1. CASE p = o
      BY <1>8, <1>n, <1>r, <1>u, <2>o, <2>1, <3>1, ClaimEntered
    <3>2. CASE p # o
      <4>1. order'[p] = order[p] /\ UNCHANGED charges
        BY <1>8, <1>u, <2>o, <3>2
      <4> QED
        BY <1>n, <1>r, <2>1, <4>1, ClaimDropped DEF Numbers
    <3> QED
      BY <3>1, <3>2
  <2> QED
    BY <1>o, <1>q, <2>1, <2>2 DEF CancelSteps
\* Whatever status is written, payments and refunds stay.
<1>9. ASSUME NEW o \in Orders, NEW target \in Targets, UpdateStatusWrite(o, target) PROVE RefundInv'
  <2>1. UNCHANGED << task, charges >>
    BY <1>9 DEF UpdateStatusWrite
  <2>2. ASSUME NEW p \in Orders
        PROVE  order'[p].payment = order[p].payment /\ order'[p].refunds = order[p].refunds
               /\ order'[p].method = order[p].method
    <3>1. OrderRecord(order[o]) /\ order = [ q \in Orders |-> order[q] ]
      BY <1>0
    <3> QED
      BY <1>9, <3>1 DEF UpdateStatusWrite, OrderRecord
  <2>3. \A p \in Orders : Budget(p)'
    <3>1. \A p : Claims(p)' = Claims(p)
      BY <2>1 DEF Claims, GivesBack, At
    <3>2. \A p \in Orders : ToRefund(p)' = ToRefund(p)
      BY <2>1, <2>2 DEF ToRefund, GivesBack, At
    <3> QED
      BY <1>r, <2>1, <2>2, <3>1, <3>2 DEF Budget, Taken
  <2>4. \A s \in Slots : CancelsOwn(s)'
    BY <1>0, <1>r, <2>1, OrderStays DEF CancelsOwn
  <2> QED
    BY <1>m, <2>3, <2>4 DEF RefundInv
<1>10. ASSUME UNCHANGED << order, charges, task >> PROVE RefundInv'
  <2>1. \A o : Claims(o)' = Claims(o)
    BY <1>10 DEF Claims, GivesBack, At
  <2>2. \A o : Budget(o)' = Budget(o)
    BY <1>10, <2>1 DEF Budget, ToRefund, GivesBack, Taken, At
  <2> QED
    BY <1>10, <2>2 DEF RefundInv, CancelsOwn
<1> QED
  BY <1>2, <1>3, <1>4, <1>5, <1>6, <1>7, <1>8, <1>9, <1>10, StepCases

\* No payment comes back twice: whatever statuses are written over the order's, before or after
\* a cancellation, and wherever a cancellation stops, the refunds in the ledger are no more than
\* what the wallet and the provider paid.
THEOREM RefundsArePaid ==
  ASSUME OneCallAtATime PROVE Spec => []RefundedAsPaid
<1>1. Init => RefundInv
  <2> SUFFICES ASSUME Init PROVE RefundInv
    OBVIOUS
  <2>1. \A s \in Slots : task[s].pc = "idle"
    BY DEF Init, IdleTask
  <2>2. \A o \in Orders : /\ order[o].payment = "PENDING" /\ order[o].refunds = 0
                          /\ order[o].method = "CASH" /\ charges[o] = 0
    BY DEF Init, NoOrder
  <2>3. ASSUME NEW o \in Orders PROVE Budget(o)
    <3>1. Claims(o) = {}
      BY <2>1 DEF Claims, GivesBack, At
    <3>2. Cardinality(Claims(o)) = 0
      BY <3>1, FS_EmptySet
    <3> QED
      BY <2>2, <3>2 DEF Budget, ToRefund, Taken
  <2> QED
    BY <2>1, <2>2, <2>3 DEF RefundInv, CancelsOwn, CancelSteps
<1>2. Shape /\ RefundInv => RefundedAsPaid
  <2> SUFFICES ASSUME Shape, RefundInv, NEW o \in Orders
               PROVE  order[o].refunds <= Taken(o)
    BY DEF RefundedAsPaid, Taken
  <2>1. order[o].refunds \in Nat /\ charges[o] \in Int /\ Cardinality(Claims(o)) \in Nat
    BY SlotsFinite, FS_Subset, FS_CardinalityType DEF Shape, OrderShape, IsOrder, OrderFits, Counters, Claims
  <2> QED
    BY <2>1 DEF RefundInv, Budget, Taken
<1> QED
  BY <1>1, <1>2, ShapeInit, ShapeInductive, RefundInductive, PTL DEF Spec

(***************************************************************************)
(* Promotions                                                              *)
(***************************************************************************)

\* What a checkout has read of the promotion: if it is still the one that is there, the
\* customer has a usage left.
UsageOfCall(s) ==
  /\ task[s].promo \in Nat /\ task[s].promo <= promo.id
  /\ /\ task[s].pc \in { "wallet", "purchase" }
     /\ task[s].promo # 0 /\ promo.exists /\ task[s].promo = promo.id
     => Cardinality(UsagesOf(Customer(s))) < userUsageLimit

UsageInv ==
  /\ promo \in [ id : Nat, exists : BOOLEAN, active : BOOLEAN, count : Nat ]
  /\ counting \in Nat
  /\ used \subseteq Orders /\ IsFiniteSet(used)
  /\ \A o \in used : order[o].status # "none"
  /\ promo.exists => promo.id # 0
  /\ ~promo.exists => used = {}
  /\ promo.id = 0 => counting = 0
  /\ PromotionInv
  /\ \A s \in Slots : UsageOfCall(s)

\* A step that leaves promotion and usages alone, and the owners of orders.
LEMMA UsageQuiet ==
  ASSUME UsageInv, NEW s \in Slots, UNCHANGED << promo, used, counting >>,
         \A o \in Orders : /\ order'[o].customer = order[o].customer
                           /\ order[o].status # "none" => order'[o].status # "none",
         \A t \in Slots : t # s => task'[t] = task[t],
         UsageOfCall(s)'
  PROVE  UsageInv'
<1>1. \A c : UsagesOf(c)' = UsagesOf(c)
  BY DEF UsageInv, UsagesOf
<1>2. PromotionInv'
  BY <1>1 DEF UsageInv, PromotionInv, OncePerUser, CountNeverAhead
<1>3. \A t \in Slots : UsageOfCall(t)'
  BY <1>1 DEF UsageInv, UsageOfCall
<1> QED
  BY <1>2, <1>3 DEF UsageInv

\* A call that holds no reading of the promotion.
LEMMA UsageNone ==
  ASSUME UsageInv, NEW s \in Slots, UNCHANGED promo,
         task'[s].promo \in Nat, task'[s].promo <= promo.id,
         task'[s].promo = 0 \/ task'[s].pc \notin { "wallet", "purchase" }
  PROVE  UsageOfCall(s)'
BY DEF UsageOfCall

LEMMA UsageInductive ==
  ASSUME OneCallAtATime PROVE Shape /\ UsageInv /\ [Next]_vars => UsageInv'
<1> SUFFICES ASSUME Shape, UsageInv, [Next]_vars PROVE UsageInv'
  OBVIOUS
<1> USE SlotCustomer
<1>0. /\ \A s \in Slots : TaskRecord(task[s]) /\ task[s].order \in Orders
      /\ task = [ s \in Slots |-> task[s] ]
      /\ order = [ o \in Orders |-> order[o] ]
      /\ \A o \in Orders : OrderRecord(order[o])
  BY DEF Shape, TaskShape, OrderShape, IsTask, TaskFits, IsOrder
<1>u. /\ \A s \in Slots : UsageOfCall(s) /\ task[s].promo \in Nat /\ task[s].promo <= promo.id
      /\ promo \in [ id : Nat, exists : BOOLEAN, active : BOOLEAN, count : Nat ] /\ counting \in Nat
      /\ used \subseteq Orders /\ IsFiniteSet(used)
      /\ \A o \in used : order[o].status # "none"
      /\ \A c \in Customers : Cardinality(UsagesOf(c)) <= userUsageLimit
      /\ promo.exists /\ promo.id = 1 => promo.count + counting <= Cardinality(used)
      /\ promo.exists => promo.id # 0
      /\ ~promo.exists => used = {}
      /\ promo.id = 0 => counting = 0
      /\ Cardinality(used) \in Nat /\ promo.id >= 0
  BY FS_CardinalityType DEF UsageInv, UsageOfCall, PromotionInv, OncePerUser, CountNeverAhead
<1>t. IdleTask.pc = "idle" /\ IdleTask.promo = 0
  BY DEF IdleTask
<1>g. ASSUME NEW s \in Slots, NEW pc, Goto(s, pc)
      PROVE  /\ task'[s].pc = pc /\ task'[s].promo = task[s].promo
             /\ \A t \in Slots : t # s => task'[t] = task[t]
  <2>1. TaskRecord(task[s]) /\ task = [ t \in Slots |-> task[t] ]
    BY <1>0
  <2> QED
    BY <1>g, <2>1 DEF Goto, TaskRecord
<1>f. ASSUME NEW s \in Slots, Finish(s)
      PROVE  task'[s].promo = 0 /\ \A t \in Slots : t # s => task'[t] = task[t]
  BY <1>0, <1>f, <1>t DEF Finish
\* Calls that leave the promotion and the orders alone.
<1>q. ASSUME NEW s \in Slots, UNCHANGED << promo, used, counting >>,
             \A o \in Orders : /\ order'[o].customer = order[o].customer
                               /\ order[o].status # "none" => order'[o].status # "none",
             \/ Finish(s)
             \/ \E pc : pc \notin { "wallet", "purchase" } /\ Goto(s, pc)
             \/ \E t : t.promo = 0 /\ task' = [ task EXCEPT ![s] = t ]
      PROVE  UsageInv'
  <2>1. /\ \A t \in Slots : t # s => task'[t] = task[t]
        /\ task'[s].promo \in Nat /\ task'[s].promo <= promo.id
        /\ task'[s].promo = 0 \/ task'[s].pc \notin { "wallet", "purchase" }
    <3>1. CASE Finish(s)
      BY <1>f, <1>u, <3>1
    <3>2. ASSUME NEW pc, pc \notin { "wallet", "purchase" }, Goto(s, pc)
          PROVE  /\ \A t \in Slots : t # s => task'[t] = task[t]
                 /\ task'[s].promo \in Nat /\ task'[s].promo <= promo.id
                 /\ task'[s].pc \notin { "wallet", "purchase" }
      BY <1>g, <1>u, <3>2
    <3>3. ASSUME NEW t, t.promo = 0, task' = [ task EXCEPT ![s] = t ]
          PROVE  task'[s].promo = 0 /\ \A u \in Slots : u # s => task'[u] = task[u]
      BY <1>0, <3>3
    <3> QED
      BY <1>q, <1>u, <3>1, <3>2, <3>3
  <2> QED
    BY <1>q, <2>1, UsageNone, UsageQuiet
<1>1. ASSUME NEW s \in Slots, NEW d \in scenario.dishes, AddItem(s, d, 1) PROVE UsageInv'
  <2>1. ASSUME NEW t, t = [ IdleTask EXCEPT !.pc = "cart", !.dish = d, !.quantity = 1 ] PROVE t.promo = 0
    BY <2>1 DEF IdleTask
  <2> QED
    BY <1>1, <1>q, <2>1 DEF AddItem, Begin, MoneyUnchanged
<1>2. ASSUME NEW s \in Slots, AddReadCart(s) PROVE UsageInv'
  <2>1. TaskRecord(task[s]) /\ task = [ t \in Slots |-> task[t] ]
    BY <1>0
  <2>2. ASSUME NEW pc \in { "adopt", "put" },
               task' = [ task EXCEPT ![s].pc = pc, ![s].items = cart[Customer(s)].items ]
        PROVE  /\ task'[s].pc = pc /\ task'[s].promo = task[s].promo
               /\ \A t \in Slots : t # s => task'[t] = task[t]
    BY <2>1, <2>2 DEF TaskRecord
  <2>3. /\ task'[s].promo \in Nat /\ task'[s].promo <= promo.id
        /\ task'[s].promo = 0 \/ task'[s].pc \notin { "wallet", "purchase" }
        /\ \A t \in Slots : t # s => task'[t] = task[t]
    BY <1>2, <1>f, <1>u, <2>2 DEF AddReadCart
  <2> QED
    BY <1>2, <2>3, UsageNone, UsageQuiet DEF AddReadCart, MoneyUnchanged
\* The other statements about a cart, and failures.
<1>3. ASSUME NEW s \in Slots,
             \/ AddAdopt(s) \/ AddPut(s) \/ ReadRowAgain(s) \/ WriteRow(s) \/ DeleteRow(s)
             \/ CountRows(s) \/ UnsetRestaurant(s) \/ Fail(s)
      PROVE  UsageInv'
  <2>1. UNCHANGED << order, promo, used, counting >>
    BY <1>3 DEF AddAdopt, AddPut, ReadRowAgain, WriteRow, DeleteRow, CountRows, UnsetRestaurant, Fail,
                MoneyUnchanged
  <2>2. Finish(s) \/ \E pc \in Steps \ { "wallet", "purchase" } : Goto(s, pc)
    BY <1>3 DEF AddAdopt, AddPut, ReadRowAgain, WriteRow, DeleteRow, CountRows, UnsetRestaurant, Fail,
                Steps, CartSteps
  <2> QED
    BY <1>q, <2>1, <2>2
<1>4. ASSUME NEW s \in Slots, NEW r \in Rows,
             NEW operation \in RowOperations, ReadRow(s, r, operation)
      PROVE  UsageInv'
  <2>1. PICK pc : pc = IF operation = "remove" THEN "delete"
                       ELSE IF operation = "decrement" /\ cart[Customer(s)].items[r].quantity <= 1
                       THEN "row" ELSE "write"
    OBVIOUS
  <2> DEFINE t == [ IdleTask EXCEPT !.row = r, !.pc = pc, !.operation = operation ]
  <2>2. t.promo = 0
    BY DEF IdleTask
  <2>3. task' = [ task EXCEPT ![s] = t ]
    BY <1>4, <2>1 DEF ReadRow, Begin
  <2>4. UNCHANGED << order, promo, used, counting >>
    BY <1>4 DEF ReadRow, MoneyUnchanged
  <2> HIDE DEF t
  <2> QED
    BY <1>q, <2>2, <2>3, <2>4
<1>5. ASSUME NEW s \in Slots, ClearCart(s) PROVE UsageInv'
  <2>1. ASSUME NEW t, t = [ IdleTask EXCEPT !.pc = "unset" ] PROVE t.promo = 0
    BY <2>1 DEF IdleTask
  <2> QED
    BY <1>5, <1>q, <2>1 DEF ClearCart, Begin, MoneyUnchanged
<1>6. ASSUME NEW s \in Slots, NEW method \in Methods, NEW withPromo \in BOOLEAN,
             CheckoutReadCart(s, method, withPromo)
      PROVE  UsageInv'
  <2>1. PICK pc : pc = IF withPromo THEN "promotion"
                       ELSE IF method = "WALLET" THEN "wallet" ELSE "purchase"
    OBVIOUS
  <2> DEFINE t == [ IdleTask EXCEPT !.pc = pc, !.items = cart[Customer(s)].items, !.method = method,
                                    !.total = Subtotal(cart[Customer(s)].items) + Fees ]
  <2>2. t.promo = 0
    BY DEF IdleTask
  <2>3. task' = [ task EXCEPT ![s] = t ]
    BY <1>6, <2>1 DEF CheckoutReadCart, Begin
  <2>4. UNCHANGED << order, promo, used, counting >>
    BY <1>6 DEF CheckoutReadCart, MoneyUnchanged
  <2> HIDE DEF t
  <2> QED
    BY <1>q, <2>2, <2>3, <2>4
<1>7. ASSUME NEW s \in Slots, CheckoutReadPromotion(s) PROVE UsageInv'
  <2>1. TaskRecord(task[s]) /\ task = [ t \in Slots |-> task[t] ]
    BY <1>0
  <2>2. ASSUME task' = [ task EXCEPT ![s].pc = "usages", ![s].promo = promo.id ]
        PROVE  /\ task'[s].pc = "usages" /\ task'[s].promo = promo.id
               /\ \A t \in Slots : t # s => task'[t] = task[t]
    BY <2>1, <2>2 DEF TaskRecord
  <2>3. CASE Finish(s)
    BY <1>7, <1>q, <2>3 DEF CheckoutReadPromotion, MoneyUnchanged
  <2>4. CASE task' = [ task EXCEPT ![s].pc = "usages", ![s].promo = promo.id ]
    <3>1. task'[s].promo \in Nat /\ task'[s].promo <= promo.id
      BY <1>u, <2>2, <2>4
    <3> QED
      BY <1>7, <2>2, <2>4, <3>1, UsageNone, UsageQuiet DEF CheckoutReadPromotion, MoneyUnchanged
  <2> QED
    BY <1>7, <2>3, <2>4 DEF CheckoutReadPromotion
<1>8. ASSUME NEW s \in Slots, CheckoutReadUsages(s) PROVE UsageInv'
  <2>1. TaskRecord(task[s]) /\ task = [ t \in Slots |-> task[t] ]
    BY <1>0
  <2>2. CASE Finish(s)
    BY <1>8, <1>q, <2>2 DEF CheckoutReadUsages, MoneyUnchanged
  <2>3. ASSUME NEW pc \in { "wallet", "purchase" },
               task' = [ task EXCEPT ![s].total = @ - Discount, ![s].pc = pc ],
               ~(promo.exists /\ task[s].promo = promo.id
                 /\ Cardinality(UsagesOf(Customer(s))) >= userUsageLimit)
        PROVE  UsageInv'
    <3>1. /\ task'[s].pc = pc /\ task'[s].promo = task[s].promo
          /\ \A t \in Slots : t # s => task'[t] = task[t]
      BY <2>1, <2>3 DEF TaskRecord
    <3>2. UNCHANGED << order, promo, used, counting >>
      BY <1>8 DEF CheckoutReadUsages, MoneyUnchanged
    <3>3. UsagesOf(Customer(s)) \subseteq used /\ Cardinality(UsagesOf(Customer(s))) \in Nat
      BY <1>u, FS_Subset, FS_CardinalityType DEF UsagesOf
    <3>4. UsagesOf(Customer(s))' = UsagesOf(Customer(s))
      BY <3>2 DEF UsagesOf
    <3>5. userUsageLimit \in Nat
      BY CheckoutAssumption
    <3>6. UsageOfCall(s)'
      BY <1>u, <2>3, <3>1, <3>2, <3>3, <3>4, <3>5 DEF UsageOfCall
    <3> QED
      BY <3>1, <3>2, <3>6, UsageQuiet
  <2> QED
    BY <1>8, <2>2, <2>3 DEF CheckoutReadUsages
<1>9. ASSUME NEW s \in Slots, CheckoutReadWallet(s) PROVE UsageInv'
  <2>1. CASE Finish(s)
    BY <1>9, <1>q, <2>1 DEF CheckoutReadWallet, MoneyUnchanged
  <2>2. CASE Goto(s, "purchase")
    <3>1. UNCHANGED << order, promo, used, counting >> /\ task[s].pc = "wallet"
      BY <1>9 DEF CheckoutReadWallet, MoneyUnchanged, At
    <3>2. UsagesOf(Customer(s))' = UsagesOf(Customer(s))
      BY <3>1 DEF UsagesOf
    <3>3. UsageOfCall(s)'
      BY <1>g, <1>u, <2>2, <3>1, <3>2 DEF UsageOfCall
    <3> QED
      BY <1>g, <2>2, <3>1, <3>3, UsageQuiet
  <2> QED
    BY <1>9, <2>1, <2>2 DEF CheckoutReadWallet
<1>10. ASSUME NEW s \in Slots, CheckoutPurchase(s) PROVE UsageInv'
  <2> DEFINE new == [ status |-> "PENDING", customer |-> Customer(s), method |-> task[s].method,
                      payment |-> IF task[s].method = "WALLET" THEN "PAID" ELSE "PENDING",
                      total |-> task[s].total, refunds |-> 0 ]
  <2>1. task'[s].promo = 0 /\ \A t \in Slots : t # s => task'[t] = task[t]
    <3>1. ASSUME NEW t, NEW o, t = [ IdleTask EXCEPT !.pc = "pay", !.order = o ] PROVE t.promo = 0
      BY <3>1 DEF IdleTask
    <3>2. Finish(s) \/ \E o \in Orders : task' = [ task EXCEPT ![s] = [ IdleTask EXCEPT !.pc = "pay", !.order = o ] ]
      BY <1>10 DEF CheckoutPurchase
    <3> QED
      BY <1>0, <1>f, <3>1, <3>2
  <2>2. UsageOfCall(s)' /\ task[s].pc = "purchase" /\ UNCHANGED promo
    <3>1. task[s].pc = "purchase" /\ UNCHANGED promo
      BY <1>10 DEF CheckoutPurchase, At
    <3>2. task'[s].promo \in Nat /\ task'[s].promo <= promo.id
      BY <1>u, <2>1
    <3> QED
      BY <2>1, <3>1, <3>2, UsageNone
  <2>3. CASE UNCHANGED << order, used, counting >>
    BY <2>1, <2>2, <2>3, UsageQuiet
  <2>4. ASSUME NEW o \in Orders, order[o].status = "none", order' = [ order EXCEPT ![o] = new ],
               \/ UNCHANGED << used, counting >>
               \/ /\ task[s].promo # 0 /\ promo.exists /\ task[s].promo = promo.id
                  /\ used' = used \cup { o } /\ counting' = counting + 1
        PROVE  UsageInv'
    <3>1. /\ order'[o].customer = Customer(s) /\ order'[o].status = "PENDING"
          /\ \A p \in Orders : p # o => order'[p] = order[p]
          /\ o \notin used
      BY <1>0, <1>u, <2>4
    <3>2. \A c \in Customers : c # Customer(s) => UsagesOf(c)' = UsagesOf(c)
      BY <1>u, <2>4, <3>1 DEF UsagesOf
    <3>3. \A t \in Slots : UsageOfCall(t)'
      <4>1. ASSUME NEW t \in Slots, t # s PROVE UsageOfCall(t)'
        <5>1. Customer(t) # Customer(s) /\ Customer(t) \in Customers
          BY <4>1 DEF OneCallAtATime
        <5> QED
          BY <1>u, <2>1, <2>2, <3>2, <4>1, <5>1 DEF UsageOfCall
      <4> QED
        BY <2>2, <4>1
    <3>4. CASE UNCHANGED << used, counting >>
      <4>1. UsagesOf(Customer(s))' = UsagesOf(Customer(s))
        BY <1>u, <3>1, <3>4 DEF UsagesOf
      <4>2. PromotionInv'
        BY <1>u, <2>2, <3>2, <3>4, <4>1 DEF PromotionInv, OncePerUser, CountNeverAhead
      <4> QED
        BY <1>u, <2>2, <3>1, <3>3, <3>4, <4>2 DEF UsageInv
    <3>5. CASE /\ task[s].promo # 0 /\ promo.exists /\ task[s].promo = promo.id
               /\ used' = used \cup { o } /\ counting' = counting + 1
      <4>1. UsagesOf(Customer(s))' = UsagesOf(Customer(s)) \cup { o }
        BY <1>u, <3>1, <3>5 DEF UsagesOf
      <4>2. /\ Cardinality(UsagesOf(Customer(s))) < userUsageLimit
            /\ IsFiniteSet(UsagesOf(Customer(s)))
            /\ Cardinality(UsagesOf(Customer(s))) \in Nat
        <5>1. UsagesOf(Customer(s)) \in SUBSET used
          BY DEF UsagesOf
        <5>2. IsFiniteSet(UsagesOf(Customer(s)))
          BY <1>u, <5>1, FS_Subset
        <5> QED
          BY <1>u, <2>2, <3>5, <5>2, FS_CardinalityType DEF UsageOfCall
      <4>3. Cardinality(UsagesOf(Customer(s))') <= userUsageLimit
        <5>1. Cardinality(UsagesOf(Customer(s)) \cup { o }) <= Cardinality(UsagesOf(Customer(s))) + 1
          BY <4>2, FS_AddElement
        <5>2. userUsageLimit \in Nat /\ Cardinality(UsagesOf(Customer(s)) \cup { o }) \in Nat
          BY <4>2, FS_AddElement, FS_CardinalityType, CheckoutAssumption
        <5> QED
          BY <4>1, <4>2, <5>1, <5>2
      <4>4. IsFiniteSet(used') /\ Cardinality(used') = Cardinality(used) + 1
        BY <1>u, <3>1, <3>5, FS_AddElement
      <4>5. PromotionInv'
        BY <1>u, <2>2, <3>2, <3>5, <4>3, <4>4 DEF PromotionInv, OncePerUser, CountNeverAhead
      <4> QED
        BY <1>u, <2>2, <3>1, <3>3, <3>5, <4>4, <4>5 DEF UsageInv
    <3> QED
      BY <2>4, <3>4, <3>5
  <2> QED
    BY <1>10, <2>3, <2>4 DEF CheckoutPurchase, IsNext
\* Payments and cancellations change an order in its place.
<1>11. ASSUME NEW s \in Slots,
              \/ ProviderAnswers(s) \/ PaymentWrite(s)
              \/ CancelWrite(s) \/ CancelRefund(s) \/ CancelRefunded(s) \/ CancelEntry(s)
       PROVE  UsageInv'
  <2>o. PICK o \in Orders : o = task[s].order
    BY <1>0
  <2>1. OrderRecord(order[o]) /\ order = [ p \in Orders |-> order[p] ]
    BY <1>0
  <2>2. /\ UNCHANGED << promo, used, counting >>
        /\ Finish(s) \/ \E pc \in Steps \ { "wallet", "purchase" } : Goto(s, pc)
    BY <1>11 DEF ProviderAnswers, PaymentWrite, CancelWrite, CancelRefund, CancelRefunded, CancelEntry,
                 Steps, CheckoutSteps, CancelSteps
  <2>3. /\ order'[o].customer = order[o].customer
        /\ order'[o].status = order[o].status \/ order'[o].status = "CANCELLED"
        /\ \A p \in Orders : p # o => order'[p] = order[p]
    BY <1>11, <2>o, <2>1 DEF ProviderAnswers, PaymentWrite, CancelWrite, CancelRefund, CancelRefunded,
                             CancelEntry, OrderRecord
  <2> QED
    BY <1>q, <2>2, <2>3
<1>12. ASSUME NEW s \in Slots, NEW o \in Orders, InitiatePayment(s, o) \/ CancelRead(s, o) PROVE UsageInv'
  <2>1. ASSUME NEW t, \/ t = [ IdleTask EXCEPT !.pc = "pay", !.order = o ]
                      \/ t = [ IdleTask EXCEPT !.pc = "cancel", !.order = o, !.payment = order[o].payment ]
        PROVE  t.promo = 0
    BY <2>1 DEF IdleTask
  <2> QED
    BY <1>12, <1>q, <2>1 DEF InitiatePayment, CancelRead, Begin, MoneyUnchanged
<1>13. ASSUME NEW o \in Orders, NEW target \in Targets,
              UpdateStatusRead(o, target) \/ UpdateStatusWrite(o, target)
       PROVE  UsageInv'
  <2>1. OrderRecord(order[o]) /\ order = [ p \in Orders |-> order[p] ]
    BY <1>0
  <2>2. /\ UNCHANGED << promo, used, counting, task >>
        /\ order'[o].customer = order[o].customer
        /\ \A p \in Orders : p # o => order'[p] = order[p]
    BY <1>13, <2>1 DEF UpdateStatusRead, UpdateStatusWrite, OrderRecord
  <2>3. \A c : UsagesOf(c)' = UsagesOf(c)
    BY <1>u, <2>2 DEF UsagesOf
  <2>4. PromotionInv'
    BY <1>u, <2>2, <2>3 DEF PromotionInv, OncePerUser, CountNeverAhead
  <2>5. \A s \in Slots : UsageOfCall(s)'
    BY <1>u, <2>2, <2>3 DEF UsageOfCall
  <2>6. \A p \in used : order'[p].status # "none"
    BY <1>u, OrderStays DEF UsageInv
  <2> QED
    BY <1>u, <2>2, <2>4, <2>5, <2>6 DEF UsageInv
\* What happens to the promotion while calls hold a reading of it.
<1>14. ASSUME IncrementUsage \/ LoseIncrement \/ UpdatePromotion PROVE UsageInv'
  <2>1. /\ UNCHANGED << order, used, task >>
        /\ promo' \in [ id : Nat, exists : BOOLEAN, active : BOOLEAN, count : Nat ] /\ counting' \in Nat
        /\ promo'.id = promo.id /\ promo'.exists = promo.exists
        /\ promo'.exists => promo'.count + counting' <= promo.count + counting
        /\ counting = 0 => counting' = 0
    <3>1. promo \in [ id : Nat, exists : BOOLEAN, active : BOOLEAN, count : Nat ] /\ counting \in Nat
      BY <1>u
    <3>2. CASE IncrementUsage
      BY <3>1, <3>2 DEF IncrementUsage
    <3>3. CASE LoseIncrement
      BY <3>1, <3>3 DEF LoseIncrement
    <3>4. CASE UpdatePromotion
      <4>1. PICK active \in BOOLEAN : active = ~promo.active
        BY <3>1, Zenon
      <4>2. promo' = [ promo EXCEPT !.active = active ] /\ UNCHANGED << order, used, counting, task >>
        BY <3>4, <4>1 DEF UpdatePromotion
      <4> QED
        BY <3>1, <4>2
    <3> QED
      BY <1>14, <3>2, <3>3, <3>4
  <2>2. \A c : UsagesOf(c)' = UsagesOf(c)
    BY <2>1 DEF UsagesOf
  <2>3. PromotionInv'
    BY <1>u, <2>1, <2>2 DEF PromotionInv, OncePerUser, CountNeverAhead
  <2>4. \A s \in Slots : UsageOfCall(s)'
    BY <1>u, <2>1, <2>2 DEF UsageOfCall
  <2> QED
    BY <1>u, <2>1, <2>3, <2>4 DEF UsageInv
<1>15. ASSUME CreatePromotion \/ RemovePromotion PROVE UsageInv'
  <2>1. /\ UNCHANGED << order, counting, task >> /\ used' = {}
        /\ promo' \in [ id : Nat, exists : BOOLEAN, active : BOOLEAN, count : Nat ]
        /\ \/ promo'.exists /\ promo'.id = promo.id + 1 /\ promo'.count = 0
           \/ ~promo'.exists /\ promo'.id = promo.id /\ promo'.id # 0
    <3>1. promo \in [ id : Nat, exists : BOOLEAN, active : BOOLEAN, count : Nat ]
      BY <1>u
    <3>2. CASE CreatePromotion
      BY <1>u, <3>1, <3>2 DEF CreatePromotion
    <3>3. CASE RemovePromotion
      BY <1>u, <3>1, <3>3 DEF RemovePromotion
    <3> QED
      BY <1>15, <3>2, <3>3
  <2>2. IsFiniteSet({}) /\ Cardinality({}) = 0 /\ \A c : UsagesOf(c)' = {}
    BY <2>1, FS_EmptySet DEF UsagesOf
  <2>3. PromotionInv'
    <3>1. OncePerUser'
      <4>1. userUsageLimit \in Nat
        BY CheckoutAssumption
      <4> QED
        BY <2>2, <4>1 DEF OncePerUser
    <3>2. CountNeverAhead'
      BY <1>u, <2>1, <2>2 DEF CountNeverAhead
    <3> QED
      BY <3>1, <3>2 DEF PromotionInv
  <2>4. \A s \in Slots : UsageOfCall(s)'
    BY <1>u, <2>1 DEF UsageOfCall
  <2> QED
    BY <1>u, <2>1, <2>2, <2>3, <2>4 DEF UsageInv
<1>16. CASE UNCHANGED vars
  <2>1. \A c : UsagesOf(c)' = UsagesOf(c)
    BY <1>16 DEF UsagesOf, vars
  <2>2. PromotionInv'
    BY <1>u, <1>16, <2>1 DEF PromotionInv, OncePerUser, CountNeverAhead, vars
  <2>3. \A s \in Slots : UsageOfCall(s)'
    BY <1>u, <1>16, <2>1 DEF UsageOfCall, vars
  <2> QED
    BY <1>u, <1>16, <2>2, <2>3 DEF UsageInv, vars
<1> QED
  BY <1>1, <1>2, <1>3, <1>4, <1>5, <1>6, <1>7, <1>8, <1>9, <1>10, <1>11, <1>12, <1>13, <1>14,
     <1>15, <1>16
     DEF Next, CartNext, CheckoutNext, PromotionNext, PaymentNext, CancelNext, VendorNext

\* Nobody uses a promotion more often than userUsageLimit, and the count of the first
\* promotion of the code never runs ahead of its usages, whatever administrators do between
\* the statements of a checkout.
THEOREM PromotionLimits ==
  ASSUME OneCallAtATime PROVE Spec => []PromotionInv
<1>1. Init => UsageInv
  <2> SUFFICES ASSUME Init PROVE UsageInv
    OBVIOUS
  <2>1. \A s \in Slots : task[s].promo = 0
    BY DEF Init, IdleTask
  <2>2. IsFiniteSet({}) /\ Cardinality({}) = 0 /\ \A c : UsagesOf(c) = {}
    BY FS_EmptySet DEF Init, UsagesOf
  <2>3. promo = [ id |-> 0, exists |-> FALSE, active |-> FALSE, count |-> 0 ] /\ used = {} /\ counting = 0
    BY DEF Init
  <2>4. PromotionInv
    <3>1. userUsageLimit \in Nat
      BY CheckoutAssumption
    <3> QED
      BY <2>2, <2>3, <3>1 DEF PromotionInv, OncePerUser, CountNeverAhead
  <2>5. \A s \in Slots : UsageOfCall(s)
    BY <2>1, <2>3 DEF UsageOfCall
  <2> QED
    BY <2>2, <2>3, <2>4, <2>5 DEF UsageInv
<1>2. UsageInv => PromotionInv
  BY DEF UsageInv
<1> QED
  BY <1>1, <1>2, ShapeInit, ShapeInductive, UsageInductive, PTL DEF Spec

(***************************************************************************)
(* The wallets                                                             *)
(***************************************************************************)

\* A cancellation does not stop between the refund and its entry in the ledger: there it would
\* leave money in the wallet that nothing accounts for.
RefundsAreEntered == FailingSteps \cap { "refunded", "entry" } = {}

WalletsInv ==
  /\ wallet \in [ Customers -> Int ]
  /\ \A o \in Orders : order[o].status = "none" => order[o].refunds = 0
  /\ \A s \in Slots : CancelsOwn(s)
  /\ WalletIsAccounted

\* What one order and one call add to the sums of a customer.
Paid(c, o) ==
  IF order[o].customer = c /\ order[o].status # "none" /\ order[o].method = "WALLET"
  THEN order[o].total ELSE 0

Refunded(c, o) == IF order[o].customer = c THEN order[o].refunds * order[o].total ELSE 0

RefundEntering(c, s) == IF s \in Entering(c) THEN order[task[s].order].total ELSE 0

LEMMA Totals ==
  Shape => /\ \A o \in Orders : order[o].total \in Int /\ order[o].refunds \in Nat
           /\ \A o \in Orders : order[o].refunds * order[o].total \in Int
           /\ \A s \in Slots : task[s].order \in Orders /\ order[task[s].order].total \in Int
<1> SUFFICES ASSUME Shape PROVE Totals!2
  OBVIOUS
<1>1. \A o \in Orders : order[o].total \in Int /\ order[o].refunds \in Nat
  BY DEF Shape, OrderShape, IsOrder, OrderFits
<1>2. \A s \in Slots : task[s].order \in Orders
  BY DEF Shape, TaskShape, IsTask, TaskFits
<1> QED
  BY <1>1, <1>2

LEMMA SumsTyped ==
  Shape => \A c : /\ PaidFromWallet(c) \in Int /\ Refunds(c) \in Int /\ RefundsEntering(c) \in Int
                  /\ \A o \in Orders : Paid(c, o) \in Int /\ Refunded(c, o) \in Int
                  /\ \A s \in Slots : RefundEntering(c, s) \in Int
<1> SUFFICES ASSUME Shape, NEW c
             PROVE  /\ PaidFromWallet(c) \in Int /\ Refunds(c) \in Int /\ RefundsEntering(c) \in Int
                    /\ \A o \in Orders : Paid(c, o) \in Int /\ Refunded(c, o) \in Int
                    /\ \A s \in Slots : RefundEntering(c, s) \in Int
  OBVIOUS
<1>1. PaidFromWallet(c) \in Int
  <2> DEFINE paid == { o \in Placed(c) : order[o].status # "none" /\ order[o].method = "WALLET" }
             f == [ o \in Orders |-> order[o].total ]
  <2>1. IsFiniteSet(paid) /\ \A o \in paid : f[o] \in Int
    BY Totals, CheckoutAssumption, FS_Subset DEF Placed
  <2> HIDE DEF paid, f
  <2>2. SumFunctionOnSet(f, paid) \in Int
    BY <2>1, SumType
  <2> QED
    BY <2>2 DEF PaidFromWallet, paid, f
<1>2. Refunds(c) \in Int
  <2> DEFINE f == [ o \in Orders |-> order[o].refunds * order[o].total ]
  <2>1. IsFiniteSet(Placed(c)) /\ \A o \in Placed(c) : f[o] \in Int
    BY Totals, CheckoutAssumption, FS_Subset DEF Placed
  <2> HIDE DEF f
  <2>2. SumFunctionOnSet(f, Placed(c)) \in Int
    BY <2>1, SumType
  <2> QED
    BY <2>2 DEF Refunds, f
<1>3. RefundsEntering(c) \in Int
  <2> DEFINE f == [ s \in Slots |-> order[task[s].order].total ]
  <2>1. IsFiniteSet(Entering(c)) /\ \A s \in Entering(c) : f[s] \in Int
    BY Totals, SlotsFinite, FS_Subset DEF Entering
  <2> HIDE DEF f
  <2>2. SumFunctionOnSet(f, Entering(c)) \in Int
    BY <2>1, SumType
  <2> QED
    BY <2>2 DEF RefundsEntering, f
<1>4. /\ \A o \in Orders : Paid(c, o) \in Int /\ Refunded(c, o) \in Int
      /\ \A s \in Slots : RefundEntering(c, s) \in Int
  BY Totals DEF Paid, Refunded, RefundEntering
<1> QED
  BY <1>1, <1>2, <1>3, <1>4

\* The sums change by what they change at one order, or at one call.
LEMMA PaidChange ==
  ASSUME Shape, Shape', NEW c, NEW o \in Orders,
         \A p \in Orders : p # o => order'[p] = order[p]
  PROVE  PaidFromWallet(c)' - Paid(c, o)' = PaidFromWallet(c) - Paid(c, o)
<1> DEFINE T == { p \in Placed(c) : order[p].status # "none" /\ order[p].method = "WALLET" }
           U == { p \in Placed(c)' : order'[p].status # "none" /\ order'[p].method = "WALLET" }
           f == [ p \in Orders |-> order[p].total ]
           g == [ p \in Orders |-> order'[p].total ]
<1>1. \A p \in Orders : f[p] \in Int /\ g[p] \in Int
  <2>1. Totals!2!1 /\ Totals!2!1'
    BY Totals, PTL
  <2> QED
    BY <2>1
<1>2. /\ T \in SUBSET Orders /\ U \in SUBSET Orders /\ T \ { o } = U \ { o }
      /\ \A p \in Orders \ { o } : g[p] = f[p]
  BY DEF Placed
<1>3. /\ Paid(c, o)' = IF o \in U THEN g[o] ELSE 0
      /\ Paid(c, o) = IF o \in T THEN f[o] ELSE 0
  BY DEF Paid, Placed
<1>4. PaidFromWallet(c)' = SumFunctionOnSet(g, U) /\ PaidFromWallet(c) = SumFunctionOnSet(f, T)
  BY DEF PaidFromWallet
<1>5. IsFiniteSet(Orders)
  BY CheckoutAssumption
<1> HIDE DEF T, U, f, g
<1>6. SumFunctionOnSet(g, U) - (IF o \in U THEN g[o] ELSE 0)
        = SumFunctionOnSet(f, T) - (IF o \in T THEN f[o] ELSE 0)
  BY <1>1, <1>2, <1>5, SumPartChange
<1> QED
  BY <1>3, <1>4, <1>6

LEMMA RefundsChange ==
  ASSUME Shape, Shape', NEW c, NEW o \in Orders,
         \A p \in Orders : p # o => order'[p] = order[p]
  PROVE  Refunds(c)' - Refunded(c, o)' = Refunds(c) - Refunded(c, o)
<1> DEFINE T == Placed(c)
           U == Placed(c)'
           f == [ p \in Orders |-> order[p].refunds * order[p].total ]
           g == [ p \in Orders |-> order'[p].refunds * order'[p].total ]
<1>1. \A p \in Orders : f[p] \in Int /\ g[p] \in Int
  <2>1. Totals!2!2 /\ Totals!2!2'
    BY Totals, PTL
  <2> QED
    BY <2>1
<1>2. /\ T \in SUBSET Orders /\ U \in SUBSET Orders /\ T \ { o } = U \ { o }
      /\ \A p \in Orders \ { o } : g[p] = f[p]
  BY DEF Placed
<1>3. /\ Refunded(c, o)' = IF o \in U THEN g[o] ELSE 0
      /\ Refunded(c, o) = IF o \in T THEN f[o] ELSE 0
  BY DEF Refunded, Placed
<1>4. Refunds(c)' = SumFunctionOnSet(g, U) /\ Refunds(c) = SumFunctionOnSet(f, T)
  BY DEF Refunds
<1>5. IsFiniteSet(Orders)
  BY CheckoutAssumption
<1> HIDE DEF T, U, f, g
<1>6. SumFunctionOnSet(g, U) - (IF o \in U THEN g[o] ELSE 0)
        = SumFunctionOnSet(f, T) - (IF o \in T THEN f[o] ELSE 0)
  BY <1>1, <1>2, <1>5, SumPartChange
<1> QED
  BY <1>3, <1>4, <1>6

LEMMA EnteringChange ==
  ASSUME Shape, Shape', NEW c, NEW s \in Slots,
         \A t \in Slots : t # s => task'[t] = task[t],
         \A t \in Entering(c) : t # s => order'[task[t].order].total = order[task[t].order].total
  PROVE  RefundsEntering(c)' - RefundEntering(c, s)' = RefundsEntering(c) - RefundEntering(c, s)
<1> DEFINE T == Entering(c)
           U == Entering(c)'
           f == [ t \in Slots |-> order[task[t].order].total ]
           g == [ t \in Slots |-> order'[task'[t].order].total ]
<1>1. \A t \in Slots : f[t] \in Int /\ g[t] \in Int
  <2>1. Totals!2!3 /\ Totals!2!3'
    BY Totals, PTL
  <2> QED
    BY <2>1
<1>2. /\ T \in SUBSET Slots /\ U \in SUBSET Slots /\ T \ { s } = U \ { s }
      /\ \A t \in T \ { s } : g[t] = f[t]
  BY DEF Entering
<1>3. /\ RefundEntering(c, s)' = IF s \in U THEN g[s] ELSE 0
      /\ RefundEntering(c, s) = IF s \in T THEN f[s] ELSE 0
  BY DEF RefundEntering, Entering
<1>4. RefundsEntering(c)' = SumFunctionOnSet(g, U) /\ RefundsEntering(c) = SumFunctionOnSet(f, T)
  BY DEF RefundsEntering
<1> HIDE DEF T, U, f, g
<1>6. SumFunctionOnSet(g, U) - (IF s \in U THEN g[s] ELSE 0)
        = SumFunctionOnSet(f, T) - (IF s \in T THEN f[s] ELSE 0)
  BY <1>1, <1>2, SlotsFinite, SumPartChange
<1> QED
  BY <1>3, <1>4, <1>6

\* Between two steps of a call on an order, or of the vendor on it, whatever a wallet does not
\* see: the order is the same to the sums, and the calls have the same refunds to enter.
SameMoney(o) ==
  /\ (order'[o].status = "none") = (order[o].status = "none")
  /\ order'[o].customer = order[o].customer /\ order'[o].method = order[o].method
  /\ order'[o].total = order[o].total /\ order'[o].refunds = order[o].refunds

SameRefund(s) ==
  /\ (task'[s].pc \in { "refunded", "entry" }) = (task[s].pc \in { "refunded", "entry" })
  /\ task[s].pc \in { "refunded", "entry" } => task'[s].order = task[s].order
  /\ CancelsOwn(s)'

LEMMA WalletQuiet ==
  ASSUME Shape, WalletsInv, wallet' = wallet,
         \A o \in Orders : SameMoney(o), \A s \in Slots : task'[s] = task[s] \/ SameRefund(s)
  PROVE  WalletsInv'
<1>0. \A s \in Slots : task[s].order \in Orders
  BY Totals
<1>1. ASSUME NEW s \in Slots PROVE CancelsOwn(s)'
  <2>1. CASE task'[s] = task[s]
    <3>1. CancelsOwn(s) /\ SameMoney(task[s].order)
      BY <1>0 DEF WalletsInv
    <3> QED
      BY <2>1, <3>1 DEF CancelsOwn, SameMoney
  <2> QED
    BY <2>1 DEF SameRefund
<1>2. \A o \in Orders : order'[o].status = "none" => order'[o].refunds = 0
  BY DEF WalletsInv, SameMoney
<1>3. ASSUME NEW c \in Customers
      PROVE  wallet'[c] + PaidFromWallet(c)' = Opening + Refunds(c)' + RefundsEntering(c)'
  <2>1. PaidFromWallet(c)' = PaidFromWallet(c)
    <3>1. /\ [ o \in Orders |-> order'[o].total ] = [ o \in Orders |-> order[o].total ]
          /\ { o \in Placed(c)' : order'[o].status # "none" /\ order'[o].method = "WALLET" }
               = { o \in Placed(c) : order[o].status # "none" /\ order[o].method = "WALLET" }
      BY DEF SameMoney, Placed
    <3> QED
      BY <3>1 DEF PaidFromWallet
  <2>2. Refunds(c)' = Refunds(c)
    <3>1. /\ [ o \in Orders |-> order'[o].refunds * order'[o].total ]
               = [ o \in Orders |-> order[o].refunds * order[o].total ]
          /\ Placed(c)' = Placed(c)
      BY DEF SameMoney, Placed
    <3> QED
      BY <3>1 DEF Refunds
  <2>3. RefundsEntering(c)' = RefundsEntering(c)
    <3>1. Entering(c)' = Entering(c)
      BY DEF SameRefund, Entering
    <3>2. \A s \in Entering(c) : order'[task'[s].order].total = order[task[s].order].total
      BY <1>0 DEF SameRefund, SameMoney, Entering
    <3>3. SumFunctionOnSet([ s \in Slots |-> order'[task'[s].order].total ], Entering(c))
            = SumFunctionOnSet([ s \in Slots |-> order[task[s].order].total ], Entering(c))
      <4> DEFINE f == [ s \in Slots |-> order[task[s].order].total ]
                 g == [ s \in Slots |-> order'[task'[s].order].total ]
      <4>1. IsFiniteSet(Entering(c)) /\ \A s \in Entering(c) : g[s] = f[s]
        BY <3>2, SlotsFinite, FS_Subset DEF Entering
      <4> HIDE DEF f, g
      <4>2. SumFunctionOnSet(g, Entering(c)) = SumFunctionOnSet(f, Entering(c))
        BY <4>1, SumSame
      <4> QED
        BY <4>2 DEF f, g
    <3> QED
      BY <3>1, <3>3 DEF RefundsEntering
  <2> QED
    BY <2>1, <2>2, <2>3 DEF WalletsInv, WalletIsAccounted
<1> QED
  BY <1>1, <1>2, <1>3 DEF WalletsInv, WalletIsAccounted

LEMMA WalletsInductive ==
  ASSUME RefundsAreEntered PROVE Shape /\ UpdatesExist /\ WalletsInv /\ [Next]_vars => WalletsInv'
<1> SUFFICES ASSUME Shape, UpdatesExist, WalletsInv, [Next]_vars PROVE WalletsInv'
  OBVIOUS
<1> USE SlotCustomer
<1>0. /\ Shape' /\ \A s \in Slots : TaskRecord(task[s]) /\ TaskFits(task[s])
      /\ task = [ s \in Slots |-> task[s] ]
      /\ order = [ o \in Orders |-> order[o] ]
      /\ \A o \in Orders : OrderRecord(order[o]) /\ OrderFits(order[o])
      /\ \A s \in Slots : task[s].order \in Orders
      /\ wallet \in [ Customers -> Int ]
  BY ShapeInductive DEF Shape, TaskShape, OrderShape, IsTask, TaskFits, IsOrder, WalletsInv
<1>w. /\ \A s \in Slots : CancelsOwn(s)
      /\ \A o \in Orders : order[o].status = "none" => order[o].refunds = 0
      /\ \A c \in Customers : wallet[c] + PaidFromWallet(c) = Opening + Refunds(c) + RefundsEntering(c)
  BY DEF WalletsInv, WalletIsAccounted
<1>i. \A c : /\ PaidFromWallet(c) \in Int /\ Refunds(c) \in Int /\ RefundsEntering(c) \in Int
             /\ PaidFromWallet(c)' \in Int /\ Refunds(c)' \in Int /\ RefundsEntering(c)' \in Int
  <2>1. SumsTyped!2 /\ SumsTyped!2'
    BY <1>0, SumsTyped, PTL
  <2> QED
    BY <2>1
<1>t. IdleTask.pc = "idle"
  BY DEF IdleTask
\* Where a call that goes on, or has ended, stands.
<1>g. ASSUME NEW s \in Slots, NEW pc, Goto(s, pc)
      PROVE  /\ task'[s].pc = pc /\ task'[s].order = task[s].order
             /\ \A t \in Slots : t # s => task'[t] = task[t]
  <2>1. TaskRecord(task[s]) /\ task = [ t \in Slots |-> task[t] ]
    BY <1>0
  <2> QED
    BY <1>g, <2>1 DEF Goto, TaskRecord
<1>f. ASSUME NEW s \in Slots, Finish(s)
      PROVE  task'[s].pc = "idle" /\ \A t \in Slots : t # s => task'[t] = task[t]
  BY <1>0, <1>f, <1>t DEF Finish
\* An order where the fields the sums look at stay.
<1>o. ASSUME NEW o \in Orders, NEW status \in Statuses, NEW payment,
             (status = "none") = (order[o].status = "none"),
             order' = [ order EXCEPT ![o].status = status, ![o].payment = payment ]
      PROVE  \A p \in Orders : SameMoney(p)
  <2>1. OrderRecord(order[o]) /\ order = [ p \in Orders |-> order[p] ]
    BY <1>0
  <2>2. order'[o].status = status /\ order'[o].customer = order[o].customer
        /\ order'[o].method = order[o].method /\ order'[o].total = order[o].total
        /\ order'[o].refunds = order[o].refunds /\ \A p \in Orders : p # o => order'[p] = order[p]
    BY <1>o, <2>1 DEF OrderRecord
  <2> QED
    BY <1>o, <2>2 DEF SameMoney
<1>1. ASSUME UNCHANGED << order, wallet >>,
             \A s \in Slots : \/ task'[s] = task[s]
                             \/ /\ task[s].pc \notin { "refunded", "entry" }
                                /\ task'[s].pc \notin CancelSteps
      PROVE  WalletsInv'
  <2>1. \A o \in Orders : SameMoney(o)
    BY <1>1 DEF SameMoney
  <2>2. \A s \in Slots : task'[s] = task[s] \/ SameRefund(s)
    BY <1>1 DEF SameRefund, CancelsOwn, CancelSteps
  <2> QED
    BY <1>1, <2>1, <2>2, WalletQuiet
<1>2. ASSUME NEW s \in Slots, Elsewhere(s) \/ Fail(s) \/ ProviderAnswers(s) PROVE WalletsInv'
  <2>1. CASE Elsewhere(s)
    BY <1>1, <2>1 DEF Elsewhere, CancelSteps
  <2>2. CASE Fail(s)
    BY <1>1, <1>f, <2>2 DEF Fail, MoneyUnchanged, RefundsAreEntered, CancelSteps
  <2>3. CASE ProviderAnswers(s)
    BY <1>1, <1>f, <1>g, <2>3 DEF ProviderAnswers, At, CancelSteps
  <2> QED
    BY <1>2, <2>1, <2>2, <2>3
<1>3. ASSUME NEW s \in Slots, PaymentWrite(s) PROVE WalletsInv'
  <2> DEFINE o == task[s].order
  <2>1. \A p \in Orders : SameMoney(p)
    <3>1. order' = [ order EXCEPT ![o].status = order[o].status, ![o].payment = "PAID" ] /\ o \in Orders
      <4>1. OrderRecord(order[o]) /\ order = [ p \in Orders |-> order[p] ] /\ o \in Orders
        BY <1>0
      <4>2. [ order[o] EXCEPT !.status = order[o].status, !.payment = "PAID" ]
              = [ order[o] EXCEPT !.payment = "PAID" ]
        BY <4>1 DEF OrderRecord
      <4> QED
        BY <1>3, <4>1, <4>2 DEF PaymentWrite
    <3>2. order[o].status \in Statuses
      BY <1>0, <3>1 DEF OrderFits
    <3> QED
      BY <1>o, <3>1, <3>2
  <2>2. \A t \in Slots : task'[t] = task[t] \/ SameRefund(t)
    BY <1>3, <1>f DEF PaymentWrite, At, SameRefund, CancelsOwn, CancelSteps
  <2> QED
    BY <1>3, <2>1, <2>2, WalletQuiet DEF PaymentWrite
<1>4. ASSUME NEW s \in Slots, NEW o \in Orders, CancelRead(s, o) PROVE WalletsInv'
  <2>1. \A p \in Orders : SameMoney(p)
    BY <1>4 DEF CancelRead, MoneyUnchanged, SameMoney
  <2>2. /\ task'[s].pc = "cancel" /\ task'[s].order = o
        /\ \A t \in Slots : t # s => task'[t] = task[t]
    <3>1. ASSUME NEW t, t = [ IdleTask EXCEPT !.pc = "cancel", !.order = o, !.payment = order[o].payment ]
          PROVE  t.pc = "cancel" /\ t.order = o
      BY <3>1 DEF IdleTask
    <3> QED
      BY <1>0, <1>4, <3>1 DEF CancelRead, Begin
  <2>3. SameRefund(s)
    BY <1>4, <2>2 DEF CancelRead, cancellable, Begin, At, MoneyUnchanged, SameRefund, CancelsOwn
  <2> QED
    BY <1>4, <2>1, <2>2, <2>3, WalletQuiet DEF CancelRead, MoneyUnchanged
<1>5. ASSUME NEW s \in Slots, CancelWrite(s) \/ CancelRefunded(s) PROVE WalletsInv'
  <2>o. PICK o \in Orders : o = task[s].order
    BY <1>0
  <2>1. /\ OrderRecord(order[o]) /\ order = [ p \in Orders |-> order[p] ]
        /\ order[o].status \in Statuses /\ order[o].payment \in PaymentStates
    BY <1>0 DEF OrderFits
  <2>2. order[o].status # "none" /\ order[o].customer = Customer(s)
    BY <1>w, <1>5, <2>o DEF CancelsOwn, CancelWrite, CancelRefunded, At, CancelSteps
  <2>3. \E status \in Statuses \ { "none" }, payment \in PaymentStates :
          order' = [ order EXCEPT ![o].status = status, ![o].payment = payment ]
    <3>1. CASE CancelWrite(s)
      <4>1. [ order[o] EXCEPT !.status = "CANCELLED", !.payment = order[o].payment ]
              = [ order[o] EXCEPT !.status = "CANCELLED" ]
        BY <2>1 DEF OrderRecord
      <4>2. order' = [ order EXCEPT ![o].status = "CANCELLED", ![o].payment = order[o].payment ]
        BY <2>o, <2>1, <3>1, <4>1 DEF CancelWrite
      <4> QED
        BY <2>1, <4>2 DEF Statuses
    <3>2. CASE CancelRefunded(s)
      <4>1. [ order[o] EXCEPT !.status = order[o].status, !.payment = "REFUNDED" ]
              = [ order[o] EXCEPT !.payment = "REFUNDED" ]
        BY <2>1 DEF OrderRecord
      <4>2. order' = [ order EXCEPT ![o].status = order[o].status, ![o].payment = "REFUNDED" ]
        BY <2>o, <2>1, <3>2, <4>1 DEF CancelRefunded
      <4> QED
        BY <2>1, <2>2, <4>2 DEF PaymentStates
    <3> QED
      BY <1>5, <3>1, <3>2
  <2>4. \A p \in Orders : SameMoney(p)
    <3>1. PICK status \in Statuses \ { "none" }, payment \in PaymentStates :
            order' = [ order EXCEPT ![o].status = status, ![o].payment = payment ]
      BY <2>3
    <3>2. (status = "none") = (order[o].status = "none")
      BY <2>2, <3>1
    <3> QED
      BY <1>o, <3>1, <3>2
  <2>5. /\ task'[s].pc = "idle" \/ task'[s].order = o
        /\ (task'[s].pc \in { "refunded", "entry" }) = (task[s].pc \in { "refunded", "entry" })
        /\ \A t \in Slots : t # s => task'[t] = task[t]
    BY <1>5, <1>f, <1>g, <2>o DEF CancelWrite, CancelRefunded, At
  <2>6. SameRefund(s)
    BY <2>o, <2>2, <2>4, <2>5 DEF SameRefund, SameMoney, CancelsOwn, CancelSteps
  <2> QED
    BY <1>5, <2>4, <2>5, <2>6, WalletQuiet DEF CancelWrite, CancelRefunded
<1>6. ASSUME NEW o \in Orders, NEW target \in Targets, UpdateStatusWrite(o, target) PROVE WalletsInv'
  <2>1. /\ OrderRecord(order[o]) /\ order = [ p \in Orders |-> order[p] ] /\ order[o].status # "none"
        /\ target \in Statuses \ { "none" }
    BY <1>0, <1>6, CheckoutAssumption DEF UpdateStatusWrite, UpdatesExist, Statuses
  <2>2. order' = [ order EXCEPT ![o].status = target ]
    BY <1>6 DEF UpdateStatusWrite
  <2>3. order' = [ order EXCEPT ![o].status = target, ![o].payment = order[o].payment ]
    <3>1. [ order[o] EXCEPT !.status = target, !.payment = order[o].payment ]
            = [ order[o] EXCEPT !.status = target ]
      BY <2>1 DEF OrderRecord
    <3> QED
      BY <2>1, <2>2, <3>1
  <2>4. \A p \in Orders : SameMoney(p)
    BY <1>o, <2>1, <2>3
  <2> QED
    BY <1>6, <2>4, WalletQuiet DEF UpdateStatusWrite
<1>7. ASSUME NEW s \in Slots, CancelRefund(s) PROVE WalletsInv'
  <2>o. PICK o \in Orders : o = task[s].order
    BY <1>0
  <2>1. /\ order[o].status # "none" /\ order[o].customer = Customer(s) /\ order[o].total \in Int
        /\ order' = order /\ task[s].pc = "refund"
    BY <1>0, <1>w, <1>7, <2>o DEF CancelsOwn, CancelRefund, At, CancelSteps, OrderFits
  <2>2. /\ task'[s].pc = "refunded" /\ task'[s].order = o
        /\ \A t \in Slots : t # s => task'[t] = task[t]
    BY <1>7, <1>g, <2>o DEF CancelRefund
  <2>3. /\ wallet' \in [ Customers -> Int ]
        /\ \A c \in Customers : wallet'[c] = wallet[c] + IF c = Customer(s) THEN order[o].total ELSE 0
    BY <1>0, <1>7, <2>o, <2>1 DEF CancelRefund
  <2>4. ASSUME NEW c \in Customers
        PROVE  wallet'[c] + PaidFromWallet(c)' = Opening + Refunds(c)' + RefundsEntering(c)'
    <3>1. PaidFromWallet(c)' = PaidFromWallet(c) /\ Refunds(c)' = Refunds(c)
      BY <2>1 DEF PaidFromWallet, Refunds, Placed
    <3>2. RefundsEntering(c)' - RefundEntering(c, s)' = RefundsEntering(c) - RefundEntering(c, s)
      BY <1>0, <2>1, <2>2, EnteringChange
    <3>3. /\ RefundEntering(c, s) = 0
          /\ RefundEntering(c, s)' = IF c = Customer(s) THEN order[o].total ELSE 0
      BY <2>1, <2>2 DEF RefundEntering, Entering
    <3>4. RefundsEntering(c)' = RefundsEntering(c) + IF c = Customer(s) THEN order[o].total ELSE 0
      BY <1>i, <2>1, <3>2, <3>3
    <3> QED
      BY <1>0, <1>i, <1>w, <2>1, <2>3, <3>1, <3>4, CheckoutAssumption
  <2>5. \A t \in Slots : CancelsOwn(t)'
    BY <1>w, <2>1, <2>2 DEF CancelsOwn
  <2> QED
    BY <1>w, <2>1, <2>3, <2>4, <2>5 DEF WalletsInv, WalletIsAccounted
<1>8. ASSUME NEW s \in Slots, CancelEntry(s) PROVE WalletsInv'
  <2>o. PICK o \in Orders : o = task[s].order
    BY <1>0
  <2>1. /\ order[o].status # "none" /\ order[o].customer = Customer(s)
        /\ order[o].total \in Int /\ order[o].refunds \in Nat
        /\ wallet' = wallet /\ task[s].pc = "entry"
    BY <1>0, <1>w, <1>8, <2>o DEF CancelsOwn, CancelEntry, At, CancelSteps, OrderFits
  <2>2. /\ task'[s].pc = "idle" /\ \A t \in Slots : t # s => task'[t] = task[t]
    BY <1>8, <1>f DEF CancelEntry
  <2>3. /\ \A p \in Orders : p # o => order'[p] = order[p]
        /\ order'[o].status = order[o].status /\ order'[o].customer = order[o].customer
        /\ order'[o].method = order[o].method /\ order'[o].total = order[o].total
        /\ order'[o].refunds = order[o].refunds + 1
    <3>1. OrderRecord(order[o]) /\ order = [ p \in Orders |-> order[p] ]
      BY <1>0
    <3> QED
      BY <1>8, <2>o, <3>1 DEF CancelEntry, OrderRecord
  <2>4. ASSUME NEW c \in Customers
        PROVE  wallet'[c] + PaidFromWallet(c)' = Opening + Refunds(c)' + RefundsEntering(c)'
    <3> DEFINE x == IF c = Customer(s) THEN order[o].total ELSE 0
    <3>1. PaidFromWallet(c)' = PaidFromWallet(c)
      <4>1. Paid(c, o)' = Paid(c, o) /\ Paid(c, o) \in Int
        BY <1>0, <2>3, SumsTyped DEF Paid
      <4>2. PaidFromWallet(c)' - Paid(c, o)' = PaidFromWallet(c) - Paid(c, o)
        BY <1>0, <2>3, PaidChange
      <4> QED
        BY <1>i, <4>1, <4>2
    <3>2. Refunds(c)' = Refunds(c) + x
      <4>1. (order[o].refunds + 1) * order[o].total = order[o].refunds * order[o].total + order[o].total
        BY <2>1
      <4>2. Refunded(c, o)' = Refunded(c, o) + x /\ Refunded(c, o) \in Int
        BY <2>1, <2>3, <4>1 DEF Refunded
      <4>3. Refunds(c)' - Refunded(c, o)' = Refunds(c) - Refunded(c, o)
        BY <1>0, <2>3, RefundsChange
      <4>4. x \in Int
        BY <2>1
      <4> HIDE DEF x
      <4> QED
        BY <1>i, <4>2, <4>3, <4>4
    <3>3. RefundsEntering(c)' = RefundsEntering(c) - x
      <4>1. RefundEntering(c, s) = x /\ RefundEntering(c, s)' = 0 /\ x \in Int
        BY <2>o, <2>1, <2>2 DEF RefundEntering, Entering
      <4>2. RefundsEntering(c)' - RefundEntering(c, s)' = RefundsEntering(c) - RefundEntering(c, s)
        BY <1>0, <2>2, <2>3, EnteringChange DEF Entering
      <4> HIDE DEF x
      <4> QED
        BY <1>i, <4>1, <4>2
    <3>4. x \in Int
      BY <2>1
    <3> HIDE DEF x
    <3> QED
      BY <1>0, <1>i, <1>w, <2>1, <3>1, <3>2, <3>3, <3>4, CheckoutAssumption
  <2>5. \A t \in Slots : CancelsOwn(t)'
    BY <1>0, <1>w, <2>2, <2>3 DEF CancelsOwn, CancelSteps
  <2> QED
    BY <1>0, <1>w, <2>1, <2>3, <2>4, <2>5 DEF WalletsInv, WalletIsAccounted
<1>9. ASSUME NEW s \in Slots, CheckoutPurchase(s) PROVE WalletsInv'
  <2>1. /\ task[s].pc = "purchase" /\ task[s].total \in Int
        /\ task'[s].pc \notin CancelSteps /\ \A t \in Slots : t # s => task'[t] = task[t]
    <3>1. ASSUME NEW t, NEW o, t = [ IdleTask EXCEPT !.pc = "pay", !.order = o ] PROVE t.pc = "pay"
      BY <3>1 DEF IdleTask
    <3>2. \/ Finish(s)
          \/ \E o \in Orders : task' = [ task EXCEPT ![s] = [ IdleTask EXCEPT !.pc = "pay", !.order = o ] ]
      BY <1>9 DEF CheckoutPurchase
    <3>3. ASSUME NEW t, t.pc = "pay", task' = [ task EXCEPT ![s] = t ]
          PROVE  task'[s].pc = "pay" /\ \A u \in Slots : u # s => task'[u] = task[u]
      BY <1>0, <3>3
    <3>4. task'[s].pc \notin CancelSteps /\ \A t \in Slots : t # s => task'[t] = task[t]
      BY <1>f, <3>1, <3>2, <3>3 DEF CancelSteps
    <3>5. task[s].total \in Int
      BY <1>0 DEF TaskFits
    <3> QED
      BY <1>9, <3>4, <3>5 DEF CheckoutPurchase, At
  <2>2. CASE UNCHANGED << order, wallet >>
    BY <1>1, <2>1, <2>2
  <2>3. ASSUME NEW o \in Orders, order[o].status = "none", ~UNCHANGED << order, wallet >>,
               order' = [ order EXCEPT ![o] =
                  [ status |-> "PENDING", customer |-> Customer(s), method |-> task[s].method,
                    payment |-> IF task[s].method = "WALLET" THEN "PAID" ELSE "PENDING",
                    total |-> task[s].total, refunds |-> 0 ] ],
               wallet' = IF task[s].method = "WALLET"
                         THEN [ wallet EXCEPT ![Customer(s)] = @ - task[s].total ] ELSE wallet
        PROVE  WalletsInv'
    <3>1. /\ \A p \in Orders : p # o => order'[p] = order[p]
          /\ order'[o].status = "PENDING" /\ order'[o].customer = Customer(s)
          /\ order'[o].method = task[s].method /\ order'[o].total = task[s].total
          /\ order'[o].refunds = 0
      BY <1>0, <2>3
    <3>2. \A t \in Slots : CancelsOwn(t)' /\ (task[t].pc \in CancelSteps => task[t].order # o)
      BY <1>0, <1>w, <2>1, <2>3, <3>1 DEF CancelsOwn, CancelSteps
    <3>3. ASSUME NEW c \in Customers
          PROVE  wallet'[c] + PaidFromWallet(c)' = Opening + Refunds(c)' + RefundsEntering(c)'
      <4> DEFINE x == IF c = Customer(s) /\ task[s].method = "WALLET" THEN task[s].total ELSE 0
      <4>1. x \in Int /\ wallet[c] \in Int /\ wallet'[c] = wallet[c] - x
        BY <1>0, <2>1, <2>3
      <4>2. PaidFromWallet(c)' = PaidFromWallet(c) + x
        <5>1. Paid(c, o) = 0 /\ Paid(c, o)' = x
          BY <2>3, <3>1 DEF Paid
        <5>2. PaidFromWallet(c)' - Paid(c, o)' = PaidFromWallet(c) - Paid(c, o)
          BY <1>0, <3>1, PaidChange
        <5> HIDE DEF x
        <5> QED
          BY <1>i, <4>1, <5>1, <5>2
      <4>3. Refunds(c)' = Refunds(c)
        <5>1. order[o].refunds = 0 /\ order[o].total \in Int
          BY <1>0, <1>w, <2>3 DEF OrderFits
        <5>2. Refunded(c, o) = 0 /\ Refunded(c, o)' = 0
          BY <2>1, <3>1, <5>1 DEF Refunded
        <5>3. Refunds(c)' - Refunded(c, o)' = Refunds(c) - Refunded(c, o)
          BY <1>0, <3>1, RefundsChange
        <5> QED
          BY <1>i, <5>2, <5>3
      <4>4. RefundsEntering(c)' = RefundsEntering(c)
        <5>1. RefundEntering(c, s) = 0 /\ RefundEntering(c, s)' = 0
          BY <2>1 DEF RefundEntering, Entering, CancelSteps
        <5>2. RefundsEntering(c)' - RefundEntering(c, s)' = RefundsEntering(c) - RefundEntering(c, s)
          BY <1>0, <2>1, <3>1, <3>2, EnteringChange DEF Entering, CancelSteps
        <5> QED
          BY <1>i, <5>1, <5>2
      <4> HIDE DEF x
      <4> QED
        BY <1>i, <1>w, <4>1, <4>2, <4>3, <4>4, CheckoutAssumption
    <3>4. wallet' \in [ Customers -> Int ]
      BY <1>0, <2>1, <2>3
    <3> QED
      BY <1>w, <3>1, <3>2, <3>3, <3>4 DEF WalletsInv, WalletIsAccounted
  <2> QED
    BY <1>9, <2>2, <2>3 DEF CheckoutPurchase, IsNext
<1>10. ASSUME UNCHANGED << order, wallet, charges, task >> PROVE WalletsInv'
  BY <1>1, <1>10
<1> QED
  BY <1>2, <1>3, <1>4, <1>5, <1>6, <1>7, <1>8, <1>9, <1>10, StepCases

\* Every wallet is what it was in the beginning, less what was paid from it, plus the refunds in
\* the ledger and those a cancellation is about to enter: however many calls of a customer
\* overlap, and wherever else they fail.
THEOREM WalletsAccounted ==
  ASSUME RefundsAreEntered PROVE Spec => []WalletInv
<1>1. Init => WalletsInv
  <2> SUFFICES ASSUME Init PROVE WalletsInv
    OBVIOUS
  <2>0. Shape
    BY ShapeInit
  <2>1. /\ \A o \in Orders : order[o].status = "none" /\ order[o].refunds = 0 /\ order[o].total = 0
        /\ \A s \in Slots : task[s].pc = "idle"
        /\ wallet = [ c \in Customers |-> Opening ]
    BY DEF Init, NoOrder, IdleTask
  <2>2. ASSUME NEW c \in Customers
        PROVE  PaidFromWallet(c) = 0 /\ Refunds(c) = 0 /\ RefundsEntering(c) = 0
    <3>1. /\ { o \in Placed(c) : order[o].status # "none" /\ order[o].method = "WALLET" } = {}
          /\ Entering(c) = {}
      BY <2>1 DEF Placed, Entering
    <3>2. PaidFromWallet(c) = 0 /\ RefundsEntering(c) = 0
      BY <3>1, SumEmpty DEF PaidFromWallet, RefundsEntering
    <3>3. Refunds(c) = 0
      <4> DEFINE f == [ o \in Orders |-> order[o].refunds * order[o].total ]
      <4>1. IsFiniteSet(Placed(c)) /\ \A o \in Placed(c) : f[o] = 0
        BY <2>1, CheckoutAssumption, FS_Subset DEF Placed
      <4> HIDE DEF f
      <4>2. SumFunctionOnSet(f, Placed(c)) = 0
        BY <4>1, SumZero
      <4> QED
        BY <4>2 DEF Refunds, f
    <3> QED
      BY <3>2, <3>3
  <2>3. \A s \in Slots : CancelsOwn(s)
    BY <2>1 DEF CancelsOwn, CancelSteps
  <2>4. Opening \in Nat
    BY CheckoutAssumption
  <2>5. wallet \in [ Customers -> Int ] /\ \A c \in Customers : wallet[c] = Opening
    BY <2>1, <2>4
  <2>6. WalletIsAccounted
    BY <2>2, <2>4, <2>5 DEF WalletIsAccounted
  <2> QED
    BY <2>1, <2>3, <2>5, <2>6 DEF WalletsInv
<1>2. Shape /\ WalletsInv => WalletInv
  <2> SUFFICES ASSUME Shape, WalletsInv PROVE TypeOK
    BY DEF WalletInv, WalletsInv
  <2>1. order \in [ Orders -> [ status : Statuses, customer : Customers, method : { "WALLET", "CARD", "CASH" },
                               payment : PaymentStates, total : Int, refunds : Nat ] ]
    BY DEF Shape, OrderShape, IsOrder, OrderRecord, OrderFits
  <2>2. task \in [ Slots -> TaskStates ]
    <3>1. ASSUME NEW t, IsTask(t) PROVE t \in TaskStates
      <4>1. /\ t.pc \in { "idle" } \cup Steps /\ t.operation \in RowOperations \cup { "" }
            /\ t.dish \in Dishes \cup { NoDish } /\ t.row \in Rows /\ t.quantity \in Int
            /\ t.items \in CartRows /\ t.method \in { "WALLET", "CARD", "CASH" } /\ t.promo \in Int
            /\ t.total \in Int /\ t.order \in Orders /\ t.payment \in PaymentStates
        BY <3>1 DEF IsTask, TaskFits
      <4> QED
        BY <3>1, <4>1 DEF IsTask, TaskRecord, TaskStates
    <3> QED
      BY <3>1 DEF Shape, TaskShape
  <2> QED
    BY <2>1, <2>2 DEF Shape, Counters, CartShape, WalletsInv, TypeOK
<1> QED
  BY <1>1, <1>2, ShapeInit, ShapeInductive, UpdatesExistInit, UpdatesExistInductive, WalletsInductive,
     PTL DEF Spec
=============================================================================

------------------------------ MODULE Checkout ------------------------------
(***************************************************************************)
(* From the cart to a paid order and back: CartService, OrdersService      *)
(* .checkout and .cancelOrder, PromotionsService and PaymentsService.      *)
(*                                                                         *)
(* A call of a customer is a task that takes one action per statement; a   *)
(* Prisma transaction is one action.  A dish costs one unit; what delivery *)
(* and service cost is one constant.                                       *)
(*                                                                         *)
(* Of the writers of an order's status and paymentState there are here     *)
(* checkout, cancelOrder, initiateFlexPayment and updateStatus, which      *)
(* writes whatever it has validated before, over a cancellation too.  Not  *)
(* here are the listener on the documents (OrderSync has it), syncOrder's  *)
(* paymentState and handlePaymentCallback, which writes PAID or FAILED as  *)
(* a notice of the provider says.                                          *)
(***************************************************************************)
EXTENDS Integers, FiniteSetsExt, OrderStatus

CONSTANTS
  Customers,
  Lanes,         \* a customer has one call in progress per lane
  Restaurants, NoRestaurant,
  Dishes,
  RestaurantOf,  \* the restaurant on whose menu a dish is
  Rows,          \* the ids of cart items
  Orders,        \* the ids of orders, given in order
  Methods,       \* the payment methods an instance has
  MaxQuantity,   \* bound of the quantity of a cart item, where it stays
  MaxCharges,    \* bound of the charges of an order
  MaxPromotions, \* bound of the promotions made under the code
  Fees,          \* deliveryFee and serviceFee
  Discount, minOrderAmount, usageLimit, userUsageLimit,
                 \* of the promotion; the discount is a fixed amount
  Opening,       \* walletBalance at the beginning
  Targets,       \* the statuses a vendor asks for
  Scenarios,     \* the operations and the dishes a behaviour has
  FailingSteps   \* the steps before which a call may fail or its process stop

NoDish == "none"

CartSteps == { "cart", "adopt", "put", "row", "write", "delete", "count", "unset" }
CheckoutSteps == { "promotion", "usages", "wallet", "purchase", "pay", "paid" }
CancelSteps == { "cancel", "refund", "refunded", "entry" }
Steps == CartSteps \cup CheckoutSteps \cup CancelSteps

AllOperations == { "add", "edit", "checkout", "promotion", "cancel", "vendor", "initiate" }

ASSUME CheckoutAssumption ==
  /\ RestaurantOf \in [ Dishes -> Restaurants ]
  /\ NoRestaurant \notin Restaurants
  /\ NoDish \notin Dishes
  /\ Rows \subseteq Nat /\ Rows # {}
  /\ Orders \subseteq Nat /\ Orders # {}
  /\ Customers # {} /\ IsFiniteSet(Customers) /\ IsFiniteSet(Lanes) /\ IsFiniteSet(Rows) /\ IsFiniteSet(Orders)
  /\ Methods \subseteq { "WALLET", "CARD", "CASH" }
  /\ Targets \subseteq { "PENDING", "CONFIRMED", "PREPARING", "CANCELLED" }
  /\ MaxQuantity \in Nat /\ MaxCharges \in Nat /\ MaxPromotions \in Nat
  /\ Fees \in Nat /\ Discount \in Nat /\ minOrderAmount \in Nat
  /\ usageLimit \in Nat /\ userUsageLimit \in Nat /\ Opening \in Nat
  /\ Scenarios \subseteq [ operations : SUBSET AllOperations, dishes : SUBSET Dishes ]
  /\ FailingSteps \subseteq Steps \cup { "increment" }

VARIABLES
  scenario,  \* the member of Scenarios this behaviour is of
  cart,      \* carts and cart_items: restaurantId, and a dish and quantity per row
  order,     \* orders, and what their REFUND entries in the ledger add up to
  wallet,    \* users.walletBalance
  promo,     \* the promotion of the code: the how manieth it is, whether it is
             \* there, isActive and usageCount
  used,      \* promotion_usages of the promotion: the orders
  counting,  \* increments of usageCount on their way
  charges,   \* external: how often the provider took the total of an order
  updating,  \* per order, the statuses that calls of updateStatus have validated
             \* and not written yet; one call at a time per order and status
  task       \* the calls in progress

vars == << scenario, cart, order, wallet, promo, used, counting, charges, updating, task >>

Slots == Customers \X Lanes
Customer(s) == s[1]

CartRows == [ Rows -> [ dish : Dishes \cup { NoDish }, quantity : Int ] ]
Statuses == { "none", "PENDING", "CONFIRMED", "PREPARING", "CANCELLED" }
RowOperations == { "update", "increment", "decrement", "remove" }
PaymentStates == { "PENDING", "PAID", "REFUNDED" }

\* What a call has read and what it was asked for, to be used after an await.
TaskStates ==
  [ pc : { "idle" } \cup Steps, operation : RowOperations \cup { "" },
    dish : Dishes \cup { NoDish }, row : Rows, quantity : Int, items : CartRows,
    method : { "WALLET", "CARD", "CASH" }, promo : Int, total : Int, order : Orders, payment : PaymentStates ]

TypeOK ==
  /\ scenario \in Scenarios
  /\ cart \in [ Customers -> [ restaurant : Restaurants \cup { NoRestaurant }, items : CartRows ] ]
  /\ order \in [ Orders -> [ status : Statuses, customer : Customers, method : { "WALLET", "CARD", "CASH" },
                             payment : PaymentStates, total : Int, refunds : Nat ] ]
  /\ wallet \in [ Customers -> Int ]
  /\ promo \in [ id : 0 .. MaxPromotions, exists : BOOLEAN, active : BOOLEAN, count : Nat ]
  /\ used \in SUBSET Orders
  /\ counting \in Nat
  /\ charges \in [ Orders -> 0 .. MaxCharges ]
  /\ updating \in [ Orders -> SUBSET Targets ]
  /\ task \in [ Slots -> TaskStates ]

NoItems == [ r \in Rows |-> [ dish |-> NoDish, quantity |-> 0 ] ]

IdleTask ==
  [ pc |-> "idle", operation |-> "", dish |-> NoDish, row |-> CHOOSE r \in Rows : TRUE,
    quantity |-> 0, items |-> NoItems, method |-> "CASH", promo |-> 0, total |-> 0,
    order |-> CHOOSE o \in Orders : TRUE, payment |-> "PENDING" ]

NoOrder ==
  [ status |-> "none", customer |-> CHOOSE c \in Customers : TRUE, method |-> "CASH",
    payment |-> "PENDING", total |-> 0, refunds |-> 0 ]

Init ==
  /\ scenario \in Scenarios
  /\ cart = [ c \in Customers |-> [ restaurant |-> NoRestaurant, items |-> NoItems ] ]
  /\ order = [ o \in Orders |-> NoOrder ]
  /\ wallet = [ c \in Customers |-> Opening ]
  /\ promo = [ id |-> 0, exists |-> FALSE, active |-> FALSE, count |-> 0 ]
  /\ used = {}
  /\ counting = 0
  /\ charges = [ o \in Orders |-> 0 ]
  /\ updating = [ o \in Orders |-> {} ]
  /\ task = [ s \in Slots |-> IdleTask ]

(***************************************************************************)
(* Helpers                                                                 *)
(***************************************************************************)
At(s, pc) == task[s].pc = pc

Goto(s, pc) == task' = [ task EXCEPT ![s].pc = pc ]

Finish(s) == task' = [ task EXCEPT ![s] = IdleTask ]

Begin(s, t) == At(s, "idle") /\ task' = [ task EXCEPT ![s] = t ]

Present(items) == { r \in Rows : items[r].dish # NoDish }

\* The smallest id that is free stands for the one the database gives.
IsNext(id, free) == id \in free /\ \A other \in free : id <= other

SetItem(c, r, dish, quantity) ==
  cart' = [ cart EXCEPT ![c].items[r] = [ dish |-> dish, quantity |-> quantity ] ]

Subtotal(items) == SumFunctionOnSet([ r \in Rows |-> items[r].quantity ], Present(items))

Least(a, b) == IF a < b THEN a ELSE b

UsagesOf(c) == { o \in used : order[o].customer = c }

\* Everything but the cart, the orders, the wallets and the promotion.
MoneyUnchanged == UNCHANGED << order, wallet, promo, used, counting, charges >>

(***************************************************************************)
(* CartService                                                             *)
(***************************************************************************)

\* addItem has read the food item, with its restaurant.
AddItem(s, dish, quantity) ==
  /\ Begin(s, [ IdleTask EXCEPT !.pc = "cart", !.dish = dish, !.quantity = quantity ])
  /\ MoneyUnchanged /\ UNCHANGED cart

\* Mutant: the restaurant of the cart is not compared.
AnyRestaurant(c, restaurant) == FALSE

\* The cart holds items of another restaurant: the call is refused.
OtherRestaurant(c, restaurant) ==
  /\ cart[c].restaurant # NoRestaurant /\ cart[c].restaurant # restaurant
  /\ Present(cart[c].items) # {}

AddReadCart(s) ==
  LET c == Customer(s)
      restaurant == RestaurantOf[task[s].dish]
      empty == cart[c].restaurant = NoRestaurant \/ Present(cart[c].items) = {}
  IN /\ At(s, "cart")
     /\ IF OtherRestaurant(c, restaurant)
        THEN Finish(s)
        ELSE task' = [ task EXCEPT ![s].pc = IF empty THEN "adopt" ELSE "put",
                                   ![s].items = cart[c].items ]
     /\ MoneyUnchanged /\ UNCHANGED cart

AddAdopt(s) ==
  /\ At(s, "adopt")
  /\ cart' = [ cart EXCEPT ![Customer(s)].restaurant = RestaurantOf[task[s].dish] ]
  /\ Goto(s, "put")
  /\ MoneyUnchanged

\* A row of the dish that was there gets the quantity that was read and the new
\* one (and the update fails when the row is gone); otherwise a row is created.
AddPut(s) ==
  LET c == Customer(s)
      items == cart[c].items
      existing == { r \in Rows : task[s].items[r].dish = task[s].dish }
  IN /\ At(s, "put")
     /\ \/ \E r \in existing :
             IF items[r].dish = NoDish
             THEN UNCHANGED cart
             ELSE SetItem(c, r, items[r].dish, Least(task[s].items[r].quantity + task[s].quantity, MaxQuantity))
        \/ /\ existing = {}
           /\ \E r \in Rows : /\ IsNext(r, Rows \ Present(items))
                           /\ SetItem(c, r, task[s].dish, task[s].quantity)
     /\ Finish(s)
     /\ MoneyUnchanged

\* updateItem, incrementItem, decrementItem and removeItem read the cart and the
\* item; an item that does not exist is an error.
ReadRow(s, r, operation) ==
  /\ cart[Customer(s)].items[r].dish # NoDish
  /\ Begin(s, [ IdleTask EXCEPT !.row = r,
                !.pc = IF operation = "remove" THEN "delete"
                       ELSE IF operation = "decrement" /\ cart[Customer(s)].items[r].quantity <= 1
                       THEN "row" ELSE "write",
                !.operation = operation ])
  /\ MoneyUnchanged /\ UNCHANGED cart

\* decrementItem calls removeItem, which reads the item once more.
ReadRowAgain(s) ==
  /\ At(s, "row")
  /\ IF cart[Customer(s)].items[task[s].row].dish = NoDish THEN Finish(s) ELSE Goto(s, "delete")
  /\ MoneyUnchanged /\ UNCHANGED cart

WriteRow(s) ==
  LET c == Customer(s)
      r == task[s].row
      item == cart[c].items[r]
      operation == task[s].operation
  IN /\ At(s, "write")
     /\ IF item.dish = NoDish
        THEN UNCHANGED cart
        ELSE SetItem(c, r, item.dish, CASE operation = "update" -> MaxQuantity
                                        [] operation = "increment" -> Least(item.quantity + 1, MaxQuantity)
                                        [] operation = "decrement" -> item.quantity - 1)
     /\ Finish(s)
     /\ MoneyUnchanged

\* The delete throws when the row is gone.
DeleteRow(s) ==
  LET c == Customer(s)
      r == task[s].row
  IN /\ At(s, "delete")
     /\ IF cart[c].items[r].dish = NoDish
        THEN Finish(s) /\ UNCHANGED cart
        ELSE SetItem(c, r, NoDish, 0) /\ Goto(s, "count")
     /\ MoneyUnchanged

CountRows(s) ==
  /\ At(s, "count")
  /\ IF Present(cart[Customer(s)].items) = {} THEN Goto(s, "unset") ELSE Finish(s)
  /\ MoneyUnchanged /\ UNCHANGED cart

ClearCart(s) ==
  /\ Begin(s, [ IdleTask EXCEPT !.pc = "unset" ])
  /\ cart' = [ cart EXCEPT ![Customer(s)].items = NoItems ]
  /\ MoneyUnchanged

\* The last statement of removeItem and of clearCart.
UnsetRestaurant(s) ==
  /\ At(s, "unset")
  /\ cart' = [ cart EXCEPT ![Customer(s)].restaurant = NoRestaurant ]
  /\ Finish(s)
  /\ MoneyUnchanged

(***************************************************************************)
(* OrdersService.checkout, with PromotionsService.validate                 *)
(***************************************************************************)

\* _getCalculation reads the cart, which must not be empty.
CheckoutReadCart(s, method, withPromo) ==
  LET items == cart[Customer(s)].items
  IN /\ Present(items) # {}
     /\ withPromo => "promotion" \in scenario.operations
     /\ Begin(s, [ IdleTask EXCEPT !.pc = IF withPromo THEN "promotion"
                                          ELSE IF method = "WALLET" THEN "wallet" ELSE "purchase",
                                   !.items = items, !.method = method,
                                   !.total = Subtotal(items) + Fees ])
     /\ MoneyUnchanged /\ UNCHANGED cart

\* The promotion as such: active, below its usage limit, and its minimum order.
Applicable(subtotal) ==
  promo.exists /\ promo.active /\ promo.count < usageLimit /\ subtotal >= minOrderAmount

CheckoutReadPromotion(s) ==
  /\ At(s, "promotion")
  /\ IF Applicable(Subtotal(task[s].items))
     THEN task' = [ task EXCEPT ![s].pc = "usages", ![s].promo = promo.id ]
     ELSE Finish(s)
  /\ MoneyUnchanged /\ UNCHANGED cart

\* Mutant: the user's usages of the code are not counted.
CheckoutUsagesOfNobody(s) ==
  /\ At(s, "usages")
  /\ task' = [ task EXCEPT ![s].total = @ - Discount,
                           ![s].pc = IF task[s].method = "WALLET" THEN "wallet" ELSE "purchase" ]
  /\ MoneyUnchanged /\ UNCHANGED cart

\* The usages counted are those of the promotion read before; they are deleted
\* along with it, and a new promotion of the same code starts without any.
CheckoutReadUsages(s) ==
  /\ At(s, "usages")
  /\ IF promo.exists /\ task[s].promo = promo.id /\ Cardinality(UsagesOf(Customer(s))) >= userUsageLimit
     THEN Finish(s)
     ELSE task' = [ task EXCEPT ![s].total = @ - Discount,
                                ![s].pc = IF task[s].method = "WALLET" THEN "wallet" ELSE "purchase" ]
  /\ MoneyUnchanged /\ UNCHANGED cart

BalanceCovers(s) == wallet[Customer(s)] >= task[s].total

\* The first statement of the transaction.  Prisma runs it at the database's
\* default isolation, so nothing keeps the balance from changing afterwards.
CheckoutReadWallet(s) ==
  /\ At(s, "wallet")
  /\ IF BalanceCovers(s) THEN Goto(s, "purchase") ELSE Finish(s)
  /\ MoneyUnchanged /\ UNCHANGED cart

\* The rest of the transaction, from the items that were read; the cart is
\* cleared of whatever it holds now.  A usage of a promotion that was removed
\* meanwhile breaks its foreign key, and nothing is written.  The increment of
\* usageCount is sent afterwards and nobody waits for it.
CheckoutPurchase(s) ==
  LET c == Customer(s)
      t == task[s]
      paid == t.method = "WALLET"
      usesPromo == t.promo # 0
      valid == usesPromo => promo.exists /\ t.promo = promo.id
  IN /\ At(s, "purchase")
     /\ \/ /\ ~valid
           /\ Finish(s)
           /\ UNCHANGED << cart, order, wallet, used, counting >>
        \/ /\ valid
           /\ \E o \in Orders :
                /\ IsNext(o, { p \in Orders : order[p].status = "none" })
                /\ order' = [ order EXCEPT ![o] =
                     [ status |-> "PENDING", customer |-> c, method |-> t.method,
                       payment |-> IF paid THEN "PAID" ELSE "PENDING",
                       total |-> t.total, refunds |-> 0 ] ]
                /\ used' = IF usesPromo THEN used \cup { o } ELSE used
                /\ IF t.method = "CARD"
                   THEN task' = [ task EXCEPT ![s] = [ IdleTask EXCEPT !.pc = "pay", !.order = o ] ]
                   ELSE Finish(s)
           /\ wallet' = IF paid THEN [ wallet EXCEPT ![c] = @ - t.total ] ELSE wallet
           /\ counting' = IF usesPromo THEN counting + 1 ELSE counting
           /\ cart' = [ cart EXCEPT ![c] = [ restaurant |-> NoRestaurant, items |-> NoItems ] ]
     /\ UNCHANGED << promo, charges >>

\* Mutant: an increment that was made is sent once more.
IncrementUsageAgain ==
  /\ counting > 0
  /\ promo' = IF promo.exists THEN [ promo EXCEPT !.count = @ + 1 ] ELSE promo
  /\ UNCHANGED << cart, order, wallet, used, counting, charges, task >>

\* PromotionsService.incrementUsage finds the promotion by its code.
IncrementUsage ==
  /\ counting > 0
  /\ counting' = counting - 1
  /\ promo' = IF promo.exists THEN [ promo EXCEPT !.count = @ + 1 ] ELSE promo
  /\ UNCHANGED << cart, order, wallet, used, charges, task >>

(***************************************************************************)
(* PromotionsService, as an administrator uses it                          *)
(***************************************************************************)
\* The code is unique.
CreatePromotion ==
  /\ ~promo.exists
  /\ promo.id < MaxPromotions
  /\ promo' = [ id |-> promo.id + 1, exists |-> TRUE, active |-> TRUE, count |-> 0 ]
  /\ UNCHANGED << cart, order, wallet, used, counting, charges, task >>

UpdatePromotion ==
  /\ promo.exists
  /\ promo' = [ promo EXCEPT !.active = ~@ ]
  /\ UNCHANGED << cart, order, wallet, used, counting, charges, task >>

\* The usages are deleted along with it.
RemovePromotion ==
  /\ promo.exists
  /\ promo' = [ promo EXCEPT !.exists = FALSE, !.active = FALSE, !.count = 0 ]
  /\ used' = {}
  /\ UNCHANGED << cart, order, wallet, counting, charges, task >>

(***************************************************************************)
(* PaymentsService.initiateFlexPayment                                     *)
(***************************************************************************)

\* POST orders/payment/initiate: whatever order is named, it is not compared with
\* the caller, its method, its status or its payment state.
InitiatePayment(s, o) ==
  /\ order[o].status # "none"
  /\ Begin(s, [ IdleTask EXCEPT !.pc = "pay", !.order = o ])
  /\ MoneyUnchanged /\ UNCHANGED cart

\* The provider authorizes and captures the total, declines, or captures it and
\* the answer is lost; every answer but AUTHORIZED ends the call.
ProviderAnswers(s) ==
  LET o == task[s].order
      capture == /\ charges[o] < MaxCharges
                 /\ charges' = [ charges EXCEPT ![o] = @ + 1 ]
  IN /\ At(s, "pay")
     /\ \/ capture /\ Goto(s, "paid")
        \/ UNCHANGED charges /\ Finish(s)
        \/ capture /\ Finish(s)
     /\ UNCHANGED << cart, order, wallet, promo, used, counting >>

PaymentWrite(s) ==
  /\ At(s, "paid")
  /\ order' = [ order EXCEPT ![task[s].order].payment = "PAID" ]
  /\ Finish(s)
  /\ UNCHANGED << cart, wallet, promo, used, counting, charges >>

(***************************************************************************)
(* OrdersService.cancelOrder                                               *)
(***************************************************************************)

cancellable == { "PENDING", "CONFIRMED" }

CancelRead(s, o) ==
  /\ order[o].customer = Customer(s)
  /\ order[o].status \in cancellable
  /\ Begin(s, [ IdleTask EXCEPT !.pc = "cancel", !.order = o, !.payment = order[o].payment ])
  /\ MoneyUnchanged /\ UNCHANGED cart

\* Mutant: there is a refund whatever the payment state.
CancelWriteAnyPayment(s) ==
  /\ At(s, "cancel")
  /\ order' = [ order EXCEPT ![task[s].order].status = "CANCELLED" ]
  /\ Goto(s, "refund")
  /\ UNCHANGED << cart, wallet, promo, used, counting, charges >>

\* Mutant: only what was paid from the wallet is refunded.
CancelWriteWalletOnly(s) ==
  /\ At(s, "cancel")
  /\ order' = [ order EXCEPT ![task[s].order].status = "CANCELLED" ]
  /\ IF order[task[s].order].method = "WALLET" /\ task[s].payment = "PAID"
     THEN Goto(s, "refund") ELSE Finish(s)
  /\ UNCHANGED << cart, wallet, promo, used, counting, charges >>

\* Whether there is a refund is decided by the payment state that was read.
CancelWrite(s) ==
  /\ At(s, "cancel")
  /\ order' = [ order EXCEPT ![task[s].order].status = "CANCELLED" ]
  /\ IF task[s].payment = "PAID" THEN Goto(s, "refund") ELSE Finish(s)
  /\ UNCHANGED << cart, wallet, promo, used, counting, charges >>

\* Mutant: only what was charged to a card comes back.
RefundCardsOnly(s) ==
  LET o == task[s].order
  IN /\ At(s, "refund")
     /\ wallet' = IF order[o].method = "CARD"
                  THEN [ wallet EXCEPT ![Customer(s)] = @ + order[o].total ] ELSE wallet
     /\ Goto(s, "refunded")
     /\ UNCHANGED << cart, order, promo, used, counting, charges >>

\* However the order was paid, the total goes into the wallet.
CancelRefund(s) ==
  LET o == task[s].order
  IN /\ At(s, "refund")
     /\ wallet' = [ wallet EXCEPT ![Customer(s)] = @ + order[o].total ]
     /\ Goto(s, "refunded")
     /\ UNCHANGED << cart, order, promo, used, counting, charges >>

CancelRefunded(s) ==
  /\ At(s, "refunded")
  /\ order' = [ order EXCEPT ![task[s].order].payment = "REFUNDED" ]
  /\ Goto(s, "entry")
  /\ UNCHANGED << cart, wallet, promo, used, counting, charges >>

CancelEntry(s) ==
  LET o == task[s].order
  IN /\ At(s, "entry")
     /\ order' = [ order EXCEPT ![o].refunds = @ + 1 ]
     /\ Finish(s)
     /\ UNCHANGED << cart, wallet, promo, used, counting, charges >>

(***************************************************************************)
(* The vendor                                                              *)
(***************************************************************************)

\* updateStatus as far as cancelOrder can meet it; the whole is in OrderSync.  It
\* reads the order and validates the status asked for; a PREPARING order stands for
\* one that is further on as well.
UpdateStatusRead(o, target) ==
  /\ order[o].status # "none"
  /\ target \notin updating[o]
  /\ \E role \in StaffRoles : validateTransition(order[o].status, target, role)
  /\ updating' = [ updating EXCEPT ![o] = @ \cup { target } ]
  /\ UNCHANGED << cart, order, wallet, promo, used, counting, charges, task >>

\* The status is written whatever the order's has become meanwhile.
UpdateStatusWrite(o, target) ==
  /\ target \in updating[o]
  /\ updating' = [ updating EXCEPT ![o] = @ \ { target } ]
  /\ order' = [ order EXCEPT ![o].status = target ]
  /\ UNCHANGED << cart, wallet, promo, used, counting, charges, task >>

(***************************************************************************)
(* The specification                                                       *)
(***************************************************************************)

\* A statement throws or the process stops: what was written stays written.
Fail(s) ==
  /\ task[s].pc \in FailingSteps
  /\ Finish(s)
  /\ MoneyUnchanged /\ UNCHANGED cart

LoseIncrement ==
  /\ counting > 0
  /\ "increment" \in FailingSteps
  /\ counting' = counting - 1
  /\ UNCHANGED << cart, order, wallet, promo, used, charges, task >>

CartNext ==
  /\ UNCHANGED << scenario, updating >>
  /\ \E s \in Slots :
       \/ "add" \in scenario.operations /\ \E d \in scenario.dishes : AddItem(s, d, 1)
       \/ AddReadCart(s) \/ AddAdopt(s) \/ AddPut(s)
       \/ /\ "edit" \in scenario.operations
          /\ \/ \E r \in Rows, operation \in RowOperations :
                  ReadRow(s, r, operation)
             \/ ReadRowAgain(s) \/ WriteRow(s) \/ DeleteRow(s) \/ CountRows(s)
             \/ ClearCart(s) \/ UnsetRestaurant(s)

CheckoutNext ==
  /\ UNCHANGED << scenario, updating >>
  /\ "checkout" \in scenario.operations
  /\ \E s \in Slots :
       \/ \E method \in Methods, withPromo \in BOOLEAN : CheckoutReadCart(s, method, withPromo)
       \/ CheckoutReadPromotion(s) \/ CheckoutReadUsages(s)
       \/ CheckoutReadWallet(s) \/ CheckoutPurchase(s)

PromotionNext ==
  /\ UNCHANGED << scenario, updating >>
  /\ "promotion" \in scenario.operations
  /\ IncrementUsage \/ LoseIncrement \/ CreatePromotion \/ UpdatePromotion \/ RemovePromotion

PaymentNext ==
  /\ UNCHANGED << scenario, updating >>
  /\ \E s \in Slots :
       \/ "initiate" \in scenario.operations /\ \E o \in Orders : InitiatePayment(s, o)
       \/ ProviderAnswers(s) \/ PaymentWrite(s)

CancelNext ==
  /\ UNCHANGED << scenario, updating >>
  /\ "cancel" \in scenario.operations
  /\ \E s \in Slots :
       \/ \E o \in Orders : CancelRead(s, o)
       \/ CancelWrite(s) \/ CancelRefund(s) \/ CancelRefunded(s) \/ CancelEntry(s)

VendorNext ==
  /\ UNCHANGED scenario
  /\ "vendor" \in scenario.operations
  /\ \E o \in Orders, target \in Targets : UpdateStatusRead(o, target) \/ UpdateStatusWrite(o, target)

Next ==
  \/ CartNext
  \/ CheckoutNext
  \/ PromotionNext
  \/ PaymentNext
  \/ CancelNext
  \/ VendorNext
  \/ UNCHANGED << scenario, updating >> /\ \E s \in Slots : Fail(s)

Spec == Init /\ [][Next]_vars

\* A call that has begun goes on: the process is not stopped for ever.
Continues(s) ==
  /\ UNCHANGED << scenario, updating >>
  /\ \/ AddReadCart(s) \/ AddAdopt(s) \/ AddPut(s) \/ ReadRowAgain(s) \/ WriteRow(s)
     \/ DeleteRow(s) \/ CountRows(s) \/ UnsetRestaurant(s)
     \/ CheckoutReadPromotion(s) \/ CheckoutReadUsages(s) \/ CheckoutReadWallet(s) \/ CheckoutPurchase(s)
     \/ ProviderAnswers(s) \/ PaymentWrite(s)
     \/ CancelWrite(s) \/ CancelRefund(s) \/ CancelRefunded(s) \/ CancelEntry(s)

FairSpec == Spec /\ \A s \in Slots : WF_vars(Continues(s))

(***************************************************************************)
(* Properties                                                              *)
(***************************************************************************)

\* The single-restaurant rule of the cart, which addItem enforces from a reading
\* and which removing, clearing and checking out must not undermine, wherever
\* one of them stops half way: every item is of the restaurant of the cart.
CartOfOneRestaurant ==
  \A c \in Customers : \A r \in Present(cart[c].items) :
    RestaurantOf[cart[c].items[r].dish] = cart[c].restaurant

\* What a customer paid from the wallet, got back into it, and is getting back.
Placed(c) == { o \in Orders : order[o].customer = c }

PaidFromWallet(c) ==
  SumFunctionOnSet([ o \in Orders |-> order[o].total ],
                   { o \in Placed(c) : order[o].status # "none" /\ order[o].method = "WALLET" })

Refunds(c) == SumFunctionOnSet([ o \in Orders |-> order[o].refunds * order[o].total ], Placed(c))

Entering(c) == { s \in Slots : Customer(s) = c /\ task[s].pc \in { "refunded", "entry" } }

RefundsEntering(c) == SumFunctionOnSet([ s \in Slots |-> order[task[s].order].total ], Entering(c))

\* The wallet of a customer is what it was, less the orders paid from it, plus the
\* refunds the ledger has an entry for or a call is about to enter.
WalletIsAccounted ==
  \A c \in Customers :
    wallet[c] + PaidFromWallet(c) = Opening + Refunds(c) + RefundsEntering(c)

\* No payment comes back twice: the ledger has no more refunds of an order than it
\* was paid from the wallet and off a card, for calls of one customer that follow one
\* another.  A status that was validated before a cancellation and written after it
\* brings the order back, and it can be paid and cancelled once more; each of its
\* refunds then has a payment of its own.
RefundedAsPaid ==
  \A o \in Orders :
    order[o].refunds <= charges[o] + (IF order[o].method = "WALLET" THEN 1 ELSE 0)

\* A customer uses a promotion no more often than userUsageLimit allows, whatever
\* other customers and administrators do while the usages are counted.
OncePerUser == \A c \in Customers : Cardinality(UsagesOf(c)) <= userUsageLimit

\* usageCount never runs ahead of the usages: a code is not refused as used up
\* before its usageLimit was used.  An increment finds the promotion by its code, and
\* may count for the next one of the code: this is about the first.
CountNeverAhead ==
  promo.exists /\ promo.id = 1 => promo.count + counting <= Cardinality(used)

\* A cancellation that found its order paid ends with the order refunded and the
\* refund in the ledger.
CancelledIsRefunded ==
  \A s \in Slots, o \in Orders :
    (At(s, "cancel") /\ task[s].order = o /\ task[s].payment = "PAID") ~> order[o].refunds > 0

\* The count of a promotion and the usages of its customers fit together.
PromotionInv == OncePerUser /\ CountNeverAhead

\* The state is of its kinds, and the wallets are accounted for.
WalletInv == TypeOK /\ WalletIsAccounted
=============================================================================

# Z-Speed backend: TLA+ models, checks and proofs

The repository is a NestJS server for food delivery and rides. Its state lives in PostgreSQL
(Prisma) and, for the mobile apps, a second time in Firestore; accounts are kept a third and a
fourth time by Supabase and Firebase Auth. Most of what can go wrong is between two steps:
between two awaits of one handler, between two handlers, or between two stores. The modules here
model that control, check it with TLC on small instances, and prove part of it with TLAPS for
every instance.

Source paths below are relative to the repository's server (`orders/...` is `src/orders/...`).

## 1. Inventory

| Component | State | Operations | Talks to |
|---|---|---|---|
| Order status rules (`orders/order-state-machine.service.ts`) | none | `canTransition`, `validateTransition`; the mappings in `firebase-sync.service.ts` | used by orders and the listener |
| Order row and Firestore mirror (`orders/orders.service.ts`, `orders/firebase-sync.service.ts`) | row: status, driver; document: status, driver, `syncedToPostgres` | `updateStatus`, `cancelOrder`, `handleDriverAcceptance`, `syncOrder`, `syncStatusFromFirebase`, `updateFirebaseOrderStatus` | `onSnapshot` callbacks, the apps that write documents, settlement |
| Settlement of delivered orders (`handleDelivered`, `handleOrderDeliveredInternal`) | wallets, ledger, driver debt, loyalty points | two settlements of a delivered order | started by `updateStatus` and by the listener |
| Driver matchmaking (`drivers/drivers.service.ts`, `requestDriver`, `tasks/tasks.service.ts`) | `delivery_requests`, Firestore offers, statistics | request, accept (HTTP or Firestore), reject, hourly expiry | order row, Firestore |
| Checkout, cart and promotions (`orders.service.ts: checkout`, `cart/`, `promotions/`) | cart, wallet, usages and counts of promotions | add, edit, clear, check out; create, switch, remove a promotion | payments, wallet |
| Payments and refunds (`payments/`, `cancelOrder`) | `paymentState`, wallet, REFUND entries | pay by wallet or card, the provider's answer, cancellation with its refund | orders, the provider |
| Wallet, ledger and payouts (`wallet/`, `superadmin/`, `admin/`) | wallet, ledger, approvals | payout request, approval, rejection, withdrawal, adjustment | documents of drivers |
| Driver's money mirror (`orders/firebase-sync.service.ts`, `prisma/prisma.service.ts`) | wallet and trips of a driver in rows and document | payments, copies of statistics, write hooks, listener, 12-hour job | settlement, rides, administrators |
| User synchronisation (`firebase/firebase-sync.service.ts`) | users as rows and documents | mirror, listener, bulk job with its bans | authentication, administrators |
| Restaurants, menus and their synchronisation (`restaurants/`, `food/`, both `firebase-sync.service.ts`, `admin/`) | restaurants, sections, items as rows and documents; a restaurant's status | create, update, delete; decide on a status; mirrors; two listeners of restaurants; pulling and reconciling jobs; comparison by an administrator | apps, Prisma extension |
| Rides (`transport/transport.service.ts`) | a ride as document and row | create, update, complete with payment, patch the row | driver's money |
| Authentication, OTP and sessions (`auth/`, `redis/redis.module.ts`) | tokens, credentials, the link `firebaseUid` | register, log in (password, social, OAuth), refresh, password, role, status, delete | user synchronisation |
| Onboarding, applications and vendor administration (`onboarding/`, `applications/`, `admin/`) | applications, roles, profiles, restaurants in both stores | submit, approve, reject, on three routes | Firestore |
| Notifications, realtime gateway and mail; uploads and storage; background queues; catalogue reads, categories, favourites, reviews; HTTP layer | none of interest | fire and forget, or single statements | |

Where the behaviour is hard, and what makes each component correct:

* **Order and mirror.** Handlers validate against a reading and write after an await; the
  server's own push comes back through the listener; callbacks may overlap; a push may fail and
  is not retried. Correct: the status only moves as the state machine allows; once nothing is
  outstanding both sides agree; they do not echo each other for ever.
* **Settlement.** Two implementations of one thing, one a chain of statements, one a
  transaction, both guarded by a ledger entry they write late. Correct: once per order,
  completely, debt and ledger in step, the debt limit respected.
* **Matchmaking.** Two channels of acceptance, a timeout job, checks before writes. Correct: the
  driver of the order has an accepted request; an accepted request has led to a driver; a driver
  is not replaced by a late answer; unanswered requests end.
* **Checkout and payments.** Cart, wallet and limits are checked in one statement and used in
  another; a refund is three statements; an increment of a counter is not awaited; a provider
  may take the money and its answer be lost. Correct: a cart is of one restaurant; what left a
  wallet is in orders and refunds; every refund has a payment of its own, also where a status that was
  validated early and written late brings a cancelled order back; a cancellation that found its
  order paid ends refunded; the limits of a promotion hold.
* **Payouts.** The wallet column and the ledger are two records of one amount, changed by users
  and administrators between each other's awaits; a decision is two statements. Correct: nothing
  leaves a wallet without an entry; decisions and entries agree; requests never overdraw.
* **Driver's money and rides.** One payment goes into two stores, which carry absolute values
  into each other by three further mechanisms while the payment is in progress. Correct: the two
  sides agree at rest, payments arrive, a ride pays once, and the row follows its ride.
* **Accounts.** Row, documents, Supabase and Firebase Auth are written by the person's devices,
  administrators, a listener and a job; tokens cannot be taken back; a listing may break off.
  Correct: the stores agree at rest; a ban, a role and a link stay; tokens of a banned person run
  out.
* **Menus.** Every write schedules an unordered, unretried mirror; apps write the other side;
  jobs decide from snapshots that grow old. Correct: the sides agree at rest, the last input
  stands, a lost mirror is repaired, nothing echoes for ever.
* **The status of a restaurant.** A decision writes row and document; the mirror of a row carries
  `isActive` but not the status; two listeners and two jobs of different classes carry the document
  back, one of them the status. Correct: the sides agree at rest, and the status decided last stands.
* **Applications.** A decision is up to eight statements in two stores, taken over three routes,
  one of which waits inside a transaction for its own locks. Correct: one restaurant per approval,
  every call ends.

## 2. Modules

| Module | Models | State corresponds to |
|---|---|---|
| `OrderStatus` | status vocabularies, state machine, the two mappings | (pure operators) |
| `OrderLifecycle` | abstract: an order starts PENDING and takes listed transitions only | `status` = the status of an order |
| `OrderSync` | one order as row and document | `row`, `doc`; `inbox` = versions Firestore has not delivered; `task` = HTTP calls and acceptances with the values they read; `handler` = listener callbacks in progress; `launched` counts settlements started |
| `Settlement` | both settlements of delivered orders | `paid` = credits per order and account; `ledger` = entries per order and kind; `driver` = debt and availability; `lock` = row locks of a transaction; `call` = settlements in progress with what they read |
| `Dispatch` | the requests for one order | `request` = rows; `offer`, `outbox`, `notices` = Firestore documents and what is on its way; `stats` = the driver's totals |
| `Payout` | payouts of one vendor, and what administrators take or give | `wallet` = `users.walletBalance`; `restaurant` = its two balances; `ledger`, `approval`; `recent` = payouts of the last 24 hours; `task` = calls in progress |
| `Checkout` | from the cart to a paid order and back | `cart`, `order`, `wallet`, `promo`, `used` = rows; `counting` = increments of `usageCount` on their way; `charges` = what the provider took (external); `task` = calls in progress |
| `Applications` | how a user becomes driver or vendor | `application`, `doc`, `restDoc` = Firestore; `row`, `profile`, `restaurant` = PostgreSQL; `task` = decisions in progress |
| `MenuSync` | restaurant, section and item in both stores | `rows`, `docs`; `mirrors` = writes on their way (a bag); `inbox` = versions per listener; `sync` = what a callback, job or administrator has read; `job`, `report` |
| `RestaurantStatus` | a restaurant's status and `isActive` in both stores | `sqlRow`, `document`; `owned` = whether the document names an owner with a row; `echoes` = mirrors on their way; `versions` = what each listener has not carried; `snapshot` = what a job has read; `deciding` = decisions between their two writes |
| `Accounts` | one person's account and tokens | `row`, `doc` per id, `supabase`, `auth`, `restaurant`; `access`, `refresh` = roles in valid tokens; `mirrors`, `inbox`, `callback`; `session`, `admin`, `job` = calls in progress |
| `DriverMirror` | a driver's wallet and trips, and a ride that pays into both | `sql`, `doc`; `mirrors`, `inbox`, `listener`, `job`; `calls` = requests in progress; `ride`, `entries` |
| `OrderProofs` | theorems about `OrderSync` and `Settlement` | |
| `RestaurantProofs` | theorems about `Applications`, `MenuSync` and `RestaurantStatus` | |
| `DispatchProofs`, `PayoutProofs`, `CheckoutProofs`, `AccountsProofs`, `DriverMirrorProofs` | theorems about the module they extend | |
| `DataTheorems` | lemmas about sums over finite sets, bags and sequences, for the proof modules | |
| `MCOrderSync`, `MCSettlement`, `MCDispatch`, `MCPayout`, `MCCheckout`, `MCApplications`, `MCMenuSync`, `MCRestaurantStatus`, `MCAccounts`, `MCDriverMirror` | instances for TLC | |

Every action is the code from one await to the next: Node runs that without interruption, and
anything may happen in between. What a handler keeps in local variables across an await is kept
in its slot (`task[t].target`, `handler[l].read`, `call[c].debt`, `sync[o]`), so stale readings
are visible. A Prisma transaction is one action where its isolation makes it one, and several
where it holds locks that others wait for. The modules with a variable `scenario` begin in any
member of a constant set of scenarios, which say what operations a behaviour has: one run
then covers several instances, each small enough to be explored.

**`OrderSync`**

| Action | Code |
|---|---|
| `UpdateStatusRead`, `UpdateStatusWrite` | `updateStatus`: read and validate; write unconditionally, start the settlement when DELIVERED |
| `PushStatus` | `updateFirebaseOrderStatus`, not awaited by `updateStatus`, awaited by an acceptance |
| `CancelOrderRead`, `CancelOrderWrite` | `cancelOrder`, which pushes nothing |
| `AcceptDelivery`, `AcceptanceCheck`, `AcceptanceAssign` | the `deliveryRequests` listener and `handleDriverAcceptance` |
| `AppWritesStatus`, `AppWritesDriver` | the mobile apps (external) |
| `Snapshot` | a callback of the `orders` listener begins |
| `SyncOrderUpsert`, `SyncOrderMark` | `syncOrder` |
| `SyncStatusRead`, `SyncStatusForce`, `SyncDriver` | `syncStatusFromFirebase` |

**`Settlement`.** The `Api...` actions are the statements of `handleDelivered` in their order; the
`Tx...` actions are the phases of the transaction in `handleOrderDeliveredInternal`: reading the
guard, taking the rows of order and restaurant (which other writers then wait for), reading the
driver, committing. `ApiFail` and `TxAbort` are a failure at one of `FailingSteps`. The amounts
of an order are fixed when it is placed, so an account is modelled by how often it was credited;
only the driver's debt is a number, because one path writes it from an earlier reading.

**`Dispatch`.** `Accept...`, `Reject...` are the statements of `acceptRequest` and `rejectRequest`;
`AppAccepts`, `FirebaseAcceptRead`, `FirebaseAssign`, `FirebaseOwn`, `FirebaseOthers` are an
acceptance through Firestore; `expireDeliveryRequests` is the hourly job; `OrderMovesOn` is the
rest of the order's life, as far as the acceptance asks for it.

**`Payout`.** `Request...` are the statements of `WalletService.requestPayout`, whose last is one
transaction; `ReadApproval`, `ExecuteLedger`, `ExecuteMark` and `ReadApproval`, `RejectRefund`,
`RejectMark` are `executeApproval` and `rejectApproval` for payouts; `ProcessPayoutRead` and
`ProcessPayoutWrite` are `AdminService.processPayout`; `AdjustWallet` is
`adjustWalletBalanceManually`; `Fail` stops a call before one of `FailingSteps`. `Balance` is
`getBalance`; signatures are taken to be valid. The reference id of an entry is unique
(`schema.prisma:758`): a write that repeats one is refused and changes nothing.

**`Checkout`.** `Add...`, `ReadRow`, `WriteRow`, `DeleteRow`, `CountRows`, `ClearCart` and
`UnsetRestaurant` are the statements of `CartService`; `Checkout...` those of
`OrdersService.checkout`: reading the cart and its promotion, and the transaction, whose comparison of
the wallet (`CheckoutReadWallet`) is a step before the rest (`CheckoutPurchase`), since it locks
nothing; `IncrementUsage` is the increment nobody awaits, and `CreatePromotion`,
`UpdatePromotion`, `RemovePromotion` the administrator; `InitiatePayment`, `ProviderAnswers` and
`PaymentWrite` are `PaymentsService`; `Cancel...` are `cancelOrder` with the three statements of its
refund; `UpdateStatusRead` and `UpdateStatusWrite` are `updateStatus`, which validates what it has
read and writes without looking again: a late one brings a cancelled order back. `Fail` stops a call before one of
`FailingSteps`, `LoseIncrement` loses an increment. A dish costs one unit; the number of rows of a
cart, quantities, charges and promotions are bounded by constants.

**`Applications`.** `FirebaseStep` is one statement of `approve`/`rejectFirebaseVendorApplication` or
`...DriverApplication`; `RowStep` one of `approve`/`rejectDriver`, `approve`/`rejectRestaurant` or
`updateVendorStatus`; `OnboardingStep` one of `OnboardingService`, whose transaction calls
`syncToFirebase` in its middle (`SyncToFirebase`), which waits for rows the transaction holds until
`ApprovalTimesOut`; what was called goes on all the same (`LateLink`) while the transaction is
rolled back, or else `CommitApproval` commits. An applicant of the app is linked to a row or not yet,
in which case a decision finds no row, and for a vendor creates no restaurant. The mirrors of
`users` and `restaurants` and the listeners and jobs that carry roles and statuses back are not in
this module, and it claims nothing about the role or status a user ends up with: `Accounts` has
these writers for an account, `RestaurantStatus` for a restaurant.

**`MenuSync`.** `Create...`, `Update...`, `Delete...` are the calls of the services; `MirrorResolve`,
`MirrorWrite`, `MirrorLost` the Prisma extension; `AppSet`, `AppRemove` the apps (external);
`Called`, `Changed`, `SyncWrite`, `CleanItems` the listeners; `JobStart`, `JobRows`, `JobNext`,
`JobAdvance` the pulling and the reconciling job; `CompareVendorSync`, `AdminPush`, `PullSection`,
`PullItem`, `AdminWrite`, `AdminRemove` the comparison of an administrator and what it offers;
`Restart` forgets mirrors, callbacks, job and undelivered versions. The content of an object is
one value, which stands for the fields that mirrors, pushes, listeners and pulls all carry; it is
not the status or wallet of a restaurant, nor what an administrator's pull leaves out (`nameAr` and
`sortOrder` of a section, variants and images of an item). A section deleted in PostgreSQL takes its
items along, in Firestore it does not. `JobRows` reads the three lists of either side at once.

**`RestaurantStatus`.** `DecideRow`, `DecideDocument` and `DecideFails` are `approveRestaurant`,
`rejectRestaurant` and `updateVendorStatus` of `AdminService`: row first, then the document, whose
failure is logged only. `OtherUpdate` is any statement about other fields of the row; `EchoWrites` and
`EchoLost` are the mirror, in any order, with the values of its statement. `Carry` is a callback of
`syncRestaurant` (`orders/firebase-sync.service.ts`) or of `syncRestaurantToPostgres`
(`firebase/firebase-sync.service.ts`), `CarryFails` one that throws; `JobReads`, `JobWrites` are the two
classes' jobs; `AppPuts` is an app (external), `StatusRestart` a restart.

**`Accounts`.** `Start` begins a call of a device (`EmailRegister`, `EmailLogin`, `SocialSignIn`,
`HandleOAuthCallback`, `RefreshToken`, `GetCurrentUser`, `FirebaseSyncPassword`), `Continue` is its
next statement: `RegisterCreate` and `RegisterLink`, `FindUser`, `CreateFound`, `UpdateFound`,
`CheckBan`, `IssueTokens`, and then `ResolveId`, `LinkRow`, `WriteUsersDoc` of
`syncAndGetFirebaseToken`, which moves the link of the row and writes the document. `Decide` is an
administrator (`UpdateUserStatus`, whose two statements are `StatusToRow` and `StatusToDoc`,
`UpdateUserRole`, `UpdateProfile`, `DeleteUser`) or an app (`AppSet`, `AppRemove`, external).
`MirrorWrite` is the Prisma extension, `Called` and `SyncUserToPostgres` the listener; `JobStart`,
`JobRead`, `JobWrite`, `JobList`, `JobBan` are `syncAllData` with its two listings and the ban of
whom it did not see; `AccessExpires` and `RefreshExpires` are time; `MirrorLost`, `Restart` and a
listing that breaks off are the faults.

**`DriverMirror`.** `UpdateRide`, `ReadRide`, `CreditDoc...`, `AddEntry`, `CreditUser`,
`CreditProfile...`, `WriteRow`, `WriteRide` are the statements of `updateRideGateway`; `PatchRide`
the update of the row alone; `AdjustWallet`, `HandleDelivered` with `EarnTrip`, and `SettleOrder`
with `Commit` the other payments, each with its own copy into the document (`ReadStats`,
`WriteStats`); `UpdateProfile` and `Ping` write the profile's row or the document without paying;
`MirrorTrips` is the extension, `SyncDriverUser`/`SyncDriverProfile` the two halves of the listener,
`Job...` the 12-hour job. `SetWallet`, `SetFields` are `updateProfile` when it names a wallet: it goes
into the user's row, the rest into the profile's. A ride may be created with a driver. `StepFails` ends a call, `StepLogged` logs a failed payment and goes on,
`MirrorLost` and `Restart` are the other faults.

## 3. Runs

A run checks few formulas; where several parts say one thing they are conjuncts of one definition:
`SettlementInv` (`SettlementTypeOK`, `GuardMeansSettled`, `PointsForSettlements`), `DispatchInv` (`TypeOK`,
`AssignedDriverAccepted`, `AcceptanceAssigns`, `RateIsCurrent`), `ApplicationsInv` (`TypeOK`,
`OneRestaurantIfApproved`), `DecisionsEnd` (`CallsEnd`, `DecisionReachesRow`), `WalletInv` (`TypeOK`,
`WalletIsAccounted`), `PromotionInv` (`OncePerUser`, `CountNeverAhead`), `MenuInv`
(`MenuTypeOK`, `Converged`), `StandingInv` (`StatusTypeOK`, `StandingAgrees`), `AccountsInv` (`TypeOK`, `Converged`), `TokensRunOut` (`BannedLosesAccess`, `TokensFollowRole`), `MirrorInv`
(`TypeOK`, `WalletsAgree`), `PaymentsArrive` (`CreditsArrive`, `TripsCounted`), `EventuallyAtRest`
(`EventuallyQuiet`, `EventuallyAgree`), and `EventuallySettled` of `MenuSync` (`EventuallyAgree`,
`EventuallyMenuQuiet`).

| Run | Checks | Shows |
|---|---|---|
| `order_sync` | `TypeOK`, `Converged`, `DriverConverged`, `EventuallyQuiet`, `ImplementsLifecycle` | from the creation of an app order on, two concurrent calls, all kinds of app writes: the two sides come to rest, and when nothing is outstanding row and document agree; pushes that fail and cancellations, with which they still come to rest; refinement of `OrderLifecycle` for an API order with one request at a time, whatever becomes of its pushes |
| `settle_serial` | `SettledOnce`, `DebtIsInLedger`, `SuspendedAtLimit` | settlements one after the other, through both paths, with harmless failures |
| `settle_overlap` | `OwnerEntriesBackCredits`, `SettlementInv`, `EventuallySettled` | what survives when settlements overlap |
| `settle_twice` | `SettledOnce` violated | the guard does not stop a second settlement that overlaps |
| `dispatch_answers` | `DispatchInv`, `LateAcceptanceRejected`, `ForgottenRequestsExpire` | acceptances over both channels in every interleaving, and answers with rejections one at a time |
| `payout_decisions` | `TypeOK`, `MoneyIsAccounted`, `OnePayoutPerDay`, `OverdrawnOnlyByAdmins`, `DecisionInLedger` | a user and an administrator at work at the same time, failures between steps |
| `checkout` | `CartOfOneRestaurant`, `WalletInv`, `RefundedAsPaid`, `PromotionInv`, `CancelledIsRefunded` | a customer's calls, one after the other, while the provider and an administrator do what they like, changes of status are written long after they were validated, and calls stop half way |
| `applications` | `ApplicationsInv`, `DecisionsEnd` | decisions over all three routes, taken again and again, with failures; the approval that waits for its own locks ends |
| `menu_sync` | `MenuInv`, `LastInputWins`, `EventuallySettled` | overlapping calls and app writes, lost mirrors, restarts, an administrator with an old comparison, both jobs |
| `restaurant_status` | `StandingInv`, `DecisionStands` | two administrators, an app, other statements, both listeners and both jobs in every interleaving, with a fault: the status put last stands although no mirror carries it |
| `accounts` | `AccountsInv`, `LastInputWins`, `EventuallyAgree`, `TokensRunOut` | sign-ins and refreshes without end against a ban, a change of role, an app write, a lost mirror, a restart, a partial listing and the job |
| `driver_mirror` | `MirrorInv`, `PaymentsArrive`, `RidesPayOnce`, `RowFollowsRide`, `EventuallyAtRest` | payments of rides, orders and administrators against mirrors, the listener and the job that carry absolute values, with faults |

`settle_twice` is a disagreement between the code and a comment of the repository (`SettledOnce` is
what the comment on the guard promises); it is quoted in `PROJECT.json` under `findings`.

**What the code does and no run is about.** Met while modelling; most show up in the modules with
other constants or a property without its condition:

* Two `updateStatus` calls that overlap let the second leave DELIVERED or CANCELLED
  (`orders.service.ts:533`; the tests of the state machine call both final). An order cancelled and
  refunded in between can then be paid, cancelled and refunded again: twice refunded, but twice
  paid (`Checkout`, `RefundedAsPaid`).
* `updateVendorStatus` with PENDING_VERIFICATION is read back as ACTIVE from the document by the second
  listener, which knows only "pending" (`firebase/firebase-sync.service.ts:361`); and a mirror of
  `isActive` that arrives after a suspension leaves a restaurant SUSPENDED and active on both sides.
* PICKED_UP is pushed as `pending`, and carried back as PENDING (`firebase-sync.service.ts:1608`).
* A document that is already `delivered` when `syncOrder` first carries it is never settled
  (`firebase-sync.service.ts:655`, next to `:639`, which settles the others).
* A rejected payout is refunded, yet its entry counts against `getBalance` for ever
  (`wallet.service.ts:31`), and the comparison of wallet and ledger then refuses every later request.
  The same comparison locks a driver out after an order settled by the listener, whose EARNING
  entry stays `pending` while the wallet is credited (`Settlement`: `driverPending`).
* A payment of a driver may count its trip twice, and the mirror of a trip or a ping of the
  location can carry the wallet of before a credit back into the row. The copy made in the
  settlement's transaction may read before the commit (`firebase-sync.service.ts:1532`).
* Completions of a ride that overlap, and the retry of one that failed halfway, pay twice. An update
  that names a driver never reaches the row, because a foreign key refuses the id
  (`transport.service.ts:308`); one that names no status makes the row CANCELLED (`:306`).
* `usageLimit` itself can be exceeded by customers who overlap (`promotions.service.ts:71`), and the
  second promotion of a code can get a count too many from an order of the first (`:112`).
* The comparison of an administrator offers two actions for a section that differs which the call
  that resolves them does not know (`admin.service.ts:2506`).

**Bounds.**

* `OrderSync`: three scenarios, whose `inputs` bound calls, acceptances and app writes: three let two calls race with an
  app write between them, and eight walk an API order through its whole life. Two task slots and
  two drivers are enough for every race over one order, because each handler interferes with
  another only through one row and one document.
* `Settlement`: `MaxStarts` bounds the settlements: two orders with two to four starts give every pair
  of settlements of the same and of different orders. The debts (60 each, limit 100) are such that
  only two orders together reach the limit.
* `Dispatch` needs no counter: a request row is created once and rejected at most once. Its three
  scenarios differ in who answers and whether answers overlap.
* `Payout` is bounded by its reference ids: three requests (one to be approved, one rejected, one
  under way), one withdrawal and one adjustment, over a wallet of two with amounts of one and two,
  so that a second request may or may not be covered.
* `Checkout`: three dishes of two restaurants (so that a cart could be mixed), two cart rows, two
  orders (the second tries the promotion again), a wallet of three that covers one order and
  perhaps a second, promotions made twice under a code (`MaxPromotions`), one charge per order and one unit
  per row (`MaxCharges`, `MaxQuantity`). Five scenarios combine the operations that touch the same
  rows; editing the cart with a promotion, for instance, adds nothing, because the promotion reads
  only the total. `Targets` are CONFIRMED and CANCELLED, one status an order can be cancelled from and
  cancelled itself.
* `Applications`: one user of each kind in turn and two administrators. A user has at most one
  restaurant application.
* `MenuSync`: one restaurant, one section, one item, two contents: objects of one kind do not
  interact, a parent and its child do. Eight scenarios with up to three inputs, at most one fault and
  at most one job that starts early (`rushed`); in two of them what the app creates comes before the
  row above it is there.
* `RestaurantStatus`: one restaurant, two administrators with three statuses between them, which the
  second listener reads back as ACTIVE, SUSPENDED and (wrongly) ACTIVE; an app that writes "pending".
  `MaxMoves` of three lets a decision meet another, or an app write and a job; one fault.
* `Accounts`: one person, three document ids, one device. Fourteen scenarios with up to two
  decisions and one fault; `behind` bounds what is on its way when a call starts, so that endless
  refreshing does not pile up mirrors.
* `DriverMirror`: one driver, one ride, two calls; payments of one unit. Eight scenarios, whose
  `pace` says whether an input waits for everything to be quiet, for the call before it, or for nothing.
* A listener has at most one callback per document in progress (in `OrderSync` as many as `Listeners`).

`CHECK_DEADLOCK FALSE` is set everywhere because the systems may stop: nobody has to call, and the
bounded inputs run out.

**What the passing runs assume.** Each of these is needed; without it the property named fails.

* `order_sync`: `Converged` and `DriverConverged` are about a scenario (`Convergent`) that lets neither
  callbacks overlap nor pushes fail nor orders be cancelled over HTTP: each of the three breaks
  `Converged`. `ImplementsLifecycle` is about `Serial` scenarios: with two requests at a time an order
  can leave DELIVERED. `Snapshot` delivers every version in order; Firestore may merge versions, which
  only removes callbacks.
* `settle_serial` lets the API path fail only before its first credit and at the award of points: a
  failure in between leaves the order half settled, with a guard that refuses to finish it.
* `dispatch_answers` leaves `rejectRequest` out of `AssignedDriverAccepted`: a driver who carries an
  order may reject the request afterwards, which the code does not forbid.
* `payout_decisions` has one slot for the user and one for administrators: two requests that overlap
  break `OnePayoutPerDay`, two decisions that overlap break `MoneyIsAccounted`. Every step may fail
  except the marking of a rejected approval, after which the same approval can be rejected, and
  refunded, again.
* `checkout` has one call of a customer at a time (`Lanes`): an item added during a checkout may stay
  in a cart without a restaurant, and two checkouts may overdraw the wallet. No call stops between the
  statements of a refund: the order would stay CANCELLED and unrefunded. `CountNeverAhead` is about the
  first promotion of a code.
* `applications` lets calls about one applicant overlap for onboarding only: two administrators who
  approve one vendor make two restaurants. A Firestore decision may stop before its mark and during
  best-effort writes; between the mark and the role it would leave an approved application that
  cannot be decided again, and `DecisionReachesRow` fails. That speaks of linked applicants only.
* `restaurant_status`: `DecisionStands` is about a decision or app write that no other decision ran
  into, and both properties about a document that was written since something last failed. No removal,
  and none of the statements that schedule no mirror (section 6).
* `menu_sync`: `Converged` is about behaviours without faults and without the pull of an administrator.
  It leaves out an item, or a section of a new restaurant, whose document came before the row
  above it: its listener drops it, and it lacks its row until a job comes by.
  `LastInputWins` is about inputs that follow one another when everything is quiet.
* `accounts`: `LastInputWins` speaks of a field as long as nothing on its way or a second document
  could overlap with the last change of it (`sure`): a link counts when nothing else is under way, no
  other call either; role and status do until a call writes a row that has not got them yet, whose
  mirror then overtakes them. `BannedLosesAccess` leaves out the sign-in over
  OAuth, which does not look at the status.
* `driver_mirror`: `PaymentsArrive` is about inputs that wait for quiet in scenarios without the
  12-hour job (which may read the document between an adjustment and its copy, and carry the old
  wallet back over the payment) and without `setwallet` (a profile that is updated with a wallet
  and other fields: the mirror of the latter may carry the old wallet back), `RidesPayOnce` and
  `RowFollowsRide` about updates that do not overlap, all three without faults; `WalletsAgree` and
  `EventuallyAtRest` about everything.

**Fairness.** A handler that was started goes on: weak fairness of each slot's next step, since the
event loop resumes every continuation, Firestore delivers what it has, and `setImmediate` runs.
Settlements and applications have strong fairness, since a step that waits for a row lock is
enabled and disabled as others take it, and PostgreSQL queues the waiters. Time passes, tokens
expire, and the scheduled jobs run (weak fairness; strong in `Accounts`, where the scheduler starts
the job whatever goes on, but the bounded model only lets it start in some states). Nothing is
assumed of users, apps, vendors, administrators or providers, and no fault ever has to happen.

**Mutants.** Operators commented "Mutant" are the forms a plausible slip would give a definition (a
dropped guard, a forgotten flag, a stale value, a swapped order); `PROJECT.json` pairs each with the
property that notices it. Nothing else uses them.

## 4. Proofs

TLC checks the instances above; the theorems hold for every value of the constants that satisfies
the module's assumption. Each proof states an inductive invariant, proves it preserved with one
step per action, and ends in PTL.

`OrderProofs` about `OrderSync`, for any number of drivers, task slots, callbacks and inputs:

* `TypeCorrect`: `Spec => []TypeOK`.
* `Convergence`, `DriverConvergence`: `Converged` and `DriverConverged`. In a scenario that is
  `Convergent` (the order has a document, writes to it do not fail, it is not cancelled over HTTP,
  callbacks do not overlap) row and document agree whenever the system is quiet. Quiet agreement is not inductive. `ConvergenceInv` adds that as long as the
  two sides differ something is outstanding that will bring them together (a push, a snapshot or the
  callback that handles it), and that the last snapshot outstanding shows the document as it is:
  this is what a callback relies on that forces an old reading.
* `Refinement`: an API order whose requests do not overlap implements `OrderLifecycle`. `SerialInv`
  says that there is one request at most, and what it has read is still true when it writes.

`OrderProofs` about `Settlement`, for any number of orders, restaurants and settlements through either path:

* `SettlementTypes`: `SettlementSpec => []SettlementTypeOK`.
* `OwnerCredits`: if the entry of the owner does not fail, every credit to an owner has its entry,
  but for the settlements about to write it. `OwnerInv` says how many those are: `Count(o, Dues)` is
  the number of settlements of `o` at one of the steps `Dues`, and `CountStep` says how one step
  changes it.
* `SettlementSafe`: if no settlement stops between its first credit and its last step
  (`HarmlessFailures`), an order the guard takes for settled has paid everyone and was awarded its
  points, even when settlements overlapped. `Books` writes every account as what the owner's entries
  say plus what settlements in progress still owe; `SplitInv` adds that the shares are saved first.
* `SettledAtMostOnce`: with one settlement at a time (`OneCall`) and no failure at the two statements
  whose credit the guard cannot see, an order is settled once. `OnceInv` says an order has entries or
  nothing, `Stage` what the settlement in progress has still to write. `settle_twice` shows that
  `OneCall` is needed.
* `DebtBacked`: the debt is the sum of its entries, for settlements of the listener that overlap, or
  one settlement at a time over both paths (`Apart`: `handleDelivered` writes the debt from an earlier
  reading), when none stops between the debt and its entry. `DebtInv` adds the debt of the settlement
  that has raised it and not written its entry.
* `LimitSuspends`: the action property `SuspendedAtLimit`, for API settlements that overlap or one
  settlement at a time (`ReadsCurrent`: the transaction compares the debt it has read, not the one it
  leaves). `LimitInv` says a transaction about to commit has read the present debt.

`DispatchProofs`, for any number of drivers, requests, tasks and scenarios:

* `TypeCorrect`: `Spec => []TypeOK`. `RowsFit` and `TasksFit` add that a row has a driver once it is
  there, and an answer the driver of its row.
* `DispatchSafe`: `DispatchInv`. `AcceptInv` adds who is offered the order has a row, nobody is
  accepted but for a call about to assign the order, and the driver of the order is accepted but for
  the call about to write it; `RateInv` that a rejection missing from the rate is that of the call
  about to write it, which holds the totals as they are, when answers do not overlap (`OneAtATime`).
* `LateAcceptance`: the action property `LateAcceptanceRejected`, from `LateInv`: an acceptance about
  to write the driver still finds the order without one.

`PayoutProofs`, for any number of requests, withdrawals, adjustments and amounts, whichever steps
fail:

* `TypeCorrect`: `Spec => []TypeOK`. `TasksFit` is the strengthening: a call in progress works on an
  entry of its kind, without which a decision might be about a withdrawal.
* `PayoutPerDay`: with one request at a time `OnePayoutPerDay` holds. `DayInv` adds that a request
  about to create its payout saw none of the last day, and none was created since.
* `DecisionsAgree`: with one administrator at a time `DecisionInLedger` holds, even if a decision
  stops halfway and is then taken the other way. `DecisionInv` adds that whoever is deciding still
  finds the approval PENDING.
* `RequestsNeverOverdraw`: `OverdrawnOnlyByAdmins` with one request at a time (`OneUser`) and any
  number of administrators. What a request compares (`wallet`, `getBalance`) may have fallen when it
  deducts, so its comparison alone is not enough. `CoverInv` says that the wallet is never behind
  `getBalance`, and that what would be left without the deductions of administrators covers the
  request that has passed its check. Only `RequestBatch` lowers that remainder; every other step
  keeps it (`MoneyKept`).
* `MoneyAccounted`: `MoneyIsAccounted` with one administrator at a time, however many requests
  overlap, if the marking of a rejected approval does not fail. `MoneyInv` adds that an approval that
  can still be decided has no rejected entry, except while its refusal is being marked.

`LedgerInv` gives both their signs: what is no entry has no amount, a request's is not positive.
`NaturalAmounts` (the amounts an administrator enters are not negative) is a hypothesis because
`processPayout` looks at no sign (`admin.service.ts:1780`).

`CheckoutProofs`, for any number of customers, dishes, rows, orders and limits. The first three hold
whichever steps fail, if the calls of one customer follow one another (`OneCallAtATime`):

* `SingleRestaurant`: a cart has dishes of one restaurant. `CartInv` adds what a call knows between
  its statements: the cart is the restaurant's of the dish it is about to put, and empty when it is
  about to unset the restaurant.
* `RefundsArePaid`: `RefundedAsPaid`, whatever the provider answers and however late a status is
  written. An order may be cancelled more than once, so the invariant counts: `Budget` says that the
  refunds in the ledger, the PAID in the row that can still be refunded, and the calls that hold a payment
  not yet in the row or a refund not yet in the ledger (`Claims`) together are no more than what was
  paid. It needs that one customer's calls do not overlap: two cancellations that both read PAID
  refund one payment twice.
* `PromotionLimits`: `PromotionInv`. `UsageInv` adds that a call that passed the limit still has a use
  left, and that promotions that are gone have no usages.
* `WalletsAccounted`: `WalletInv` (types and `WalletIsAccounted`), for calls that overlap as they
  like: a wallet that two checkouts overdraw is still accounted for. Needed is `RefundsAreEntered`, no
  failure between a refund and its entry, which would leave money in the wallet that nothing
  accounts for. `WalletsInv` adds that an order not yet placed has no refunds, and that whoever
  cancels an order has placed it. Each action is shown to move the sums of one customer by what it
  moves that customer's wallet by.

`RestaurantProofs` about `Applications`, for any number of users and administrators:

* `OneRestaurant`: `ApplicationsInv`, if two decisions about one vendor do not overlap: whichever
  route they take, wherever they stop, and whatever overlaps about other users.

`ApplicantInv` says, for every user whose calls do not overlap, what a call knows at each of its
steps: nothing was written before the decision was marked, the decision is the one it carries, and
only a call that is the first about its application is about to create a restaurant. It is proved per
user: every action writes to one user only (`Writes`), so another user's part is untouched.

`RestaurantProofs` about `MenuSync`, for any number of restaurants, sections and items, any scenarios
and any number of calls, app writes, jobs and faults:

* `MenuAgrees`: `MenuInv`. `FlightInv` says that the last version on its way to the listener is the
  document as it is. `CarryInv` says that where row and document differ a mirror, a version or a callback
  is on its way that makes them equal, and what this rests on: no row without the row above it
  (`ForeignKeys`), no restaurant deleted, and no administrator about to write what it has read.
* `LastStands`: `LastInputWins`, for inputs each of which found everything settled. `ArriveInv` says of
  everything on its way (mirror, version, callback, clean-up, job, the administrator's writes) that
  it carries what the last input expects, and of every row and document that is not yet as expected which
  of them will make it so.

`RestaurantProofs` about `RestaurantStatus`, for any number of administrators, statuses, moves and
faults, without further hypothesis:

* `StandingFollows`: `StandingInv`. `LastIsDocument` says that the last version a listener has not
  carried is the document as it is, `RowFollows` what a listener that has carried everything has made of
  the row: of `isActive` only once the other listener, which writes it too, has carried everything as well.
* `DecisionsStand`: `DecisionStands`. `DecidedAlone` says that a decision nothing ran into is the only
  one in progress, or what the document (of a known owner) or the row already says.

`DriverMirrorProofs`, for any scenarios, any number of calls, inputs and updates, without further
hypothesis; the conditions of each property are its own:

* `RowsAgree`: `MirrorInv`. Agreement in quiet is not inductive: `CarryInv` says that the last version
  on its way is the document as it is, and that rows that differ from the document have a version to
  come: a mirror, a call or the job that will still write it, or one in the inbox. A settlement whose copy
  precedes its commit has such a version too, since the listener waits for the rows it holds.
* `RideEntries`, `RideRows`: `RidesPayOnce` and `RowFollowsRide`. `RideInv` says what an update of the
  ride has done at each of its steps (`RideCall`) and what is true between updates (`RideRests`); for
  these there is one call at the ride at most.
* `PaymentsInDocument`: `PaymentsArrive`. `WalletInv` says that the wallet of the document is what was
  paid, one more while a ride has paid into it and not become completed, and that the copy of an
  adjustment has no older version behind it. `TripsInv` follows a trip: it is in the document, or on its
  way there (in a mirror, or a version) with nothing behind it that would take it back.

`AccountsProofs`, for any number of sessions, any scenarios and any number of decisions and faults:

* `TypeCorrect`: `Spec => []TypeOK`. `TypeInv` adds that a sign-in has a Supabase account before it
  looks for the row, and that a call has resolved an id before it links.
* `AccountsAgree`: `AccountsInv`. `CarriedInv` says that the last version on its way is the document
  as it is, and that row and document agree or something is still on its way that carries a document
  into the row (`Pending`: a mirror, a version, a callback that found the row). Of the
  actions only four ways of stepping matter: a mirrored write of the row, a write of a document, a
  step that changes neither, and the few that are treated one by one (`Plain`, `Others`).
* `LastStays`: `LastInputWins`. `KnownInv` holds whatever happened (a call past its lookup has a row, a
  document that is not there has no status). The rest is one invariant per field, each as long as the
  field is in `sure`. `RoleInv`: every mirror, version and snapshot carries the role expected, and a row
  or document without it has one of these to come. `LinkInv`: whatever would link the row goes to the
  document expected, unless a call is between resolving the id and linking. `StatusInv`: an old
  status in a document is replaced by the administrator's call or by a mirror, one in the row by a version,
  and a removal finds the row it is about. `Form` names what a step is to these three; `StepForm`
  shows that every action has one of these forms.

`DataTheorems` has what the sums of `Payout`, `Settlement` and `Checkout` need, and what is in a bag
or a sequence after one element more or less. The sums are the `SumFunctionOnSet` of the community modules, a recursive function over the subsets of a set. The
library states induction with an operator as a parameter, which no installed prover can
instantiate; here the induction is over a set of subsets, a member of which is minimal
(`MinimalSubset`, from the well-foundedness of inclusion). From it follow the type of a sum, what a
sum is when one element is added or one value changes, and that sums of equal functions are equal.

Model-checked only: the liveness properties, `CancelledIsRefunded` among them (fairness and ENABLED
are outside the prover's reach). Every safety invariant and action property the passing runs check is a
theorem. No module uses a RECURSIVE operator.

## 5. Plan

1. `Payout`: `reviewLedgerTransaction` (transitions that move no money, entries signed without their
   order); composed with the entries `Settlement` and `Checkout` write.
2. `Checkout`: redemption of loyalty points, which checks and decrements in two statements; discounts
   that exceed the subtotal (`promotions.service.ts:100`); disputes.
3. `Sessions`: one-time codes, and the fallback of Redis to a map per process
   (`redis.module.ts:160`), which another process does not see and a restart forgets.
4. `OrderSync`: the creation of the customer and the restaurant for a document nobody knows, and the
   reconciliation at 04:00.

## 6. Not modelled

* Other writers of what a module keeps, left out of it, each of which its properties therefore say
  nothing about:
  * `Checkout`: the listener's writes of an order's status (in `OrderSync`), `syncOrder`'s
    `paymentState` (`orders/firebase-sync.service.ts:661`), and `handlePaymentCallback`
    (`orders.service.ts:816`), which no controller calls.
  * `Applications`: the mirrors of `users` and `restaurants` (`prisma.service.ts:112`), which are sent
    before a transaction commits and also when it is rolled back, and the listeners and jobs of
    `firebase/firebase-sync.service.ts:134-424`, which carry roles and statuses of documents into
    rows, whether profile or restaurant was made or not. So a decision that stops halfway may still
    give the role, and a late version may undo one.
  * `RestaurantStatus`: statements that write a status without a mirror (`updateMany` in
    `OnboardingService`, `onboarding.service.ts:124` and `:166`, and in
    `rejectFirebaseVendorApplication`, `admin.service.ts:1240`), removals of documents and superadmin
    deletions (INACTIVE), and `syncToFirebase` of onboarding, which makes the row's id the owner of the
    document. `RestaurantsService` can approve, reject and suspend as well, in the row alone; nothing
    calls these. The callbacks of one listener are taken one at a time.
  * `Payout` and `Settlement`: the second listener writes a restaurant's `walletBalance` from its
    document (`firebase/firebase-sync.service.ts:412`), where only `syncWalletBalanceToFirebase`
    (`admin.service.ts:2377`) puts it; what a settlement has credited since is then overwritten.
  * `MenuSync`: the second listener and job of restaurants, which write what the first ones do in the
    fields it is about; creation of rows by them.
* Of modelled components: the geographic search for drivers, prices, fees and add-ons (fixed data as
  far as the properties go); the pages of the payment providers; the nightly reconciliation of
  wallets (it reports and changes nothing); custom claims, phones and device tokens
  (`auth.service.ts:921` reads the list of tokens and writes it back); the documents of an applicant
  and their review; variants of an item on their own.
* Hazards that follow from these and have no property: two redemptions of loyalty points that overlap
  (`loyalty.service.ts:24`); an order made for a restaurant that is never compared with that of the
  cart (`orders.service.ts:211`); a provider's answer that is lost after the money is captured, which
  nothing asks for again (`payments.service.ts:104`; `Checkout` has the case, and the money stays
  with the provider).
* The content of notifications, uploads, mail, statistics and catalogue reads, and the HTTP layer,
  whose only trace is the set of roles a route lets through. `PROJECT.json` gives the reason for each
  component.

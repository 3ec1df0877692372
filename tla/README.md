# Verification of the Telegram shop

TLA+ models of the shop's backend (`src/backend/app`), the TLC runs that check
them on small instances and the proofs that TLAPS checks for every instance.
The backend is a FastAPI application over PostgreSQL and Redis, with polling
workers in processes of their own. Nearly everything that can go wrong and that
a unit test hardly reaches lies between two transactions: rows read before a
lock and used after it, commits in an order nobody planned, leases that run out,
a process that dies between two steps. The models keep exactly this control and
reduce names, prices and texts to small sets.

## Inventory

| Component | State | Operations | What is hard | What makes it correct |
|---|---|---|---|---|
| Orders (`orders/`) | orders, items, `order_number_seq` | checkout, `update_order_status` | the cart is locked, variants are read first and locked later; the status endpoint reads the payment unlocked | a cart is bought once; no sale beyond stock; an unpaid order stays NEW |
| Manual payments (`manual_payments/`) | one payment per order, `expires_at`, `stock_released_at` | submit, receipt, approve, reject, expire, worker | five actors race for one payment; payment and order are locked in two steps; the worker works from a stale list; receipt files that no transaction covers | units return exactly once; a settled payment is final; every payment settles; the receipt's file is there |
| Products (`products/`) | variants with stock and reserved units, catalogue | seller edits, search | the edit reads unlocked and writes absolute values | CHECK constraints; no unit lost except by a recount |
| Cart and Looks (`cart/`, `looks/`) | cart items by source group | add, change, remove, select; add a Look | availability is checked per request and per group, without a lock | what checkout buys, the customer had put in |
| Outbox (`outbox/`) | events, deliveries, claim tokens, leases | enqueue, claim, dispatch, acknowledge, finish, heartbeat, recover, retry | two workers, expired leases, late acknowledgements, crashes | fencing; bounded attempts; at-least-once; events settle |
| Idempotency (`idempotency/`) | one record per user, scope and key | begin, complete, cleanup | insert conflicts with an uncommitted insert or delete; the cleanup of one request deletes another key's record | executed once while valid; replays are right |
| Promo codes (`promo_codes/`) | the row of a code, its usages | create, edit, deactivate, redeem in checkout | usages counted under concurrent checkouts; edits read unlocked and write the changed columns only; rounding | limits hold at each commit; no discount above the price |
| Returns (`returns/`, `uploads/storage`) | return requests with items, refund, restocked quantities; evidence files | request, approve, reject, cancel, complete, process | restock shares variant rows with checkout; partial and repeated processing; files that no transaction covers; 24 hour window | every unit back once, never more than bought; settled requests are final; files and rows agree |
| Customer in-app notifications (`customer_in_app_notifications/`) | notifications; the older banner mark of an order | list pending, mark seen, banner seen | two endpoints write both marks and lock the rows in opposite order | an approved payment is shown once |
| Customer service notifications (`customer_notifications/`) | one delivery row per event; subscriptions | send through Bot 1, webhook | nothing is locked, two dispatches of one event after a lost lease | acknowledged only if it arrived or the customer cannot be reached |
| Campaigns (`customer_notifications/campaigns/`) | campaigns, deliveries | draft, schedule, pause, cancel, batch, worker | sends inside a transaction; status decided from unlocked reads; batches share rows by SKIP LOCKED | nothing sent twice while transactions live; finished deliveries are final; campaigns end |
| Seller notifications (`notifications/`) | one notification row per event | consumer of the outbox, retry by hand | as above, and the row is read again to tell the outbox how it went | acknowledged only if it arrived |
| Telegram client and webhooks | none | HTTP, callbacks | external | not modelled |
| Seller registration and login (`seller_auth/`) | registrations, credentials | start, link, approve, reject, confirm, expire, login | decisions read the row without a lock, the later commit wins | nobody gets in without an approval; one credential per email |
| Customer login, users | profiles | login | none | not modelled |
| Channel entry | one message id | publish, pin | API call before commit | one live entry message |
| Catalogue, favorites, reviews, settings, uploads, analytics, audit | independent rows | create, change, delete | unique constraints only | not modelled |
| Redis cache | catalogue reads | fill, invalidate | a late fill after an invalidation | bounded staleness |
| Migrations, backups, deployment; Mini App and Seller Panel | | | | outside the models; their requests are the environment |

**How they interact.** A checkout or a payment handler is one transaction that
covers several components: it begins an idempotency record, locks the cart or
the payment, then variants, writes the order and the payment, enqueues outbox
events, completes the record and commits. The session dependency rolls
everything back when the handler raises. Workers (payments, outbox, campaigns)
poll with sessions of their own. Outbox consumers run after the commit and call
Telegram. PostgreSQL is at READ COMMITTED: a plain SELECT sees the last commit,
`FOR UPDATE` waits and re-reads in SQL, but a SQLAlchemy object that is already
in the identity map keeps its attributes unless `populate_existing` is given.
The models follow that distinction, because checkout depends on it.

`PROJECT.json` lists the hazards of this code at their lines and the properties
that cover each of them.

## Modules

| Module | Role |
|---|---|
| `RowLocks` | a lock table: what `FOR UPDATE`, UPDATE, COMMIT and ROLLBACK do to it |
| `OrderFlow` | the purchase path: cart, checkout, payments and their worker, status endpoint, variant edits |
| `StockLedger` | abstract: units leave the shelf with the order and are confirmed or returned once |
| `Outbox` | the transactional outbox with its workers |
| `DeliveryPromise` | abstract: what the outbox owes each consumer |
| `Idempotency` | records of idempotency keys and the transactions that carry them |
| `Returns` | return requests, their decisions, restock and evidence files |
| `DbSessions` | the sessions and row locks that the following modules share |
| `Campaigns` | one campaign: administrators, batches, worker, Telegram, crashes |
| `PromoCodes` | one promo code: checkouts that use it, sellers who edit it |
| `SellerRegistration` | the registrations of one email, up to the credential |
| `SeenMarks` | the two marks that an approved payment has been seen |
| `EventDelivery` | what the two consumers of an outbox event do with it |
| `ReceiptFiles` | the receipt of a payment: row and files |
| `MC…` | instances for TLC: model values, definitions of the function-valued constants, symmetry |
| `MCSupport`, `MCEnds` | several components in one instance: their safety, and what must end |
| `MCOrderEnds` | what must end on the purchase path |
| `OrderFlowProofs`, `OutboxProofs`, `IdempotencyProofs`, `ReturnsProofs`, `CampaignsProofs` | invariants and action properties, proved; `OutboxProofs` also that `Outbox` implements `DeliveryPromise` |
| `OrderStockProofs` | what `OrderFlow` does to units, and its refinement of `StockLedger`, proved |
| `SupportProofs` | the same for promo codes, the four small modules above, and the types of all of them side by side with campaigns |
| `SumLemmas` | facts about sums over finite sets, for the proofs that add up units |

Each module keeps some definitions marked *Mutant*: a version of an action or a
helper with a plausible bug, which makes the property named in `PROJECT.json`
fail. They are not part of any specification.

### OrderFlow

`cart`, `variant`, `order`, `payment` are committed rows; `orderSeq` is the
sequence, whose values no rollback returns. `tx[s]` is what the request of
session `s` has read so far (`seen` holds the variant objects of its identity
map), `lock` the rows it has locked. A request is split into the steps others
can observe: a step ends where the code waits for a lock or commits.

| Code | Actions |
|---|---|
| `cart/service.add_item`, `looks/service.add_look_to_cart` | `AddItem`, `AddLook` |
| `cart/service`: quantity; selection of one or several items; `remove_item`, `clear_cart` | `ChangeQuantity`, `SelectItems`, `RemoveItems` |
| `orders/service.checkout`, `orders/repository` | `CheckoutBegin` (cart lock, items and variants read), `LockVariant`, `CheckoutRefused`, `CheckoutNumber`, `CheckoutCommit`, `CheckoutConflict` |
| submit, approve, reject, `expire_due_payment` | `PaymentRequest` (lock and checks), `LockVariant` for a release, `FlushOrder`, `PaymentCommit` |
| `manual_payments/worker.py` | `WorkerPoll` (the list), `WorkerVisit` (one id, in its own session), `WorkerRestart` |
| `update_order_status` | `AdminBegin`, `AdminRefused`, `AdminReadsPayment`, `AdminCommit` |
| `products.update_product_variant` | `EditBegin` (unlocked read), `EditCommit`, `EditConflict` |
| PostgreSQL, the process, the clock | `DeadlockVictim`, `Abort`, `TimePasses` |

Abstractions. Prices and texts are left out, promo codes have a module of their own. A request that a check
refuses before it locks or writes anything leaves no trace and is no step.
Receipt upload appears through its expiry branch, which is the one of submit; its files are `ReceiptFiles`.
The `expire-due` endpoint is a sequence of worker visits. A change of a cart is
one step: two changes of one cart at the same moment, whose later commit wins,
are not told apart. An insertion waits for a checkout of the cart (the foreign
key), other changes do not: the checkout buys what it has read, selected then,
and deletes its items by id whatever they are by now. A Look that names one
variant twice gives one item.

### Outbox

`event` and `delivery` are rows; `batch` and `work` are the memory of a worker
and vanish in `Crash`. Time is the booleans `due` (the backoff is over) and
`stale` (the lease ran out). Each transaction of the worker locks the event row
first, so it is one action. Consumers are abstract: a call may return, raise, or
raise after it has reached the consumer. A claim token is any token that no row
and no worker remembers, which stands for a fresh UUID with a finite set.
`attempt_count` and `last_error` of the event, which nothing reads for a
decision, are dropped. A claim's consumers are dispatched in any order; the code
has a fixed one, so the model allows more.

### Idempotency

`record` is the committed row of each key (for one user and scope), `tx` the
request of a session: which expired rows its cleanup still has to delete and has
deleted, whether it inserted. An INSERT of a key waits while another transaction
has inserted or deleted that key without committing, and a DELETE waits for the
row; both are guards. `answer` is the last answer of a session, `executions`
the history. When `CommitsExpiry` is TRUE a handler may commit an unfinished
record, which `submit` and `upload_receipt` do with a due payment. After an
INSERT conflict `Load`, a `SELECT ... FOR UPDATE`, waits for a transaction that
deletes the row, and answers from what is there afterwards.

### Returns

`order`, `request` and `stock` are committed rows; an order has at most one
request (a unique constraint), so requests go by their order. `files` is the
upload volume. `tx[s]` is the request that session `s` serves. `misled`, `debris`
and `elsewhere` are history.

| Code (`returns/service.py`) | Actions |
|---|---|
| `create_return_request` | `CreateBegin` (order locked, eligibility and items checked), `SaveFile` for each attachment, `CreateCommit`, or `SaveFails` (a write fails), `CommitFails` (the connection breaks in the commit, which may or may not have been applied) |
| `approve`, `reject`, `cancel_customer`, `cancel_admin`, `complete` | `Decide` (the row is locked, checked, written and committed: one action) |
| `process` | `ProcessBegin` (request locked, plan checked, differences computed), `LockVariant`, `ProcessCommit` |
| `orders.update_order_status` | `SetOrderStatus`, reduced to the status and `delivered_at` |
| the rest of the shop, the clock, failures | `ChangeElsewhere`, `WindowCloses`, `Abort` |

Here a locked variant is read after its lock: nothing loads it before, unlike in
checkout. Abstractions: refund amounts, the checks on attachments and the
notifications after the commit are left out; orders are paid for, so the status
endpoint may assign any status; every item has a variant; a request that a check
refuses is no step. The clock is one bit per order, whether 24 hours have passed
since the delivery. A file name is one that is not on the volume, which
stands for a UUID.

### Campaigns

`campaign` and `delivery` are the committed rows. `campaignTx[s]` is what the
transaction of session `s` is about to do: the deliveries it still has to go
through, its own `changes`, and the status it will write to the campaign. What a
statement sees is `Seen(s)`: the committed rows with the session's own changes.
`received` and `forgotten` are history: the messages each recipient got, and
those of them that a rollback or a timeout erased from the shop's memory.

| Code (`campaigns/service.py`) | Actions |
|---|---|
| `schedule_campaign` | `Schedule` (locks the campaign: one step; `_materialize_deliveries` only if there are none) |
| `pause_campaign`, `cancel_campaign` | `PauseBegin`, `CancelBegin` (unlocked read), `CampaignCommit` (the UPDATE over whatever is there) |
| `process_batch` | `BatchBegin` (unlocked read), `BatchSelect` (SKIP LOCKED), `PhotoUnreadable`, `BatchCount`, `CampaignCommit` |
| `_process_delivery`, `_mark_delivery_error` | `SkipDelivery`, `SendMessage`, `RateLimited`, `SendFails`, `BadRequest` |
| `skip_remaining_deliveries` | `SkipSnapshot`, then `SkipRow` for each row it saw: under READ COMMITTED an UPDATE waits for a locked row and looks at it again |
| the process, PostgreSQL, the clock | `CampaignCrash`, `CampaignDeadlock`, `CampaignDue`, `DeliveryDue` |

A blocked, unreachable or unwilling recipient is `SkipDelivery` at any time,
because the subscription is outside the module; SKIPPED stands for BLOCKED too.
An audience is any set of recipients. Which deliveries a batch takes when more
are due than its limit is left open, the code takes the oldest. The rows that
`recover_stale_sending_deliveries` looks for (`LeftSending`) are modelled and
never exist: that is the disagreement `campaign_resends`.

### PromoCodes

A transaction carries what it has read: a checkout its customer and subtotal and
then its bill, an edit the row it saw and the row it wants. The UPDATE of an edit
writes the columns that differ between the two, as SQLAlchemy does, so two valid
edits can mix, and make a percentage above 100. `BillsFollowTheRow` admits such a row
only from an edit whose type or value was outdated, and demands that each bill follows
the row as it is at the commit and never exceeds the price. Amounts are integers (kopecks), the percentage is rounded half up,
as `calculate_discount` does with decimals. `PromoCheckoutBegin`, `LockPromo`
(`get_by_code` with FOR UPDATE), `PromoChecked` (`_validate_usage_limits`,
`calculate_discount`), `PromoCommit` (the usage with its order), `PromoRollback`,
`PromoEditBegin`, `PromoDeactivateBegin`, `PromoEditCommit`. The dates of a code
are chance: `PromoRollback` may refuse any checkout.

### SellerRegistration

No handler locks a row. Each is two steps: a decision from the committed rows
(`StartRegistration`, `TelegramStart`, `ApproveRegistration`,
`RejectRegistration`, `ConfirmRegistration`, `ExpireRegistration`) and
`RegistrationCommit`, which writes the status over what is there by then. The
email of a credential is unique, and the insertion is part of the commit. The
code that is sent and typed is left out: whoever confirms has the right one.

### SeenMarks

One order and its notification, a bit each, with the locks of the two rows.
`mark_seen` is `LockNotice`, `ReadOrderOfNotice`, `NoticeCommit`;
`mark_payment_success_banner_seen` is `LockBanner`, `ReadNoticeOfBanner`,
`BannerCommit`; `pending` is `ReadLegacyOrder`, `InsertNotice`, `PendingCommit`.
`noticeIsLate` is history: the notification was made by a `pending` that had read
the order before somebody saw its banner, so the customer sees the payment twice.
The code allows it and `SeenTogether` excepts exactly this.

### EventDelivery

The inside of what `Outbox` treats as a call: `Dispatch` is
`dispatch_outbox_delivery` up to the lookup of the consumer's row, then
`InsertConflict` (the unique key), `PrepareToSend` (the commit before the
message), `MessageSent`, `MessageFailed` (which may have arrived),
`CustomerHasBlocked`, `WriteResult`. The customer consumer goes by its own
result; the seller consumer reads its row again (`RefreshSeller`), where it may
find the PENDING of a retry by hand (`RetryBegin`, `RetryCommit`).

`noteEvent` says what the event is about. Of an order both consumers keep a row. Of a
payment the seller consumer keeps none (`KeepsRow`): `emit_seller` sends the first
message and notes its number in the payment (`FinishPayment`), later it writes the
decision into that message (`EditMessage`) or, when the edit fails (`EditFails`) or
the event carries no number ("unnumbered"), sends a new one, and raises if that fails
too. The seller bot may have edited the message already (`BotShowsDecision`): the
refusal "message is not modified" counts as success. A payment to look at has no
customer consumer (`ConsumersOf`).

`misled` is history: a retry by hand was committed while a dispatch knew of the failure
(`KnowsOfFailure`). That dispatch then reads PENDING and reports success, although
nothing has arrived; `AcknowledgedMeansArrived` excepts this race and no other retry.
`Outbox` leaves open whether a call arrives and what it returns, so
everything this module does is among what `Outbox` allows.

### ReceiptFiles

`receiptPath` is the column, `receipts` the volume. `UploadBegin` (the payment
locked, the old path read), `SaveReceipt`, `ReceiptCommit` or
`ReceiptCommitFails` (applied or not), `ConfirmReceipt` (the row read again,
unlocked), `DeleteReplaced`, `UploadCrash`; `CloseUploads` stands for whatever
settles the payment. `misjudged` names the files that were deleted because a
commit was reported lost and had been applied: the row then names a file that is
gone, which `ReceiptIsKept` excepts, and which is the same weakness as that of
the return evidence.

## Runs

| Run | Instance | Properties | Shows |
|---|---|---|---|
| `orders_races` | 2 users, 2 sessions, 1 variant with 2 units, 2 order numbers, 1 edit, 1 lost transaction, all changes of a cart | `TypeOK`, `ReleasedExactlyOnFailure`, `ActivePaymentKeepsOrderNew`, `NothingBoughtTwice`, `SettledPaymentIsFinal`, `StatusFollowsPayment`, `OnlyStaleSalesLoseUnits` | payments, orders and carts stay consistent in every race of two transactions; units are lost only by the stale sale of the finding below and by a seller's new count, and by exactly what these write over |
| `orders_serial` | 1 user, 1 session, 2 variants, a Look, quantities 1 and 2, an edit, all changes of a cart | `SellsOnlyAvailable`, `ImplementsLedger` | without concurrency the path implements `StockLedger`, also when a variant is in the cart twice |
| `outbox_claims` | 1 event, 2 consumers, 2 workers, 5 tokens, 2 attempts; a retry, crash, expired wait and stalled heartbeat | `TypeOK`, `OwnedClaimsAreCurrent`, `EventMatchesDeliveries`, `FailuresCountOnce`, `KeepsPromise` | claims are fenced, failures counted once for each claim, and the outbox implements `DeliveryPromise` |
| `idempotency_once` | 2 keys, 2 payloads, 2 sessions, 3 executions | `TypeOK`, `ReplaysAreFaithful`, `ExecutesOnce`, `ValidRecordsStay` | nothing valid is executed again, replaced or misreported |
| `returns_races` | 2 orders (2 units and 1 unit of one variant), 2 sessions, 2 files, 1 change elsewhere, 1 failure | `TypeOK`, `StockMatchesRestocks`, `RestockedWithinPurchase`, `EvidenceIsKept`, `FilesAreAccounted`, `SettledRequestIsFinal`, `ClosedWindowStaysClosed` | nothing is put back twice or lost in parallel and partial processing; settled requests and closed windows stay; files and rows agree through failures |
| `support` | 2 sessions for each component; campaigns: 2 recipients, 2 attempts, 2 messages each, 2 troubles, a crash; promo codes: 2 customers, 4 rows, 2 edits, 2 usages; 2 registrations; events: an order or a payment, 2 mishaps; receipts: 3 files, a fault | `TypesOK`, `SentOnceUnlessForgotten`, `FinishedDeliveryIsFinal`, `ClosedMeansFinished`, `UsagesWithinLimits`, `BillsFollowTheRow`, `VerifiedOwnsTheCredential`, `SeenTogether`, `AcknowledgedMeansArrived`, `ReceiptIsKept` | the components around the order flow keep their promises in every race of two sessions and through the failures they handle |
| `orders_end` | fair; either 1 customer who buys 1 variant twice, a cancelling seller and 2 lost transactions, or 2 customers with the same 2 variants in their carts and one number left | `PaymentsSettle`, `RequestsEnd` | payments settle and requests end in spite of lost transactions, stale worklists and deadlocks |
| `everything_ends` | fair; keys: 2 keys, 1 payload; campaigns: 1 recipient, 2 sessions and a crash, or 2 recipients, 1 session and an error; events: 1 event, 2 consumers, 2 workers, 2 attempts, and a crash or a failed or late heartbeat | `RequestsAnswered`, `CampaignsEnd`, `EventsSettle` | requests with a key are answered, campaigns end, events are processed or failed, in spite of failures, deadlocks and lock waits |

Why the bounds are enough to be interesting: two sessions are what every race in
this code needs (each handler is one transaction and each conflict is pairwise),
and the theorems below carry the main results to any number. Two order numbers
let one order be settled while another is placed and let the sequence run out.
Two attempts separate "failed once" from "given up". Five tokens are more than
two workers, the row and its deliveries can remember. Two keys are the least
with which two cleanups wait for each other. An order of two units is the least that
can be put back in parts, and one variant is what makes two returns meet. `CartChanges`
is empty in `orders_end` and `checkout_oversells`, whose questions do not depend on
how the items came to be what they are. `CHECK_DEADLOCK FALSE` is set where
the bounded history really stops: all units sold, all events closed.

`MCSupport` and `MCEnds` hold several components. They share no row and no
session, so nothing is lost by letting one component act in each behaviour
(`focus`, `scenario`), and TLC is spared the product of their states. A property
of a component holds of the instance exactly if it holds of the component alone,
because the others keep their initial states. In `MCEnds` the fairness conditions
of the components are merged: a condition on a disjunction of steps, of which
only one component's can ever be enabled in a behaviour, says what the separate
conditions say.

Two sessions for a campaign are two batches, or a batch beside a pause or a
cancellation; two recipients are the least of which one is done when another
fails; `BatchLimit` = 2 lets a batch take one or all. Subtotals of 99 and 101 kopecks
have a half to round. `MCPromoRows` has a row of 150 percent, which no edit may enter
(`ValidDiscount`) but two edits mix. Three
receipt files are an old one, a new one and the new one of a second upload.

Every bound is a constant: `MaxOrderNumber` is the code's own limit 999999
and `MaxAttachments` its limit 5;
`MaxAdded`, `MaxEdits`, `MaxAborts`, `MaxRetries`, `MaxCrashes`, `MaxWaits`,
`MaxStalls`, `MaxExecutions`, `MaxElsewhere`, `MaxFailures`, `MaxTroubles`,
`MaxLost`, `MaxPromoEdits`, `MaxUsages`, `MaxMishaps` and `MaxFileFaults` limit the
environment only. `MaxMessages` bounds the messages one recipient takes before he
withdraws his consent: without it a campaign whose transactions are lost for ever
would send for ever.

### Fairness

- `OrderFlow`: the worker polls for ever and visits what it listed, time passes,
  a request that can go on does (weak fairness), and one that waits for a row
  gets it in the end (strong fairness: PostgreSQL queues the waiters of a row).
  Customers and sellers need never act.
  `PaymentsSettle` speaks of orders of one variant: with two, the transaction of
  the worker, which gives back one variant after the other, can be the victim of
  a deadlock with a new checkout every time. TLC shows such a behaviour, and
  nothing in the code excludes it.
- `Outbox`: worker steps weakly fair; `ClaimDue` strongly fair per event, because
  the query takes the oldest first; backoffs end and abandoned leases run out.
- `Idempotency`: cleanup, insert and load strongly fair for the same reason as
  row locks; the end of a handler and the deadlock detector weakly fair.

- `Campaigns`: the worker polls for ever and begins a batch when its query lists the
  campaign; due times come; a batch, a pause or a cancellation that can go on does
  (weak fairness), and one that waits for a row gets it in the end (strong).
  Administrators need never act, troubles and crashes are bounded.

`Returns` and the other modules state safety only: nothing in it waits for anything but a lock.

### Disagreements found

Each is a run that TLC refutes, with the line it contradicts in `PROJECT.json`.

- `checkout_oversells`: `lock_variants_by_ids` returns objects that the checkout
  had loaded before it had the lock, so the second of two checkouts computes from
  the old stock and sells the last unit again.
- `outbox_waiting_claims`: the lease of a claim that waits behind another in the
  batch is not renewed, so a claim is taken over although its owner lives.
- `idempotency_leaked_record`: a submission that finds its payment due commits the
  expiry together with its unfinished record, and the key answers "still
  processing" for a day.
- `campaign_resends`: a batch marks a delivery SENDING and sends it in one
  transaction, so a crash leaves it PENDING and the message is sent again, while the
  code that handles rows left in SENDING says that it avoids just this.

Two oddities are part of the models without a run: approve and reject accept a
PENDING payment, while docs/product/PAYMENT_LIFECYCLE.md leads through SUBMITTED;
and a new return whose commit is applied but reported lost has its evidence files
deleted, which `EvidenceIsKept` excepts.

## Proofs

Besides the bounds and the null values, the ASSUMEs on constants in the modules are
few, named, and evaluated by TLC on each run; the proofs use no others. Two of them
make sums mean something: variants, orders and items are finite sets. One states the
CHECK constraints of the variants table for the initial rows, `reserved <= stock`.
Two theorems about the purchase path have a hypothesis of their own, `OneSession`
(there are no two different sessions); it is that of the run `orders_serial`, which
checks the same properties, and the code does not have them without it (see
`checkout_oversells`).

**SumLemmas.** Units are sums over sets of items and orders, and the models write
them with `SumFunction`. The lemmas say what such a sum is for every finite set: its
type, its value on the empty set, what one more element adds, sums of equal, greater
and pointwise added functions, and sums that differ at one index. An induction
principle of the library takes the formula as a parameter, which the provers cannot
fill in; each lemma therefore takes the set of its counterexamples, picks a smallest one
(the strict subset relation of a finite set is well-founded), and removes an element
from it.

**OrderFlowProofs.** `Invariance` proves the inductive invariant `IInv`:
`TypeOK`, `ReleasedExactlyOnFailure`, `ActivePaymentKeepsOrderNew` and what they
need. `RequestOwnsPayment`: while a payment request is in progress its session
holds the lock of the payment row and the payment is active, so nobody else
settles it between the check and the commit. `NumbersAreFresh` and
`PlacedHasPayment`: a number handed out to a checkout belongs to no order, and
orders and payments come into being together. `AdminMayWrite`: the status
endpoint that got as far as its write saw no active payment or was not moving the
order, which is what makes its unlocked read harmless. From it follow
`TypeCorrect`, `StockReleasedOnFailure`, `UnpaidOrdersStayNew`, and the action
properties `SettledIsFinal` and `StatusesFollowPayments`, for any number of
customers, variants, sessions and lost transactions.

**OrderStockProofs.** What happens to units, for any number of sessions first.
`CountInv`: what a customer has bought and what is left of the cart is at most what
was put into it, and so is what was bought, what a running checkout has read and
what that checkout will leave in the cart (`HoldsCart`: it holds the cart row, so
nobody inserts an item meanwhile, and one that is changed meanwhile goes by its id,
whatever it has become); items are finite sets and a number that belongs to no
order has none. `CartsAreBoughtOnce` follows. Most
actions are `Calm`: they leave orders, carts and releases alone, and one lemma
covers them. For the others, `UnitsAreLostOnlyByStaleSales` computes the stock
and the units held by orders before and after: a release gives back just what the
order held, and a sale takes what the order then holds, unless the row it computes
from was read before another transaction changed it; then the difference is what that
transaction did (`Overwritten`). A save of the seller changes the sum only if it enters
a count, by what was entered and by what it overwrites. `FreshSalesNeverOversell`
says the rest of `checkout_oversells`: that stale read is the only way to sell
more than is available, which needs `RowsAreLegal` (the CHECK constraints hold in
every committed row).

With one session, `ReadsAreFresh` is invariant: what a checkout or an edit in
progress has read is what is committed. `OneSessionNeverOversells` follows, and
`OneSessionImplementsLedger` : each commit of a checkout is `Place`, a payment's
settlement `Confirm` or `GiveBack`, a seller's new count `Recount`, and every other
step of the path leaves the ledger as it is.

**OutboxProofs.** `Invariance` proves `TypeOK`, `ClaimInv` (live claims have
different tokens; batches and work in progress refer to deliveries of their
event), `RowInv` (tokens are set exactly while PROCESSING; closed events have no
pending delivery; a delivery fails after exactly `MaxAttempts` counted failures)
and `CurrentInv` (what a valid claim still has to do is pending and not yet
counted for its token). Fencing, `OwnedClaimsStayCurrent`, is the part a test
can hardly reach: it relates the memory of a worker that may be long out of date
to rows that others have changed.

`FailuresAreCounted` goes through the actions: only an acknowledgement under the claim
that holds the event adds a failure, to a pending delivery whose last counted token is
another one, and it notes the token with it, so the same claim cannot count again.

`OutboxKeepsPromise` : `Spec => KeepsPromise`, by showing that initial states map to
initial states and that each action maps to one step of `DeliveryPromise` or to a
stutter.

**IdempotencyProofs.** `Invariance`: a key is inserted or deleted by one
transaction at a time (`HeldOnce`); what a transaction deletes is expired and
stays so until it commits (`DeletedAreExpired`), because the commits of others
concern keys they hold; who runs found no row of the key or has deleted it
(`RunnersMayInsert`); a record that succeeded is the trace of an execution. The
action properties `ExecutedOnce` and `ValidRecordsAreKept` and the invariant
`ReplaysAreRight` follow.

**ReturnsProofs.** `Invariance`: a session that creates a request holds the row of
its order, which has no request yet; one that processes a request holds its row,
which stays approved (`SessionsOwnRows`); a request names what was bought and
puts back no more than that (`RequestsAreSound`); a file that a session has saved
belongs to no other session and to no committed request (`SavedFilesAreOwn`),
which is why deleting it after a failure harms nobody. `RestockIsWithinPurchase`,
`EvidenceStays`, `FilesHaveReasons` and the action properties `SettledStaysFinal`
and `WindowStaysClosed` follow. `StockIsAccounted`: the stock is what the rest of
the shop made of it plus the units noted as put back, because what a session will
add is the difference to the request as it is now, and not only as it was when the
session read it (`PlanIsCurrent`).

**CampaignsProofs.** `CampaignInv`: what a session has done to a delivery, or is
about to do in a batch, concerns a row that it has locked and that is committed as
unfinished (`OwnsItsChanges`, `OwnsItsBatch`); the status it will write fits what
it has done (`WriteFitsStep`); who will write COMPLETED or FAILED sees nothing
unfinished besides the rows it still has to skip (`LeavesNothing`), which stays so
because any other session's changes are to rows it sees as unfinished; and a
campaign that is on its way has deliveries (`SentOutHasDeliveries`), so that they
are not made a second time under a running batch. `OneMessageForEachSent` counts
messages against notes: a commit moves a note from the session to the row, a
rollback turns it into a forgotten one. `ClosedIsFinished` and `FinishedIsFinal`
follow.

**SupportProofs, promo codes.** `PromoInvariance`: a checkout that has locked the row holds it
until it commits (`CheckoutsOwnTheRow`), so the usages it counted are the usages
there are (`CheckedIsWithinLimits`), and the bills it made are right whatever the
row says (`BillsAreRight`). `LimitsHold` and `BillsAreByTheRow` follow: an edit that saw
the type and the value as they are writes a row that `ValidDiscount` has accepted, so
only an outdated one can make an excessive percentage.

**SupportProofs, the small modules.** Four small inductive invariants. Registrations: who is about to
write VERIFIED read an approved registration, and an approval is not forgotten,
whatever is written over it (`DecisionsAreKept`). Marks: a handler holds the row
it started from until it commits both (`HandlerHoldsItsRow`). Consumers of events:
a row that says SENT, SKIPPED or BLOCKED tells the truth, and a dispatch that will
write nothing finds the row decided (`RowsTellTheTruth`, `DispatchIsSound`).
Receipts: the path of the payment has its file, an upload holds the payment until
its commit, so that its new file is its own and the old one is nobody's any more
(`UploadIsSound`), and every file is the payment's, left behind by a crash, or an
upload's to deal with (`PathHasFile`, `FilesAreOwed`).

`SupportTypesCorrect` puts these, promo codes and campaigns side by side, as the
instance `MCSupport` runs them, and proves the types of all of them.

**Only model-checked.** The five liveness properties, `PaymentsSettle`,
`RequestsEnd`, `RequestsAnswered`, `CampaignsEnd` and `EventsSettle`: fairness
and ENABLED are out of the prover's reach. Every other property of a passing run
is stated by a theorem.

## Plan

The order follows the money: first what takes stock and settles payments, then
what must not happen twice, then what is sent to people.

1. Done: `RowLocks`, `OrderFlow` with `StockLedger`; `Outbox` with
   `DeliveryPromise`; `Idempotency`; `Returns`; their proofs; `Campaigns`,
   `PromoCodes`, `SellerRegistration`, `SeenMarks`, `EventDelivery`,
   `ReceiptFiles`.
2. Done: proofs for the invariants of the last six, with the strengthening that a
   session which settles a row holds it.
3. Done: proofs about units: carts, stock, restocks, and the refinement of
   `StockLedger`.
4. Done: the rest of the cart (quantity, removal, selection) in `OrderFlow`.
5. A composition of checkout, idempotency record and outbox event in one
   transaction: an order exists exactly if its event does, and a key gives one
   order.
6. The channel entry message and cache invalidation as small modules; drafts of
   campaigns, whose text an administrator may change, from an unlocked read, while
   another schedules them.

The runs stay few: a new component joins a run of its neighbour where the state
space allows it, and a run whose question another one answers is dropped.

## Not modelled

- Catalogue, categories, tags, feed, aliases, banners, Looks as content, favorites,
  reviews, settings, analytics, audit and statistics: rows that are created, read,
  changed and deleted one at a time and that no other component decides by.
- Texts: notification templates, message bodies, their preview, parsing and test
  sends; the audience filters of campaigns; images and their derivatives.
- Logins: passwords, tokens, the check of Telegram's init data, blocking.
- Subscriptions and the webhooks of the bots: their callbacks call services that are
  modelled; a subscription is left to chance where it matters.
- Seller notifications that do not come from the outbox, and internal ones.
- The Telegram API, Redis, migrations, backups, deployment, and the browser clients,
  which make up most of the repository's lines. A second, older copy of the backend
  under `.codex-tmp` is not modelled either.

What is modelled is therefore a small part of the repository by lines, and most
of what several actors can do to one row or one file.

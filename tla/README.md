# Verification of the meet-commerce backend

TLA+ models of the parts of this backend where money and stock change hands, the TLC runs that
check them on small instances, and TLAPS proofs of what holds for every instance. All paths are
relative to the repository; `orders.service.js` without a directory is
`src/modules/orders/orders.service.js`.

## 1. Inventory

The backend is one Fastify process (`src/app.js`) and one worker process (`src/worker.js`) over
PostgreSQL, Redis/BullMQ and Razorpay. Every request is an async function: it interleaves with every
other request, webhook and worker poll at each `await`, and only `BEGIN..COMMIT` blocks with
`FOR UPDATE`, single SQL statements and unique indexes protect it. `PROJECT.json` lists every
component with its sources; the ones that carry the core logic:

| component | state it keeps | operations | interacts with | hard behaviour |
|---|---|---|---|---|
| orders | `orders` (status, payment_status, wallet_amount, wallet_debited), `order_items` | placeOrder, cancelOrder | stock ledger, wallet, payments (reads and writes orders) | unlocked read before an unguarded update, checkout over several tables |
| payments | `payments` (status, needs_manual_review), `payment_webhook_events` | createPaymentOrder, verifyPayment, handleWebhook, completeVerifiedPayment, reconcileWithRazorpay, refund | Razorpay, orders, wallet, workers | four callers of one finalizer, late and duplicate webhooks, refund halfway |
| payment-expiry worker | none of its own | expire PENDING rows, recover FAILED rows, every 2 minutes | payments, orders, stock | asks Razorpay first, writes later |
| wallet | `wallets.balance`, `wallet_transactions` (top-ups included) | top-up, verify, webhook, transfer, credit, debit, pay an order, reconciliation worker | orders, payments, refunds, Razorpay | one top-up completed by four callers, transfers in opposite directions, claim and debit in two transactions |
| stock ledger (shop-products) | `shop_products.stock_quantity`, `stock_movements` | applyStockChange, restoreStockForCancelledOrder, updateStock, adjustStock | orders, admin orders, shop orders, bulk orders, expiry worker | restore more than once, or never; rows locked in the order of a cart |
| bulk orders | `bulk_orders.status`, its lines | confirm and deduct, cancel and restore, the other moves | stock ledger | two of four moves test under a lock, two on a read |
| shop orders | none of its own | cancel by the shop | orders, stock ledger | the customer's, the dashboard's and the shop's cancel at once |
| admin orders | `orders`, `order_settlements` | updateStatus, cancelOrder, refundOrder, reconcilePayment, settlements | payments, wallet, stock | check of a status read earlier, refund destinations |
| refund requests | `refund_requests` | create, approve, reject, close | payments, wallet, admin orders | PROCESSING claim, partial refunds |
| delivery, auto-assign | `orders.rider_id`, `delivery_assignments`, `delivery_collections`, BullMQ jobs | offer, assign, accept, reject, pick up, collect, deliver, give up | orders, notifications | retries, two riders, cancelled order |
| allocation | which shop serves a customer: a cache over addresses and pincodes | recompute, invalidate | catalogue, cart | coalesced jobs, a stale row after an address change |
| shop financials | `shop_financials` (amounts, payout_status, attempt_count), BullMQ payout jobs | settle a day or a week, pay out, hold, release, mark paid | orders, shop ledger, disbursement adapter | a run repeated while its row is paid, a failure counted after the lock is gone, job ids that stay taken |
| shop ledger (shop-transactions) | `shop_transactions.balance_after` | append under the lock of the latest row | settlements, payouts | which row is the latest, lock order |
| vendor procurement | `procurement_requests`, recipients, quotes, supply orders, evidence, receipts | draft, publish, accept, quote, award, supply, receive, cancel, expire | vendors, inventory lots, shop stock | two awards, writes on the pool inside a transaction, a bridge after the commit |
| inventory | lots | receive, consume FEFO, adjust | orders, procurement | concurrent lot consumption |
| scheduled orders | schedules, runs | create run, place order | orders, worker | poll twice, crash between run and order |
| idempotency | `idempotency_keys` | claim, complete | every POST that uses it | concurrent first use, stuck claims |
| auth | sessions, refresh tokens, OTPs | login, refresh, logout | all | rotation races |

What makes them correct:

- *orders, payments, expiry, wallet*: an order is paid only by a payment Razorpay reported for it, by entries of the
  settlement desk that still add up, or because a rider handed it over; the wallet slice is taken once, and only after
  a report; a captured payment is never lost or hidden; stock goes back exactly once; nobody is refunded more than
  was collected.
- *refund requests*: one decision per request, the sum of refunds within the payment.
- *delivery*: one rider per order, delivered once; somebody is offered the order in the end.
- *wallet*: money is conserved; a top-up is credited once, only if it was paid, and not lost.
- *vendor procurement*: a requirement is won once, at one price, and its goods are received, stocked and
  offered once, with evidence.
- *shop financials, ledger*: a payout is paid once and never forgotten; the balance is the sum of the entries.
- *stock, bulk orders*: no change of a stock is lost, none is sold below zero; an order holds its lines once
  while it lives; a checkout is placed once and whole; transactions do not wait for each other for ever.
- *inventory*: consumption never exceeds a lot.
- *idempotency, webhook ledger*: an effect happens at most once, and at least once if the caller retries.

The parts that only create, read, update or delete master and display data (catalogue, themes,
settings, people and places, dashboards) and the I/O adapters (HTTP runtime, push, SMS, uploads,
maps, Shiprocket) are not modelled.

## 2. How the models are built

All modules describe the same runtime. A *task* is one HTTP request, one webhook delivery or one
worker poll; its record (`task[t]`) is the async function in progress: the step it will run next, the
rows it works on, and what it read earlier and still relies on. One step is what the database executes
without letting another request in: one statement, one `BEGIN..COMMIT` block under row locks, or one call
to Razorpay. Everything between two `await`s of different statements is therefore a point where any
other task may run, which also covers several server processes (`npm run start:pm2`). A transaction is
split where its own locks do not protect what it reads (see `Delivery`). A crash or a failing statement
is an action of its own: what was committed stays, the task is gone.

Rows of a table are functions from a constant set (ids) to records of the columns that decide something;
a column that only labels, prices or dates is left out. History variables (`debits`, `credits`, `paid`,
`delivered`, `torn`, `broken`...) count effects; no guard reads them except the named bounds.

Comments marked *Mutant* stand above a variant of a definition with one plausible bug. They are not part
of `Next`; `PROJECT.json` pairs each with the property that catches it, so that every checked property is
known to be breakable by a bug in the code it is about.

| module | models | extended by |
|---|---|---|
| `OrderPayments` | checkout of an ONLINE order, its payments, wallet slice, stock, cancellation, refunds | `MCOrderPayments`, `OrderPaymentsProofs`, `OrderReportsProofs` |
| `RefundRequests` | refund requests of one delivered order against the dashboard's direct refund and the refund webhook | `MCRefundRequests`, `RefundRequestsProofs` |
| `Delivery` | offers to riders, claims, pick-up, collection, delivery, and every other writer of the same two tables | `MCDelivery`, `DeliveryProofs` |
| `VendorProcurement` | a requirement for goods from the draft to the shelf, implements `Tender` | `MCVendorProcurement`, `VendorProcurementProofs` |
| `Tender` | abstract: won once, accepted once, stocked once, offered once | |
| `WalletLedger` | top-ups and their worker, transfers, the dashboard, orders paid from a wallet | `MCWalletLedger`, `WalletLedgerProofs` |
| `ShopFinance` | settlements, payouts, their queue, and the shop's ledger, implements `PayoutMachine` | `MCShopFinance`, `ShopFinanceProofs` |
| `PayoutMachine` | abstract: the table of `payout-state-machine.js` | |
| `ShopStock` | stock rows under checkouts, cancels, bulk orders and counts: row locks, pool, deadlocks | `MCShopStock`, `ShopStockProofs` |

Each detailed module is already a composition: `OrderPayments` of orders, payments, wallet slice, stock and the
expiry worker; `WalletLedger` of wallet, webhook ledger, worker and wallet orders; `ShopFinance` of settlements,
payouts, queue and ledger; `VendorProcurement` of requests, quotes, supply, inventory bridge and shop stock;
`ShopStock` of checkout, four cancels, bulk orders and the connection pool. Between modules nothing is shared
in TLA+, although an `orders` row is in five of them: each keeps the columns its own questions need. In
`Delivery` a payment is only *paid or not* and nothing is refunded, in `RefundRequests` the order starts delivered, in `ShopFinance` an
order is only *delivered on a day*, in `ShopStock` nothing is paid at all.

## 3. OrderPayments

| state | code |
|---|---|
| `order[o]` : status, payStatus, debited, latest | `orders` row; `latest` is `findLatestByOrderId` |
| `order[o]` : rider, received, handed | its claimed `delivery_assignments` row, if any; what its open `payment_settlements` entries add up to; history: a rider handed it over |
| `row[p]` : ord, status, review | `payments` row, `needs_manual_review` |
| `rzp[p]` | Razorpay's record of the Razorpay order (external) |
| `stock`, `restored` | `shop_products.stock_quantity`, CANCELLATION_RESTORE movements |
| `balance`, `debits`, `credits` | `wallets.balance` and the wallet transactions per order |

| actions | code |
|---|---|
| `PlaceOrder`, `PlaceCoveredOrder` | `placeOrder`; an order the wallet covers is born PAID and debited |
| `CreatePaymentOrder`, `InsertPaymentRow` | `createPaymentOrder`: Razorpay first, row second, so a crash leaves a Razorpay order without a row |
| `VerifyPayment`, `VerifyMismatch`, `WebhookPaid`, `WebhookFailed`, `AdminReconcile` | the callers, each with the read it starts from |
| `ProcessExpired`, `RecoverFailed` | the two sweeps of the expiry worker |
| `ReconcileCaptured`, `ReconcileNothing` | `reconcileWithRazorpay` and what its caller does with "nothing captured" |
| `FinalizeRefused`, `FinalizeMovedOn`, `FinalizeConfirm` | the three outcomes of `completeVerifiedPayment` |
| `ClaimWalletDebit`, `SettleWallet` | `_settleWalletIfPending`: claim and debit are two transactions |
| `FailRow`, `FailOrder`, `CancelExpiredOrder` | the unguarded writes of a failure and of the expiry |
| `CancelOrder`, `CommitCancel` | the customer's cancel: unlocked read, later transaction |
| `UpdateStatus`, `AdminCancel`, `RefundOrder`, `AdminWrite`, `RestoreStock` | the dashboard; a cancel refunds nothing, to the original payment or to the wallet, a refund goes to one of the two |
| `AcceptOrder`, `MarkPickedUp`, `MarkDelivered`, `CancelDelivery` | the rider, one locked transaction each; delivering writes PAID whatever the payment status was, and asks a collection of cash orders only |
| `RecordSettlement`, `ReverseSettlement` | the settlement desk, which derives the payment status from its entries alone |
| `PickRefund`, `CreditWallet`, `RefundPayment`, `RefundCheck`, `RefundCall`, `RefundRow`, `MarkOrderRefunded`, `WebhookRefunded` | refunds and their webhook |

`Requests` selects the kinds of request (and whether crashes happen) so that an instance can ask one
question; the theorems hold for every choice.

Runs:

- `checkout`: two orders share a balance of 1 that both were promised, one of them covered by it in
  full; two Razorpay orders; two tasks. The balance is never overdrawn (`TypeOK`), the slice is taken
  once, only after Razorpay reported the rest, and of two captures of one order one is flagged.
- `desk`: one order, one payment, two tasks, crashes: webhooks, bad signatures, the sweep, the dashboard, refunds,
  the rider and the desk. With money outstanding, PAID only on a report for that order, on entries of the desk that still
  add up, or after a delivery (`PaidOrderWasPaid`); REFUNDED only after a refund; and a captured payment marked FAILED
  is recorded in the end. 408,748 states.
- `v_orphan` is a finding: two tasks are enough to orphan a captured payment (section 10). `OrderReportsProofs` proves
  under which hypotheses the comment it contradicts is true.

`PaidOrderWasPaid` names three writers of PAID because the code has three. The rider's is the surprising one: an
ONLINE order that the desk confirmed unpaid is PAID by being delivered, and can then be refunded.
The instance of `desk` has one unit due and no wallet slice, so PARTIALLY_PAID does not occur in it, nor do the requests
`cancelNoRefund`, `cancelToOriginal` and `toWallet` in any run; the theorems cover them all. A rider here accepts,
picks up, delivers or gives up; offers and reassignment are in `Delivery`. The shop's own refund
(`shop-orders/service.js:431`) only writes statuses, after a delivery, and is not followed.

Bounds: two tasks are enough for every check-then-write race (one between the other's two steps), two
payments for a double charge, two orders for the shared balance; `checkout` has 793,091 states. `RestoreCap` and
`CreditCap` stop counters that repeated requests would grow for ever; no property depends on their value.

Fairness (`FairSpec`, used by `desk`): weak fairness of some step of some started request, because the event loop
resumes a promise whose statement has returned, or the process dies; strong fairness of the sweep for each row,
because the worker polls every two minutes as long as a process lives, and a row that keeps qualifying is
picked up between other requests; and strong fairness of the sweep's two statements, because a worker that is
restarted does not die at the same statement every time. It idealizes two limits of the sweep
(`payment-expiry.worker.js:278-282`): the row must be at most 48 hours old and among the ten most recently
failed. `CHECK_DEADLOCK FALSE`, here and below, because a system with no request left stops.

## 4. RefundRequests

| state | code |
|---|---|
| `order`, `payment` | status and payment_status of the order; status of its payments row ("NONE": cash) |
| `gateway` | what Razorpay has refunded of the payment (external) |
| `req[r]` | `refund_requests` row: status, whole order or selected lines |
| `paid`, `direct`, `broken` | history: approvals that moved money, direct refunds, requests whose approval died or lost a statement |

`Create`/`Insert` are `create` with its partial unique index; `CancelByCustomer` is one guarded UPDATE;
`Resolve`/`Finalize` are `reject` and the admin's cancel; `Approve`, `Claim`, `RefundCheck`, `RefundCall`,
`RefundRow`, `CreditWallet`, `FinalizeApproved`, `FlipOrder`, `ReleaseClaim` are `approve` with
`paymentsService.refund`; `RefundOrder`, `MarkOrderRefunded`, `ResolvePendingForOrder` are the dashboard's
direct refund; `WebhookRefunded` is `refund.processed`. `RefundRowFails`, `CreditFails`, `FinalizeFails` and
`Crash` are the failures, switched by `Faults`.

Runs: `refunds` has two requests, two tasks, all faults, an order worth 2 and a part worth 1 (so that a
full and a partial refund do not fit together): an APPROVED request was paid, and once (`ApprovedPaidOnce`), a
resolution sticks, a claim has an owner. `PayCap` 2 lets the second payment of a request happen; `DirectCap` 1 is one direct refund
beside it.

## 5. Delivery

| state | code |
|---|---|
| `order[o]` : status, pay, cod, due, rider | `orders` row; CONFIRMED stands for PREPARING, too, which riders and jobs treat alike, and the payment status PENDING for all but PAID; due is total_payable less wallet_amount |
| `order[o]` : received, settled, dropped | what the desk's open entries add up to; history: the desk ever settled it, the customer cancelled it |
| `row[i]` | `delivery_assignments`, numbered in the order of `assigned_at` |
| `collected` | orders with a `delivery_collections` row |
| `delivered` | history: deliveries counted (rider earnings, statistics) |
| `torn` | history: orders one of whose writers overwrote what it did not heed |

| actions | code |
|---|---|
| `AutoAssign`, `OfferToPool` | `handleAutoAssign`: unlocked choice of riders, then the locked transaction |
| `AcceptOrder`, `AcceptLock`, `AcceptClaim` | `acceptOrder`: lock and checks, then the guarded claim. Two steps, because the busy check reads rows of *other* orders, which this transaction does not lock |
| `RejectOrder`/`Reject`, `CancelDelivery`/`GiveUp`, `MarkPickedUp`/`PickUp`, `SaveCollection`/`Collect`, `MarkDelivered`/`Deliver` | the other requests of a rider: unlocked read, then the transaction |
| `AssignRider`, `Reassign` | the dashboard's `assignRider`. Two steps, because the statement that cancels open rows keeps the snapshot it began with |
| `SetStatus`, `UpdateStatus` | the dashboard's `updateStatus` and its synchronisation of the rows |
| `CancelOrder`, `CancelWrite` | the customer's `cancelOrder`, which leaves the assignment alone |
| `RecordSettlement`, `ReverseSettlement`, `PaymentFailed` | the other writers of the payment status: the desk, and a failure Razorpay reports |
| `Rollback` | an error, a deadlock victim or a crash before the commit |

The locks that last longer than a step are `Locked` and `RowLocked`. Handlers that write an order check
the status they read *before* their transaction. Where the status changed in between, the order goes into
`torn`, and so does an order on which an assignment overwrote offers it did not see, and one whose delivery wrote PAID
and which a reversed settlement or a failed payment then made unpaid again: the customer may cancel it after that,
delivered as it is. The properties speak of `Intact` orders, the others: for a torn order claims and status really
disagree in the code, and the counterexamples are among the observations of section 10. No guard reads `torn`.
`InStep` excepts orders the customer cancelled, since that cancel leaves the assignment alone. `CollectedFirst`, the half
of `DeliveryCountsOnce` about cash, holds for torn orders as well; it is about cash orders the desk never settled, which
have nothing to collect while the settlement stands.

`Kinds` says which orders there are, cash or online, with what is due at the door; a cash order starts unpaid, an online
one paid or unpaid (the dashboard confirms both). An unpaid online order is delivered without a collection, and its
rider may still record one. Refunds are not followed here.

Runs: `riders` has one order of either kind with one unit due, two riders, three rows and two requests at a time;
4.3 million states. Every property of it is about one order, and two riders with three rows let an order be
offered, claimed, reassigned and offered again.

## 6. VendorProcurement and Tender

| state | code |
|---|---|
| `request` : status, mode, offer, items, awardee, award | `procurement_requests` row; `items` is the total of its item lines |
| `late` | the response deadline has passed |
| `recipient[v]`, `quote[q]` | `procurement_recipients`, `procurement_quotes` |
| `supply` : status, source, vendor, award, items | `procurement_supply_orders` row, a vendor's or the shop's own |
| `evidence`, `receipt` | quality evidence; accepted quantity of the committed receipt, in tenths |
| `lot`, `sellable` | what the inbound bridge put into the inventory lot and into `stock_quantity` |

| actions | code |
|---|---|
| `CreateDraft`; `UpdateDraft`, `WriteHeader`, `DeleteItems`, `InsertItems` | `createDraft`, `updateDraft`: header and item lines are three statements |
| `PublishRequest`, `WritePublished`, `InsertRecipients` | `publishRequest` with `evaluateVendorEligibility` (`Eligible`) |
| `CancelRequest`, `ExpireRequest`, `WriteClosed`, `ExpireRecipients` | the closing requests: an unlocked read, then writes without a condition |
| `ViewRequest`, `DeclineRequest`/`WriteDeclined`, `SubmitQuote`/`MarkResponded`/`InsertQuote`, `UpdateQuote`/`WriteQuote`, `WithdrawQuote`/`WriteWithdrawn` | the vendor's requests |
| `AcceptFixedOffer`, `AwardQuote`, then `LockRequest`, `SelectQuote`, `MarkWinner`, `CommitAward` | the award transaction |
| `UpdateSupplyStatus`, `MarkDelivered`, `MarkInHouseArrived`, `WriteSupply`, `AttachEvidence`, `AttachInHouseEvidence`, `InsertEvidence`, `CreateInHouseSupply` | the supply order |
| `Receive`, `InsertReceipt`, `MarkReceived`, `CompleteRequest`, `CommitReceipt`, `RegisterInbound`, `SyncShopProductStock` | the receipt transaction and the bridge after it |

What makes this component hard is which connection a statement runs on. A repository method whose name
ends in `Tx` uses the transaction's client; every other one uses the pool, and commits at once even when
it stands between `BEGIN` and `COMMIT`. So `SelectQuote`, `MarkWinner`, `MarkReceived` and `CompleteRequest` are
steps of their own, visible to everybody and out of reach of a rollback, while the rest of the transaction
happens in `CommitAward` and `CommitReceipt`. `RequestLocked` and `ReceiptHeld` are what keeps other tasks out
in between: the row lock, and the unique index on which a second receipt waits.

Runs: `tender` has three vendors (v1 serves the shop's pincode, v2 lives in its town, v3 only sells fish
and is never eligible), two quotes, one price, quantities 0 (rejected), 0.4 (accepted, rounded to no
sellable unit) and 1.6 (to two), and three requests at a time: two award races and a publication, cancellation, crash or
receipt beside them. Its constraint `Bound` keeps the third request to what needs it: it only publishes in
the FIXED_OFFER mode, while no draft or vendor statement is pending; and once there is a supply order at
most two requests are busy, none with such a statement; 2.9 million states. The run checks `TenderKept`: the detailed system, seen through
`supply.source`, `request.awardee`, `receipt`, `lot` and `sellable`, takes only the steps of `Tender`, although
the awarded status itself is not stable (a second publication resets it; the unique index on the supply
order is what makes the award happen once). What `Tender` promises its users, `InOrder` and `EachOnce`, is proved
of it and carried over. `v_award` is a finding.

## 7. WalletLedger

| state | code |
|---|---|
| `balance[u]` | `wallets.balance` |
| `topup[k]`, `credited[k]` | status of the top-up's `wallet_transactions` row; history: how often it was added to the wallet |
| `gateway[k]` | the payment at Razorpay: open, authorized, captured, lapsed (external) |
| `old`, `recorded` | top-ups older than `ABANDON_AFTER_HOURS`; `payment_webhook_events` |
| `order[o]`, `debits[o]` | WALLET orders; history: debits per order |
| `adjusted`, `returned[u]`, `doubtful` | history: the dashboard's corrections and refunds; what refunds added to a wallet; orders a payment of which died or overlapped another |

| actions | code |
|---|---|
| `CreateTopUp`, `InsertTopUp` | `createTopUp`: cap tested on an unlocked read, Razorpay order, then the row |
| `VerifyTopUp`, `VerifyBadSignature` | `verifyTopUp` |
| `Webhook`, `WebhookUnrecorded`, `CompleteTopUp` | the webhook, recorded before it is processed, and `completeVerifiedTopUp` |
| `AskCaptured`, `AskAbandoned`, `MarkStalePendingAsFailed` | the reconciliation worker |
| `AdminCredit`, `AdminDebit`, `Transfer`, `FinishTransfer`, `DeadlockVictim` | credit, debit, `transfer` with its two locks |
| `CreditWallet` | a refund to the wallet, by the dashboard or an approved refund request: no cap (`admin/customers/customers.repository.js:219-242`) |
| `PayFromWallet`, `Debit`, `MarkPaid`, `CancelOrder` | `payFromWallet`: read, debit transaction, status statement |
| `CustomerPays`, `Capture`, `Lapse`, `DayPasses`, `Crash` | the environment |

A transaction on one wallet is one step, because `FOR UPDATE` on the `wallets` row comes first; only a
transfer is two, since it locks its sender and then waits for its recipient. Two transfers in opposite
directions wait for each other, and PostgreSQL aborts one (`DeadlockVictim`).

`wallet` has two customers, one top-up, one order, two requests and one poll of the worker. One top-up
is enough for all four callers of its completion. Each wallet starts with 1, which is the cap: only a debit makes room
for a top-up, and a credit after the check then takes the balance over it. `PayCap` 2 lets the double tap happen,
`ReturnCap` lets one unit be refunded to the first wallet. Fairness (`FairSpec`): a transfer finishes when its recipient's
wallet is free again and again (lock queues are first come, first served), a deadlock is broken
(`deadlock_timeout`), the timer polls for ever and a poll reaches every PENDING row, and from some
time on the worker no longer dies. The batch of 25 rows per poll is idealized. Requests and webhooks get no fairness at all:
`CapturedSettles` shows that the worker alone is enough.

`MoneyConserved` says that money enters by a credited top-up, the dashboard or a refund and leaves by a paid order, and
in no other way, transfers that were cut short included. `Total` counts the single units in all wallets, the
cardinality of `{<<u, n>> : n \in 1..balance[u]}`, and not a sum by recursion, so that the library's facts about
cardinalities serve the proof; it asks that the sets of users and orders be finite. 223,448 states.

`CapHolds` says that a balance is above the cap by no more than its credited top-ups and refunds, the two credits that do not
test it: transfers and corrections test it under the lock, so that no race of theirs adds to that.

`PaidIsCreditedOnce` says that a top-up is credited at most once and only if its payment was captured.
`DebitedOnce` speaks of orders not in `doubtful`, because a double tap and a crash between debit and
status do debit twice or leave an order unpaid (section 10, observations); no guard reads `doubtful`. An order is paid or
not: `payFromWallet` refuses PAID alone (`wallet.service.js:442`), and a WALLET order gets REFUNDED only after its
delivery, which is later than what is followed here.

## 8. ShopFinance and PayoutMachine

| state | code |
|---|---|
| `delivered`, `over` | orders delivered so far; days that have ended |
| `fin[r]` : status, amount, attempts | `shop_financials` row of a day or of the week: payout_status, net amount, attempt_count |
| `job[r]` | the BullMQ payout job of the row: none, waiting, active, done (its id still taken) |
| `ledger`, `tx[t]` | the committed row an append would take for the latest, with the sum of all entries; open transactions that append, the rows they lock and read |
| `credited[r]`, `failures[r]`, `runs` | history: PAYOUT_CREDIT entries; failed disbursements since the last release; bound |

| actions | code |
|---|---|
| `Deliver`, `DayEnds` | the orders, seen from here |
| `SettleDay`, `BeginPosting`, `AppendEntry`, `Wait`, `Resume`, `CommitPosting`, `PostingFails`, `Upsert`, `SettlementFails`, `SettleWeek` | the settlement: read, post in one transaction, upsert in another |
| `RunWeeklyPayouts`, `ForgetJob`, `StallJob` | the cron and the queue |
| `IgnorePayout`, `HoldForBank`, `StartPayout`, `Disburse`, `CommitPayout` | `processPayout`, one transaction under the lock of its row |
| `DisbursementFails`, `HandleDisbursementFailure` | rollback, then a second transaction that counts the failure |
| `SetHold`, `ReleaseHold`, `MarkPaid` | the dashboard |
| `Crash` | the worker dies; the queue retries the job or has given it up |

`PayoutMachine` is the table at the head of `payout-state-machine.js`, with the entry a payment writes.
PROCESSING is never stored: a row is PROCESSING while a payout holds its lock, which is what the refinement
mapping `PayoutState` says. `MachineKept` is then a statement about stalled jobs handed to a second worker,
crashes, repeated settlements and the dashboard: PAID is final, HELD is left by a release only, one ledger
entry per payment.

The ledger's rows are modelled by what an append sees: `ORDER BY created_at DESC, id DESC LIMIT 1 FOR
UPDATE`, where created_at is the beginning of the transaction and id is random, and a waiter that gets the
row it selected *before* it waited. Committed rows carry a number, of which only equality matters: a
transaction holds the lock of the row it appended to, until it ends. An order counts one unit of revenue, so a
period's amount is the number of its orders (`WeekAmount`), with as many days as one likes, finitely many.

Runs: `finance` has one day and its week, one order, two settlements and two payouts at a time, two
settlement runs begun; each of the two rows can be settled again while it is paid out; 671,093 states. `v_payday` is a
finding: one settlement and one payout, 522 states, and a queue that refuses the ids of the weekly run
(`TakesColonIds` FALSE). BullMQ throws on a custom id with one colon, and `package-lock.json` locks 5.70.0; the
run catches the error and counts the row as skipped (`payout.service.js:189-207`), so a PENDING row is never decided
although it is asked for every week. `TakesColonIds` TRUE is the queue the code was written for: with it the same instance passes
(64,153 states). `finance` and `v_ledger` have it TRUE, so that payouts happen in them as they would once the id is mended; the
theorems hold for both. Fairness of `v_payday`: the cron runs every week, the queue forgets old jobs
(`removeOnComplete`, `removeOnFail`), the worker takes waiting jobs, started statements end, and crashes do not go on
for ever. `NoWaitCycle` says that ledger transactions never wait for each other in a circle, which they could if one that
waits held a row that another wants. `v_ledger` is a finding.

## 9. ShopStock

| state | code |
|---|---|
| `stock[p]`, `moved[p]` | `shop_products.stock_quantity`; history: the sum of its changes |
| `book[x]` : status, taken, restored | `orders` and `bulk_orders` rows; history: how often the lines were taken from the stock and given back |
| `doubtful` | history: books whose count the code does not keep |
| `task[t]` : at, kind, of, to, todo, held, value, failed | the request and its open transaction: the rows it holds locked, those still to come, and what it has computed for each product |

| actions | code |
|---|---|
| `PlaceOrder`, `InsertOrder`, `FindWarehouse` | `placeOrder`: its tests on unlocked reads, then per shop the number row, the insert under the unique index, the lines; each line looks up its warehouse through the pool |
| `CancelOrder`, `GetOrderItems` | the customer's `cancelOrder`, which reads the lines through the pool inside its transaction |
| `ShopCancel` | the shop's `cancel`, which locks the order and tests again |
| `DeskCancel`, then its second job | the dashboard's `cancelOrder`: the status in one transaction, the stock in another |
| `MoveOrder`, `MoveBulk`, `Move` | statuses tested on a read and written by a statement of their own |
| `MoveBulkStock` | confirming and cancelling a bulk order under its lock |
| `LockBook`, `ChangeStock`, `Commit`, `Fail` | the statements of a transaction, its commit, its rollback |
| `AdjustStock` | `adjustStock`, `updateStock`, a manual lot: one row, one transaction |
| `Connect`, `TimeOut`, `DeadlockVictim`, `Crash` | the pool with its 2 s timeout, PostgreSQL's deadlock detection, the death of the process |

A step is a statement that locks one row. The locks decide everything here: `task[t].held` is what the
transaction has locked so far, `Free` is `FOR UPDATE`, and a value that was computed under a lock is written by
`Commit`. Carts of several shops, and lists of lines in no promised order (they share their created_at), make
circles of waiting possible; so does a second connection asked for while the first is held.

No product is de-listed here: giving back skips the line of one without an error
(`shop-products.repository.js:814-829`, `bulk-orders.service.js:814-818`), so its unit is lost while the model
counts the lines of an order as one whole.

`HeldOnce` speaks of books that are not in `doubtful`. A book gets there when two requests on it overlap and
one of them trusted an unlocked read, when the dashboard cancels it through `updateStatus`, which gives nothing
back, or when the second transaction of its own cancel fails. These are real losses (section 10), named so
that the rest can be stated exactly. A doubtful book takes no further request; that is a bound, and
the only use any guard makes of `doubtful`.

`stock` has two shops, three products with one unit each, two checkouts (one with a `clientOrderRef`, one
over both shops without), a bulk order for products that the checkouts want too, two requests at a time and
two connections, every kind of request and crashes; 523,448 states. One unit per line is enough, since a
line moves as a whole. Two requests with two connections are enough for every circle of two; the constraint
`OneDoubt` (one doubtful book at a time) and counts that set one stock to 0 (`Levels`) bound the rest. No stock
change is lost (`StockIsSum`) or sells below zero (`TypeOK`), `HeldOnce`, `OncePerAttempt`, and `NoStandstill`: some
request can always go on. It is stated by the guards of the steps (`MayStep`) and not by ENABLED, so that it can be
proved; TLC found the two equal in every state of the instance. Every statement of a request comes closer to its end, so this excludes waiting
for ever without any fairness.

## 10. What the checks show

Findings (runs that end in a violation; `PROJECT.json` quotes the lines that disagree):

| run | what happens |
|---|---|
| `v_orphan` | the customer's cancel reads the order unpaid, a finalizer confirms it, the cancel overwrites it with CANCELLED/FAILED: the payment stays PAID, nothing flags it, nothing refunds it (`orders.service.js:441`, 455) |
| `v_payday` | the weekly run cannot enqueue a row, every week, because the queue refuses `process-payout:<id>`: the row stays PENDING |
| `v_award` | a crash inside the award: the quote, marked on the pool, stays SELECTED while the requirement is PUBLISHED, and the unique index on selected quotes then refuses every other award |
| `v_ledger` | one settlement of one order, alone: revenue and commission share their created_at, the random id makes the first of the two the latest, and the balance stays at the revenue |

Observations met while modelling that no run states, because one sequential call shows them, because a
property above already excludes the case by name, or because the model does not follow them.

Orders and payments:

- the expiry worker tests for order status PENDING, which checkout never writes: the payment expires, the order
  stays and keeps its stock (`payment-expiry.worker.js:164`); a capture between its question to Razorpay and its
  EXPIRED write is never recorded (223), since recovery looks at FAILED rows only;
- an admin cancel with a refund to the wallet leaves the payment PAID: the cancelled order can be refunded
  again (`admin/orders/orders.service.js:695`); a refund of the order leaves out the wallet slice (714);
- the failure of a second Razorpay order writes FAILED over a PAID order (`payments.service.js:646`), and a failure
  webhook may overwrite PAID with FAILED (637), which only the recovery sweep repairs;
- what is outstanding is computed as total_payable less wallet_amount, at the desk (`admin/orders/orders.service.js:341`) and
  at the door (`delivery.service.js:1074-1080`), although total_payable is already without the wallet slice;
- an order settled at the desk while its Razorpay payment is captured is paid twice: the payment is not flagged, since
  the settlement leaves the order ORDER_PLACED; a reversal then writes PENDING over what Razorpay paid;
- an ONLINE order nobody paid, confirmed at the desk and delivered, is PAID, and refunds are based on that;
- two cancels that both read the placed order restore its stock twice (`orders.service.js:445`);
- `payment.authorized` is finalized like a capture (`payments.service.js:600`); the signature-mismatch path does
  not pass `allowRecoveryFromFailed` (211, against 261-266).

Refund requests:

- a request is rejected while its approval moves the money: REJECTED and refunded (`refund-requests.service.js:262`);
- a gateway refund whose row could not be written counts as refused, the claim is released, and the next
  approval pays again (`payments.service.js:748`): `ApprovedPaidOnce` counts requests without such a failure;
- an item-level approval to the wallet leaves the whole order refundable; a partial refund's webhook marks the
  whole order REFUNDED; a crash leaves a request PROCESSING.

Delivery:

- two accepts of one rider for two orders lock different rows, and both pass the busy check
  (`delivery.repository.js:312`); two overlapping assignments of one order can leave two claims (the torn orders);
- the customer's cancel of a cash order leaves the rider's assignment open, and the pick-up sets
  OUT_FOR_DELIVERY again; a cash order the dashboard set to DELIVERED stays cancellable by the customer;
- a settlement reversed, or a payment reported failed, after the delivery leaves a delivered order unpaid, and the
  customer can cancel it;
- two riders who reject the last two offers at once each still see the other's offer: nobody requeues the order;
- an auto-assign job that failed three times keeps its id for seven days (`delivery.service.js:1162`), so
  the order cannot be queued again; the OTP attempt counter is read and incremented in separate calls;
  `createSettlement` settles collections that came in after it summed them up.

Wallet:

- `payFromWallet` debits before it writes the order and never tests it again (`wallet.service.js:484`): a double tap
  debits twice, a crash in between leaves the order debited and unpaid, a cancelled order is set CONFIRMED;
- a refund to the wallet ignores max_wallet_balance, which every other credit but a top-up's keeps;
- a bad signature marks a top-up FAILED for good, although its payment may be captured;
- a webhook is recorded before it is processed, so that a crash drops its retries: the worker is the net.

Vendor procurement:

- the other writes on the pool inside a transaction (recipient AWARDED, supply order RECEIVED, requirement
  COMPLETED) survive a rollback like that of `v_award`;
- cancel, expire, decline, withdraw and every supply status are written without a condition on the status that
  was read: a late one falls on an awarded requirement, a double click moves a supply order back;
- two submissions of one vendor leave two live quotes; an edit of a draft races its publication; the vendor's
  eligibility is tested before, never in, the award; IN_FULFILMENT is never written.

Shop finance:

- every repetition of a settlement posts all its orders to the ledger again, though its worker calls itself
  idempotent; the upsert overwrites the amounts of PAID and HELD rows; refunds are a constant 0, and a
  late refund is erased by the next run; nothing produces `late-refund` jobs;
- daily, weekly and monthly rows of the same revenue are all paid out: the cron does not filter by period type;
- PAYOUT_CREDIT adds to the balance; the delivery fee is in the payout and not in the ledger;
- the other jobs with one colon in their id are refused like those of `v_payday`: `scheduled-order:<id>`
  (`scheduled-orders.service.js:40`), `recompute-by-shop:<id>` (`allocation.service.js:399`, `shops.service.js:221`);
- `nextPayoutState` is never called, although its header says every transition goes through it.

Stock, cancels and bulk orders:

- the customer's cancel catches the error of each line (`restoreStockForCancelledOrder`): when PostgreSQL has made
  it a deadlock victim, the transaction is aborted, its COMMIT rolls back without an error, and history and
  event say CANCELLED of an order that is not;
- the dashboard's `updateStatus` to CANCELLED restores no stock, although comments
  (`admin/orders/orders.service.js`, `shop-products.repository.js`) say that every path to CANCELLED does;
- the dashboard's cancel commits the status before it gives the lines back: if that fails, they are lost;
- a bulk order's unlocked moves overwrite what they did not read: a cancel of a submitted order that
  overlaps its confirmation leaves it CANCELLED with its stock deducted, PROCESSING may overwrite a cancel that
  gave the stock back;
- of two requests with the same `clientOrderRef` that overlap, the second gets the unique violation as an error
  and not the order of the first;
- `updateStock`, bulk orders and the expiry worker change stock without a `stock_movements` row, against what the
  comment of `applyStockChange` says of that table;
- a warehouse or a list of lines is looked up through the pool inside a transaction: when all connections are
  held by such transactions, only the 2 s timeout lets one of them go on.

Checkout and scheduled orders (of these only the unique index and the pool are modelled):

- `OrderSplitterService.createOrders` calls `generateOrderNumber` and `create` of the orders repository
  (`order-splitter.service.js:463`), which it does not have: every scheduled order that comes due fails, and its row
  stays SCHEDULED; the periodic sweep its comments promise does not exist;
- `recordUsageForOrder` reads `couponCode` and `userId` of a row whose columns are in snake case
  (`coupons.service.js:808`): coupon usage is never recorded, so usage limits never bite;
- a checkout of several shops that carries a `clientOrderRef` always fails: one order per shop meets a unique
  index on the customer and the reference (`migrations/127`, 36-38);
- the `catch` around the consumption of lots that "never blocks the sale" (`orders.service.js:273`) cannot save a
  transaction one of whose statements failed; a cancellation restores stock but no lots.

Every property of the passing runs, with what would break it, is in `PROJECT.json` under `mutants`.

### Proofs

TLAPS proves, for every number of orders, payments, riders, vendors, quotes, users, rows, requests and tasks,
and every value of the amounts and bounds, under nothing but each module's `ConstantsAssumption`:

| module | theorems | inductive invariant |
|---|---|---|
| `OrderPaymentsProofs` | `TypeCorrect`, `WalletTakenOnceHolds`, `NoSilentDoubleChargeHolds` | `StateInv`, `WalletInv`, `ChargeInv` |
| `OrderReportsProofs` | `PaidOrderWasPaidHolds`, `WalletTakenAfterReportHolds`, `RecordedRefundHappenedHolds`, `CapturedNeverOrphanedHolds`, `SerialNeverOrphans` | `StateInv`, `ReportInv`, `OrphanInv` |
| `RefundRequestsProofs` | `TypeCorrect`, `ApprovedPaidOnceHolds`, `ClaimHasOwnerHolds`, `ResolutionSticksHolds` | `StateInv`, `PayInv`, `MoneyInv` |
| `DeliveryProofs` | `TypeCorrect`, `ClaimIsTheRidersHolds`, `OffersClosedHolds`, `InStepHolds`, `DeliveryCountsOnceHolds`, `DeliveredSticksHolds` | `StateInv`, `ClaimInv`, `DoneInv`, `CashInv` |
| `VendorProcurementProofs` | `TypeCorrect`, `AwardMatchesSupplyHolds`, `PackedWithEvidenceHolds`, `TenderKeptHolds`, `GoodsInOrderHolds`, `EachOnceHolds`, `SelectedMeansAwardedHolds` | `StateInv`, `SupplyInv`, `GoodsInv`, `SelectInv` |
| `WalletLedgerProofs` | `TypeCorrect`, `PaidIsCreditedOnceHolds`, `SettledIsFinalHolds`, `DebitedOnceHolds`, `CapHoldsHolds`, `MoneyConservedHolds` | `StateInv`, `LockInv`, `TopUpInv`, `PayInv`, `MoneyConserved` |
| `ShopFinanceProofs` | `TypeOKHolds`, `NoWaitCycleHolds`, `HeldAfterThreeHolds`, `MachineKeptHolds`, `CreditedOnceHolds`, `BalanceIsSumSerially` | `StateInv`, `PayoutInv`, `OrdersInv`, `LedgerInv`, `SumInv` |
| `ShopStockProofs` | `TypeCorrect`, `NoChangeIsLost`, `AttemptPlacedOnce`, `LinesHeldOnce`, `NoStandstillHolds` | `StateInv`, `LockInv`, `PlaceInv`, `BookInv` |

None of the properties is inductive alone, because a task carries what it read across other tasks' steps.
`StateInv` therefore says what a task holds at each step (`JobOK`): that the payment it will finalize is
inserted, the row it will write belongs to its order. On top of it:

- `WalletInv`: while a task is between claim and debit, the order is claimed, not debited, and no other
  task is there. The claim is a guarded UPDATE, so it is won once. `ChargeInv`: a clean PAID row has moved
  its order past ORDER_PLACED, so a second finalizer finds it not confirmable and flags its row.
- `ReportInv`: an order with money outstanding is PAID by a report, by entries that add up to what the desk took for
  outstanding, or by a delivery; whoever is about to finalize, claim, debit or record a refund holds evidence from Razorpay, and
  evidence lasts (`Lasts`): Razorpay takes no report back and a payments row keeps its order. That needs one
  more fact: a row is inserted by one task only, for a Razorpay order opened for it (`OneInserts`,
  `OpenedFirst`), or an insert could move a reported payment to another order.
- `PayInv`: a claimed request is in the hands of one approval, and is unpaid until that approval pays.
  `MoneyInv`: whoever is about to record a refund has made one.
- `ClaimInv`: a claim is exclusive, matches the order's rider, has no open offer beside it, and its order is
  not at its end; and while an accept holds the lock, the order is still assignable, which is why the
  claim is safe although other tasks ran since the check. Every other step is *calm* (`Calm`): it makes
  no claim, adds no offer beside one, and leaves a claimed order's rider and status compatible. One
  lemma (`CalmKeeps`) shows that calm steps preserve the invariant, one lemma per action that it is calm.
- `DoneInv`: an intact delivered order has a final status, no claims, and is PAID if it says DELIVERED; a customer
  who read an order as DELIVERED and unpaid read one that no rider delivered. `CashInv`: a cash order
  with an amount due that the desk never settled has its collection when it is paid or a request is about to deliver it.

- `VendorProcurementProofs`: `SupplyInv` says that one task at most is between the lock of the requirement and
  its commit, that what it is about to commit is the only award there can be while no supply order exists, and
  that a packed order, or a task about to write a later status, has evidence. `GoodsInv` says that
  receipt, lot and shelf are filled in this order by one task, the one that committed the receipt.
  `TenderKeptHolds` maps every commit to a step of `Tender` and every other action to a stutter.
- `WalletLedgerProofs`: `LockInv` says that a transfer alone holds its sender's wallet and that the wallet still
  covers it, which is why no balance gets negative although the debit comes a step after its check.
  `TopUpInv`: a top-up's row is inserted once, and whoever is about to complete it saw a payment, and a payment
  at Razorpay is not unseen. `PayInv`: an order outside `doubtful` has one payment in progress at most.
- `ShopFinanceProofs`: `PayoutInv` says that a row is held by one payout at most and is PENDING while it is held,
  that the failures since the last release are at most the attempts counted, and `HeldAfterThree` itself.
  `MachineKeptHolds` has one lemma per action: the row it moves in the table, or nothing.
- `ShopStockProofs`: every action is one of five shapes (`Arrival`, `Statement`, `Fail`, `Commit`, a count), so that each
  part of the invariant is shown for five steps and not for twenty. `LockInv`: no two tasks hold the same row,
  and what a task will write to a product it holds is one more or one less than the stock. `PlaceInv`: a
  checkout that got past the unique index, or needs not pass it, is alone with orders that were never
  placed; it holds all rows of its cart when it commits, so that a second one of the attempt has locked nothing.
  `BookInv`: nobody else is about a book outside `doubtful` that a request trusts an unlocked read of, and what a
  request found under the lock of a book still holds.

Every invariant and action property of the passing runs is stated by a theorem, and each inductive invariant was
also checked with TLC on the instances of the runs. Some theorems say more than a run can, or need a hypothesis:

- `CapturedNeverOrphanedHolds`: what `v_orphan` refutes, the promise of the customer's cancel, holds where the desk
  reverses no settlement (a reversal writes PENDING over PAID, and the cancel passes) in every behaviour in which no order
  gets two payments rows (`OneRowPerOrder`) and no finalizer works on an order whose payment status another task
  is about to overwrite (`NoOverlap`). The first fails when a second Razorpay order of one order is declined: its
  webhook marks the PAID order FAILED, and a cancel follows. The second fails in the race of `v_orphan`. TLC shows
  a counterexample as soon as one of the three is dropped, and none with all, two tasks and two payments. `OrphanInv`: the
  order of a clean PAID row is PAID, and what a task about to cancel or to write FAILED or REFUNDED has learned
  still holds. `SerialNeverOrphans` is the case of one task and one payment, where both hypotheses hold by
  themselves: any number of orders and every kind of request but the reversal, crashes and refunds included.
- `SelectedMeansAwardedHolds`: what `v_award` refutes holds if no task dies inside the award, after its quote is
  SELECTED and before the commit (`AwardSurvives`); crashes anywhere else do no harm. So that gap is the only one.
- `BalanceIsSumSerially`: what `v_ledger` refutes holds if a row's id is later than those its transaction wrote
  before (`IdsAscend`) and no two appending transactions are open at once (`OneOpen`). TLC refutes it without
  either: overlapping transactions write from the same balance (the first appends of all lock nothing, a waiter
  goes on from the row it selected before), even when ids ascend. `SumInv`: the last balance of the open
  transaction is the committed balance and what it has appended.
- `GoodsInOrderHolds`, `EachOnceHolds`: proved of `Tender` alone in a few lines and carried over by `TenderKept`.
  `CreditedOnceHolds` is the like for `PayoutMachine`: one ledger entry of a row at most, and only if it is PAID.

Some proofs rest on how a thing is said. `Total` and `WeekAmount` are cardinalities of sets of units, for which the
library has the facts about union and product that a fold would need an induction for; hence the assumptions that
users, orders and days are finitely many. The ledger's rows are numbered as they are committed, so that "from older to
newer" is an order of numbers: `LedgerInv` says that a transaction locks them upwards, one transaction holds a row,
and one that waits has picked a row above all it holds. In a circle, take the waiter that picked the highest row:
whoever holds that row waits, too, and has picked a higher one. `NoStandstillHolds` argues the other way about: where nobody may step, everybody waits for somebody,
and of finitely many tasks some then wait in a circle (the least set closed under waiting), which PostgreSQL breaks.

Only model-checked: the liveness properties `FailedCaptureRecovered`, `CapturedSettles` and `TransfersEnd`, since TLAPS has
no fairness reasoning here. `PendingIsDecided` is what `v_payday` refutes.

## 11. Plan

Order: the money paths first, then what moves goods, then what repeats. Done: `OrderPayments`, `RefundRequests`,
`Delivery`, `VendorProcurement`, `WalletLedger`, `ShopFinance`, `ShopStock`. Next:

1. The rest of the checkout: coupons, lots in FEFO order and purchase limits under concurrent carts; an abstract
   stock of which `ShopStock` and the lots are two refinements.
2. `DispatchQueue`: the auto-assign job (id, retries, retention), the requests that queue it and the
   rejections that should; liveness "an unclaimed order is offered again", with the shifts API as another
   writer. Abstract specification: an order is unassigned, offered or claimed; `Delivery` refines it.
3. Rider cash: collections, settlements and their approval.
4. Sessions and OTP: refresh token rotation, attempt counters.
5. Allocation: the coalesced recomputation against address changes.

Theorems next: for each new module its type invariant and its at-most-once property; for
`Delivery` and `OrderPayments` an abstract specification each, of an order's life, to carry their promises as `Tender` does.
The runs stay one per question.

## 12. What is not modelled, and why

`PROJECT.json` gives the reason per component. In short: prices, discounts and taxes are computed from one
customer's cart and do not race (amounts are 0, 1 or 2 here, what the wallet covers and what is due);
notifications are best-effort and nobody waits for them; dashboards and master data are plain create, read,
update and delete; maps, couriers and uploads are HTTP clients. Time appears only as "may happen": an expiry or
a poll can come at any moment after its precondition holds, which includes the moments a clock would choose.

Most of the repository's lines are of these kinds: of about 113,000 lines, the greater part are routes, schemas,
mappers, list queries, seed data, scripts and display modules (catalogue, themes, banners, settings), with
no state that two requests contend for. The models cover the services, repositories and workers in which they do.
Scheduled orders are left out because the code cannot place one (section 10); cashback because nothing
calls it; the older purchase orders because one status column per row is all they have.

--------------------------- MODULE OrderPayments ---------------------------
(***************************************************************************)
(* The life of an ONLINE order and of its Razorpay payments: checkout,     *)
(* payment rows, the finalizer every confirmation goes through, the        *)
(* deferred wallet debit, the expiry and recovery sweeps, cancellation by  *)
(* customer and admin, refunds, and the two other writers of PAID: the     *)
(* rider who delivers and the desk that settles by hand.                   *)
(*                                                                         *)
(* A request is served by a task.  A task runs one statement or one        *)
(* BEGIN..COMMIT block per step and keeps what it read in its own record;  *)
(* tasks interleave between steps, and a task that crashes (or whose       *)
(* statement throws) leaves what it had committed.  Razorpay is external.  *)
(***************************************************************************)
EXTENDS Naturals, FiniteSets

CONSTANTS
  Orders,       \* checkout attempts of one customer, one item of one product each
  Pays,         \* rows of payments, one Razorpay order each
  Tasks,        \* requests, webhook deliveries and worker polls in progress
  Requests,     \* the kinds of request and of failure that occur
  Targets,      \* the statuses the dashboard asks for
  Share,        \* wallet_amount of each order
  Due,          \* total_payable of each order: what the wallet does not cover
  InitBalance,  \* the customer's wallet balance
  InitStock,    \* stock_quantity of the product
  RestoreCap,   \* bound: an order restored so often is not cancelled again
  CreditCap,    \* bound: an order credited so often is not refunded again
  NoOrder, NoPay

RequestKinds == {"pay", "verify", "mismatch", "webhook", "failed", "expiry",
                 "sweep", "reconcile", "cancel", "status", "cancelNoRefund",
                 "cancelToOriginal", "cancelToWallet", "toOriginal", "toWallet",
                 "refund", "refunded", "rider", "settle", "reverse", "crash"}

ASSUME ConstantsAssumption ==
  /\ Requests \subseteq RequestKinds
  /\ Share \in [Orders -> Nat] /\ Due \in [Orders -> Nat]
  /\ \A o \in Orders : Due[o] + Share[o] > 0
  /\ InitBalance \in Nat /\ \A o \in Orders : Share[o] <= InitBalance
  /\ InitStock \in Nat /\ RestoreCap \in Nat /\ CreditCap \in Nat
  /\ NoOrder \notin Orders /\ NoPay \notin Pays

VARIABLES
  order,     \* rows of orders, each with its claimed delivery_assignments row and
             \* what its open payment_settlements entries add up to
  row,       \* rows of payments
  rzp,       \* Razorpay's own record of each Razorpay order
  stock,     \* shop_products.stock_quantity
  restored,  \* CANCELLATION_RESTORE movements of each order
  balance,   \* wallets.balance
  debits,    \* wallet debits made for each order
  credits,   \* wallet refunds made for each order
  task

vars == <<order, row, rzp, stock, restored, balance, debits, credits, task>>
stockVars == <<stock, restored>>
walletVars == <<balance, debits, credits>>

OrderStatus == {"NONE", "ORDER_PLACED", "PENDING", "CONFIRMED", "PREPARING",
                "PACKED", "OUT_FOR_DELIVERY", "DELIVERED", "CANCELLED", "REFUNDED"}
PayStatus == {"PENDING", "PAID", "FAILED", "EXPIRED", "REFUNDED"}

AdminTransitions ==
  {<<"ORDER_PLACED", "CONFIRMED">>, <<"ORDER_PLACED", "CANCELLED">>,
   <<"PENDING", "CONFIRMED">>, <<"PENDING", "CANCELLED">>,
   <<"CONFIRMED", "PREPARING">>, <<"CONFIRMED", "CANCELLED">>,
   <<"PREPARING", "PACKED">>, <<"PREPARING", "CANCELLED">>,
   <<"PACKED", "OUT_FOR_DELIVERY">>,
   <<"OUT_FOR_DELIVERY", "DELIVERED">>, <<"OUT_FOR_DELIVERY", "CANCELLED">>,
   <<"CANCELLED", "REFUNDED">>}
AdminTargets == {e[2] : e \in AdminTransitions}
Assignable == {"CONFIRMED", "PREPARING", "PACKED"}

ASSUME TargetsAssumption == Targets \subseteq AdminTargets

(***************************************************************************)
(* Tasks.  at is the next step; ord and pay are the rows it works on; src  *)
(* is the caller, where it decides what follows; seen is the status an     *)
(* admin asks for.                                                         *)
(***************************************************************************)
Steps == {"idle", "insertRow", "finalize", "claim", "settle", "askRazorpay",
          "expire", "failRow", "failOrder", "cancel", "adminWrite", "restore",
          "pickRefund", "refundCheck", "refundCall", "refundRow", "refundOrder",
          "credit"}
Sources == {"none", "mismatch", "expiry", "sweep", "cancelNoRefund", "cancelToOriginal", "cancelToWallet",
            "toOriginal", "toWallet"}

Job(at, o, p, src, seen) ==
  [at |-> at, ord |-> o, pay |-> p, src |-> src, seen |-> seen]
Idle == Job("idle", NoOrder, NoPay, "none", "none")

Begin(t, kind, job) ==
  /\ kind \in Requests
  /\ task[t] = Idle
  /\ task' = [task EXCEPT ![t] = job]
At(t, step) == task[t].at = step
GoTo(t, job) == task' = [task EXCEPT ![t] = job]
Done(t) == GoTo(t, Idle)

NoOrderRow == [status |-> "NONE", payStatus |-> "PENDING", debited |-> FALSE, latest |-> NoPay,
               rider |-> "none", handed |-> FALSE, received |-> 0]
NoPayRow == [ord |-> NoOrder, status |-> "PENDING", review |-> FALSE]

Init ==
  /\ order = [o \in Orders |-> NoOrderRow]
  /\ row = [p \in Pays |-> NoPayRow]
  /\ rzp = [p \in Pays |-> [state |-> "none", declined |-> FALSE, refunded |-> FALSE]]
  /\ stock = InitStock
  /\ restored = [o \in Orders |-> 0]
  /\ balance = InitBalance
  /\ debits = [o \in Orders |-> 0]
  /\ credits = [o \in Orders |-> 0]
  /\ task = [t \in Tasks |-> Idle]

Placed(o) == order[o].status # "NONE"
Inserted(p) == row[p].ord # NoOrder

-----------------------------------------------------------------------------
(* Checkout: the transaction of placeOrder for one ONLINE order.  An order *)
(* the wallet covers is born PAID and debited at once; otherwise the wallet *)
(* slice stays pending on the row.  Placement's own races are elsewhere.   *)

(* Mutant: the wallet slice is taken although money is outstanding.        *)
PlaceOrderDebitNow(o) ==
  /\ ~Placed(o) /\ Due[o] > 0 /\ stock > 0 /\ balance >= Share[o]
  /\ order' = [order EXCEPT ![o].status = "ORDER_PLACED", ![o].debited = TRUE]
  /\ stock' = stock - 1
  /\ balance' = balance - Share[o]
  /\ debits' = [debits EXCEPT ![o] = @ + 1]
  /\ UNCHANGED <<row, rzp, restored, credits, task>>

PlaceOrder(o) ==
  /\ ~Placed(o) /\ Due[o] > 0 /\ stock > 0
  /\ order' = [order EXCEPT ![o].status = "ORDER_PLACED"]
  /\ stock' = stock - 1
  /\ UNCHANGED <<row, rzp, restored, walletVars, task>>

PlaceCoveredOrder(o) ==
  /\ ~Placed(o) /\ Due[o] = 0 /\ stock > 0 /\ balance >= Share[o]
  /\ order' = [order EXCEPT ![o].status = "ORDER_PLACED", ![o].payStatus = "PAID",
                            ![o].debited = TRUE]
  /\ stock' = stock - 1
  /\ balance' = balance - Share[o]
  /\ debits' = [debits EXCEPT ![o] = @ + 1]
  /\ UNCHANGED <<row, rzp, restored, credits, task>>

(* createPaymentOrder: the checks and the Razorpay order, then the row.    *)
CreatePaymentOrder(t, o, p) ==
  /\ Placed(o) /\ order[o].payStatus # "PAID"
  /\ order[o].latest # NoPay => row[order[o].latest].status # "PAID"
  /\ rzp[p].state = "none"
  /\ Begin(t, "pay", Job("insertRow", o, p, "none", "none"))
  /\ rzp' = [rzp EXCEPT ![p].state = "open"]
  /\ UNCHANGED <<order, row, stockVars, walletVars>>

InsertPaymentRow(t) ==
  LET p == task[t].pay  o == task[t].ord IN
  /\ At(t, "insertRow")
  /\ row' = [row EXCEPT ![p] = [ord |-> o, status |-> "PENDING", review |-> FALSE]]
  /\ order' = [order EXCEPT ![o].latest = p]
  /\ Done(t)
  /\ UNCHANGED <<rzp, stockVars, walletVars>>

-----------------------------------------------------------------------------
(* Razorpay.  A declined attempt leaves the Razorpay order open for another *)
(* one; an authorization is captured or lapses.                            *)

Razorpay(p, from, to) ==
  /\ Inserted(p) /\ rzp[p].state = from
  /\ rzp' = [rzp EXCEPT ![p].state = to]
  /\ UNCHANGED <<order, row, stockVars, walletVars, task>>

Authorize(p) == Razorpay(p, "open", "authorized")
Capture(p) == Razorpay(p, "authorized", "captured")
Lapse(p) == Razorpay(p, "authorized", "lapsed")

Decline(p) ==
  /\ "failed" \in Requests
  /\ Inserted(p) /\ rzp[p].state = "open" /\ ~rzp[p].declined
  /\ rzp' = [rzp EXCEPT ![p].declined = TRUE]
  /\ UNCHANGED <<order, row, stockVars, walletVars, task>>

(* Razorpay signs the client callback and emits payment.authorized,        *)
(* order.paid and payment.captured only for a payment it authorized.       *)
Reported(p) == rzp[p].state \in {"authorized", "captured", "lapsed"}

-----------------------------------------------------------------------------
(* Requests about one payment: the read each of them starts from.          *)

Ask(t, kind, p, src) ==
  /\ Inserted(p)
  /\ Begin(t, kind, Job("askRazorpay", NoOrder, p, src, "none"))
  /\ UNCHANGED <<order, row, rzp, stockVars, walletVars>>

(* verifyPayment with a good signature, and a paid webhook.                *)
ReportPaid(t, kind, p) ==
  /\ Reported(p)
  /\ Begin(t, kind, Job("finalize", NoOrder, p, "none", "none"))
  /\ UNCHANGED <<order, row, rzp, stockVars, walletVars>>

VerifyPayment(t, p) == ReportPaid(t, "verify", p)
VerifyMismatch(t, p) ==
  Ask(t, "mismatch", p, IF row[p].status = "PENDING" THEN "mismatch" ELSE "none")
WebhookPaid(t, p) == ReportPaid(t, "webhook", p)

WebhookFailed(t, p) ==
  /\ rzp[p].declined /\ row[p].status = "PENDING"
  /\ Begin(t, "failed", Job("failRow", NoOrder, p, "none", "none"))
  /\ UNCHANGED <<order, row, rzp, stockVars, walletVars>>

ProcessExpired(t, p) == row[p].status = "PENDING" /\ Ask(t, "expiry", p, "expiry")
RecoverFailed(t, p) == row[p].status = "FAILED" /\ Ask(t, "sweep", p, "sweep")
AdminReconcile(t, o) ==
  order[o].latest # NoPay /\ Ask(t, "reconcile", order[o].latest, "none")

(* reconcileWithRazorpay, and what its caller does when nothing was        *)
(* captured: only the expiry worker and a mismatch that had read PENDING   *)
(* write.  The sweep alone may finalize a FAILED row.                      *)
After(j, at) ==
  Job(at, NoOrder, j.pay, IF at = "finalize" /\ j.src = "sweep" THEN "sweep" ELSE "none", "none")

ReconcileCaptured(t) ==
  /\ At(t, "askRazorpay") /\ rzp[task[t].pay].state = "captured"
  /\ GoTo(t, After(task[t], "finalize"))
  /\ UNCHANGED <<order, row, rzp, stockVars, walletVars>>

ReconcileNothing(t) ==
  LET j == task[t] IN
  /\ At(t, "askRazorpay") /\ rzp[j.pay].state # "captured"
  /\ CASE j.src = "expiry" -> GoTo(t, After(j, "expire"))
       [] j.src = "mismatch" -> GoTo(t, After(j, "failRow"))
       [] OTHER -> Done(t)
  /\ UNCHANGED <<order, row, rzp, stockVars, walletVars>>

-----------------------------------------------------------------------------
(* completeVerifiedPayment: one transaction on the locked payments row,    *)
(* then on the locked orders row.  Only the recovery sweep may take a      *)
(* FAILED row.                                                             *)

(* Mutants: nobody may take a FAILED row; only a cancelled order is        *)
(* protected from being confirmed again.                                   *)
RecoversNever(t) == FALSE
ConfirmableUnlessCancelled(t) == order[row[task[t].pay].ord].status # "CANCELLED"

Recovers(t) == task[t].src = "sweep" /\ row[task[t].pay].status = "FAILED"
Finalizable(t) == row[task[t].pay].status = "PENDING" \/ Recovers(t)
Confirmable(t) == order[row[task[t].pay].ord].status = "ORDER_PLACED"

FinalizeRefused(t) ==
  /\ At(t, "finalize") /\ ~Finalizable(t)
  /\ Done(t)
  /\ UNCHANGED <<order, row, rzp, stockVars, walletVars>>

FinalizeMovedOn(t) ==
  /\ At(t, "finalize") /\ Finalizable(t) /\ ~Confirmable(t)
  /\ row' = [row EXCEPT ![task[t].pay].status = "PAID", ![task[t].pay].review = TRUE]
  /\ Done(t)
  /\ UNCHANGED <<order, rzp, stockVars, walletVars>>

FinalizeConfirm(t) ==
  LET p == task[t].pay  o == row[p].ord IN
  /\ At(t, "finalize") /\ Finalizable(t) /\ Confirmable(t)
  /\ row' = [row EXCEPT ![p].status = "PAID"]
  /\ order' = [order EXCEPT ![o].status = "CONFIRMED", ![o].payStatus = "PAID"]
  /\ GoTo(t, Job("claim", o, NoPay, "none", "none"))
  /\ UNCHANGED <<rzp, stockVars, walletVars>>

(* _settleWalletIfPending, after the commit: claim, then debit.            *)
(* Mutants: the claim is tested, not written; the balance is not tested.   *)
ClaimUnwritten(t) ==
  /\ At(t, "claim") /\ ~order[task[t].ord].debited /\ Share[task[t].ord] > 0
  /\ GoTo(t, [task[t] EXCEPT !.at = "settle"])
  /\ UNCHANGED <<order, row, rzp, stockVars, walletVars>>
AffordableUnchecked(o) == TRUE

ClaimWalletDebit(t) ==
  LET o == task[t].ord IN
  /\ At(t, "claim")
  /\ IF ~order[o].debited /\ Share[o] > 0
       THEN /\ order' = [order EXCEPT ![o].debited = TRUE]
            /\ GoTo(t, [task[t] EXCEPT !.at = "settle"])
       ELSE Done(t) /\ UNCHANGED order
  /\ UNCHANGED <<row, rzp, stockVars, walletVars>>

Affordable(o) == balance >= Share[o]
SettleWallet(t) ==
  LET o == task[t].ord IN
  /\ At(t, "settle")
  /\ IF Affordable(o)
       THEN /\ balance' = balance - Share[o]
            /\ debits' = [debits EXCEPT ![o] = @ + 1]
       ELSE UNCHANGED <<balance, debits>>
  /\ Done(t)
  /\ UNCHANGED <<order, row, rzp, stockVars, credits>>

-----------------------------------------------------------------------------
(* The two unguarded writes of a failed payment, and of the expiry worker. *)

FailRow(t) ==
  LET p == task[t].pay IN
  /\ At(t, "failRow")
  /\ row' = [row EXCEPT ![p].status = "FAILED"]
  /\ GoTo(t, [task[t] EXCEPT !.at = "failOrder"])
  /\ UNCHANGED <<order, rzp, stockVars, walletVars>>

FailOrder(t) ==
  /\ At(t, "failOrder")
  /\ order' = [order EXCEPT ![row[task[t].pay].ord].payStatus = "FAILED"]
  /\ Done(t)
  /\ UNCHANGED <<row, rzp, stockVars, walletVars>>

GiveBack(o) ==
  /\ stock' = stock + 1
  /\ restored' = [restored EXCEPT ![o] = @ + 1]

(* _cancelExpiredOrder: it tests the locked order for status 'PENDING',    *)
(* and writes the payments row whatever it holds by then.                  *)
CancelExpiredOrder(t) ==
  LET p == task[t].pay  o == row[p].ord
      untouched == order[o].status = "PENDING" /\ order[o].payStatus = "PENDING"
  IN
  /\ At(t, "expire")
  /\ row' = [row EXCEPT ![p].status = "EXPIRED"]
  /\ IF untouched
       THEN /\ order' = [order EXCEPT ![o].status = "CANCELLED", ![o].payStatus = "EXPIRED"]
            /\ GiveBack(o)
       ELSE UNCHANGED <<order, stockVars>>
  /\ Done(t)
  /\ UNCHANGED <<rzp, walletVars>>

-----------------------------------------------------------------------------
(* cancelOrder of the customer: an unlocked read, then one transaction.    *)

(* Mutant: the PAID check of the customer's cancel is dropped.             *)
CancelOrderAnyPayment(t, o) ==
  /\ Placed(o) /\ order[o].status # "CANCELLED"
  /\ restored[o] < RestoreCap
  /\ Begin(t, "cancel", Job("cancel", o, NoPay, "none", "none"))
  /\ UNCHANGED <<order, row, rzp, stockVars, walletVars>>

CancelOrder(t, o) ==
  /\ Placed(o) /\ order[o].payStatus # "PAID" /\ order[o].status # "CANCELLED"
  /\ restored[o] < RestoreCap
  /\ Begin(t, "cancel", Job("cancel", o, NoPay, "none", "none"))
  /\ UNCHANGED <<order, row, rzp, stockVars, walletVars>>

CommitCancel(t) ==
  LET o == task[t].ord IN
  /\ At(t, "cancel")
  /\ order' = [order EXCEPT ![o].status = "CANCELLED", ![o].payStatus = "FAILED"]
  /\ GiveBack(o)
  /\ Done(t)
  /\ UNCHANGED <<row, rzp, walletVars>>

(* The dashboard: updateStatus, cancelOrder and refundOrder of an admin.   *)
UpdateStatus(t, o, to) ==
  /\ <<order[o].status, to>> \in AdminTransitions
  /\ Begin(t, "status", Job("adminWrite", o, NoPay, "none", to))
  /\ UNCHANGED <<order, row, rzp, stockVars, walletVars>>

AdminCancel(t, o, src) ==
  /\ src \in {"cancelNoRefund", "cancelToOriginal", "cancelToWallet"}
  /\ src # "cancelNoRefund" => order[o].payStatus = "PAID"
  /\ <<order[o].status, "CANCELLED">> \in AdminTransitions
  /\ restored[o] < RestoreCap /\ credits[o] < CreditCap
  /\ Begin(t, src, Job("adminWrite", o, NoPay, src, "CANCELLED"))
  /\ UNCHANGED <<order, row, rzp, stockVars, walletVars>>

RefundOrder(t, o, src) ==
  /\ src \in {"toOriginal", "toWallet"}
  /\ order[o].status \in {"DELIVERED", "CANCELLED"} /\ order[o].payStatus = "PAID"
  /\ credits[o] < CreditCap
  /\ Begin(t, src, Job("pickRefund", o, NoPay, src, "none"))
  /\ UNCHANGED <<order, row, rzp, stockVars, walletVars>>

(* A terminal status closes the assignment in the same transaction.        *)
AdminWrite(t) ==
  LET j == task[t] IN
  /\ At(t, "adminWrite")
  /\ order' = [order EXCEPT
       ![j.ord].status = j.seen,
       ![j.ord].rider = IF j.seen \in {"DELIVERED", "CANCELLED"} THEN "none" ELSE @]
  /\ IF j.src = "none"
       THEN Done(t)
       ELSE GoTo(t, [j EXCEPT !.at = "restore", !.seen = "none"])
  /\ UNCHANGED <<row, rzp, stockVars, walletVars>>

(* _restoreStockForCancellation: its own transaction, its errors swallowed. *)
RestoreStock(t) ==
  LET j == task[t] IN
  /\ At(t, "restore")
  /\ \/ GiveBack(j.ord)
     \/ "crash" \in Requests /\ UNCHANGED stockVars
  /\ IF j.src = "cancelNoRefund"
       THEN Done(t)
       ELSE GoTo(t, [j EXCEPT !.at = "pickRefund"])
  /\ UNCHANGED <<order, row, rzp, walletVars>>

-----------------------------------------------------------------------------
(* Refunds.  The destination: the gateway when the latest payments row is  *)
(* PAID, the wallet otherwise -- except that refundOrder refuses.          *)

PickRefund(t) ==
  LET j == task[t]  p == order[j.ord].latest
      gateway == p # NoPay /\ row[p].status = "PAID"
  IN
  /\ At(t, "pickRefund")
  /\ CASE j.src \in {"toOriginal", "cancelToOriginal"} /\ gateway ->
            GoTo(t, [j EXCEPT !.at = "refundCheck", !.pay = p])
       [] j.src = "toOriginal" /\ ~gateway -> Done(t)
       [] OTHER -> GoTo(t, [j EXCEPT !.at = "credit"])
  /\ UNCHANGED <<order, row, rzp, stockVars, walletVars>>

(* creditWallet of the amount of the payment, or of total_payable.         *)
CreditWallet(t) ==
  LET j == task[t] IN
  /\ At(t, "credit")
  /\ balance' = balance + Due[j.ord]
  /\ credits' = [credits EXCEPT ![j.ord] = @ + 1]
  /\ IF j.src = "toWallet"
       THEN GoTo(t, Job("adminWrite", j.ord, NoPay, "none", "REFUNDED"))
       ELSE Done(t)
  /\ UNCHANGED <<order, row, rzp, stockVars, debits>>

(* refund: the PAID check, the gateway call, the row, the order.           *)
RefundPayment(t, p) ==
  /\ Inserted(p) /\ row[p].status = "PAID"
  /\ Begin(t, "refund", Job("refundCall", NoOrder, p, "none", "none"))
  /\ UNCHANGED <<order, row, rzp, stockVars, walletVars>>

RefundCheck(t) ==
  LET j == task[t] IN
  /\ At(t, "refundCheck")
  /\ IF row[j.pay].status = "PAID"
       THEN GoTo(t, [j EXCEPT !.at = "refundCall"])
       ELSE Done(t)
  /\ UNCHANGED <<order, row, rzp, stockVars, walletVars>>

(* Mutant: a refused refund is recorded like an accepted one.              *)
RefundCallUnchecked(t) ==
  /\ At(t, "refundCall")
  /\ GoTo(t, [task[t] EXCEPT !.at = "refundRow"])
  /\ UNCHANGED <<order, row, rzp, stockVars, walletVars>>

(* Razorpay refuses to refund what it never captured, or refunded already. *)
RefundCall(t) ==
  LET j == task[t]  accepted == rzp[j.pay].state = "captured" /\ ~rzp[j.pay].refunded IN
  /\ At(t, "refundCall")
  /\ IF accepted
       THEN /\ rzp' = [rzp EXCEPT ![j.pay].refunded = TRUE]
            /\ GoTo(t, [j EXCEPT !.at = "refundRow"])
       ELSE Done(t) /\ UNCHANGED rzp
  /\ UNCHANGED <<order, row, stockVars, walletVars>>

WebhookRefunded(t, p) ==
  /\ rzp[p].refunded /\ row[p].status # "REFUNDED"
  /\ Begin(t, "refunded", Job("refundRow", NoOrder, p, "none", "none"))
  /\ UNCHANGED <<order, row, rzp, stockVars, walletVars>>

RefundRow(t) ==
  LET j == task[t] IN
  /\ At(t, "refundRow")
  /\ row' = [row EXCEPT ![j.pay].status = "REFUNDED"]
  /\ GoTo(t, [j EXCEPT !.at = "refundOrder"])
  /\ UNCHANGED <<order, rzp, stockVars, walletVars>>

MarkOrderRefunded(t) ==
  LET j == task[t]  o == row[j.pay].ord IN
  /\ At(t, "refundOrder")
  /\ order' = [order EXCEPT ![o].status = "REFUNDED", ![o].payStatus = "REFUNDED"]
  /\ IF j.src = "toOriginal"
       THEN GoTo(t, Job("adminWrite", o, NoPay, "none", "REFUNDED"))
       ELSE Done(t)
  /\ UNCHANGED <<row, rzp, stockVars, walletVars>>

-----------------------------------------------------------------------------
(* The rider.  Each is one transaction on the locked orders row that tests *)
(* the assignment alone (accepting tests the status, too); none reads the  *)
(* payment.  Delivering needs no collection of an ONLINE order, and writes *)
(* PAID whatever the order was.  Offers and riders are in Delivery.        *)

Deliver(o, rider, ship) ==
  /\ "rider" \in Requests /\ order[o].rider = rider
  /\ order' = [order EXCEPT ![o] = ship]
  /\ UNCHANGED <<row, rzp, stockVars, walletVars, task>>

AcceptOrder(o) ==
  /\ order[o].status \in Assignable
  /\ Deliver(o, "none", [order[o] EXCEPT !.rider = "ACCEPTED"])

MarkPickedUp(o) ==
  Deliver(o, "ACCEPTED", [order[o] EXCEPT !.rider = "IN_TRANSIT", !.status = "OUT_FOR_DELIVERY"])

MarkDelivered(o) ==
  Deliver(o, "IN_TRANSIT", [order[o] EXCEPT !.rider = "none", !.handed = TRUE,
                                            !.status = "DELIVERED", !.payStatus = "PAID"])

CancelDelivery(o) ==
  \E rider \in {"ACCEPTED", "IN_TRANSIT"} :
    Deliver(o, rider, [order[o] EXCEPT !.rider = "none", !.status = "CANCELLED"])

(* The desk: recordSettlement and reverseSettlement, one unit an entry.    *)
(* Outstanding is total_payable less wallet_amount, although total_payable *)
(* is already what the wallet does not cover.                              *)
Settled(o, n) ==
  IF n + Share[o] >= Due[o] THEN "PAID" ELSE IF n > 0 THEN "PARTIALLY_PAID" ELSE "PENDING"

RecordSettlement(o) ==
  /\ "settle" \in Requests
  /\ Placed(o) /\ order[o].payStatus # "PAID" /\ order[o].received + Share[o] < Due[o]
  /\ order' = [order EXCEPT ![o].received = @ + 1,
                            ![o].payStatus = Settled(o, order[o].received + 1)]
  /\ UNCHANGED <<row, rzp, stockVars, walletVars, task>>

(* Mutant: an entry is taken back and the order stays as it was.           *)
ReverseOnly(o) ==
  /\ "reverse" \in Requests /\ order[o].received > 0
  /\ order' = [order EXCEPT ![o].received = @ - 1]
  /\ UNCHANGED <<row, rzp, stockVars, walletVars, task>>

ReverseSettlement(o) ==
  /\ "reverse" \in Requests /\ order[o].received > 0
  /\ order' = [order EXCEPT ![o].received = @ - 1,
                            ![o].payStatus = Settled(o, order[o].received - 1)]
  /\ UNCHANGED <<row, rzp, stockVars, walletVars, task>>

-----------------------------------------------------------------------------
(* The process dies, or the next statement throws and its block rolls back. *)
Crash(t) ==
  /\ "crash" \in Requests /\ task[t] # Idle
  /\ Done(t)
  /\ UNCHANGED <<order, row, rzp, stockVars, walletVars>>

-----------------------------------------------------------------------------
Checkout == \E o \in Orders : PlaceOrder(o) \/ PlaceCoveredOrder(o)

Shipping ==
  \E o \in Orders : AcceptOrder(o) \/ MarkPickedUp(o) \/ MarkDelivered(o) \/ CancelDelivery(o)

Desk == \E o \in Orders : RecordSettlement(o) \/ ReverseSettlement(o)

Gateway == \E p \in Pays : Authorize(p) \/ Capture(p) \/ Lapse(p) \/ Decline(p)

PaymentRequest(t) ==
  \/ \E o \in Orders, p \in Pays : CreatePaymentOrder(t, o, p)
  \/ \E o \in Orders : AdminReconcile(t, o)
  \/ \E p \in Pays :
       \/ VerifyPayment(t, p) \/ VerifyMismatch(t, p)
       \/ WebhookPaid(t, p) \/ WebhookFailed(t, p) \/ WebhookRefunded(t, p)
       \/ ProcessExpired(t, p) \/ RecoverFailed(t, p)
       \/ RefundPayment(t, p)

OrderRequest(t) ==
  \E o \in Orders :
    \/ CancelOrder(t, o)
    \/ \E to \in Targets : UpdateStatus(t, o, to)
    \/ \E src \in Sources : AdminCancel(t, o, src) \/ RefundOrder(t, o, src)

Step(t) ==
  \/ InsertPaymentRow(t)
  \/ ReconcileCaptured(t) \/ ReconcileNothing(t)
  \/ FinalizeRefused(t) \/ FinalizeMovedOn(t) \/ FinalizeConfirm(t)
  \/ ClaimWalletDebit(t) \/ SettleWallet(t)
  \/ FailRow(t) \/ FailOrder(t) \/ CancelExpiredOrder(t)
  \/ CommitCancel(t) \/ AdminWrite(t) \/ RestoreStock(t)
  \/ PickRefund(t) \/ CreditWallet(t)
  \/ RefundCheck(t) \/ RefundCall(t) \/ RefundRow(t) \/ MarkOrderRefunded(t)

Next ==
  \/ Checkout \/ Gateway \/ Shipping \/ Desk
  \/ \E t \in Tasks : PaymentRequest(t) \/ OrderRequest(t) \/ Step(t) \/ Crash(t)

Spec == Init /\ [][Next]_vars

-----------------------------------------------------------------------------
JobType == [at : Steps, ord : Orders \cup {NoOrder}, pay : Pays \cup {NoPay},
            src : Sources, seen : AdminTargets \cup {"none"}]
OrderType == [status : OrderStatus, payStatus : PayStatus \cup {"PARTIALLY_PAID"},
              debited : BOOLEAN, latest : Pays \cup {NoPay},
              rider : {"none", "ACCEPTED", "IN_TRANSIT"}, handed : BOOLEAN, received : Nat]
RowType == [ord : Orders \cup {NoOrder}, status : PayStatus, review : BOOLEAN]
RzpType == [state : {"none", "open", "authorized", "captured", "lapsed"},
            declined : BOOLEAN, refunded : BOOLEAN]

(* Every row holds a value its column may hold; the balance is never       *)
(* overdrawn, whatever was promised at checkout.                           *)
TypeOK ==
  /\ order \in [Orders -> OrderType]
  /\ row \in [Pays -> RowType]
  /\ rzp \in [Pays -> RzpType]
  /\ stock \in Nat /\ balance \in Nat
  /\ restored \in [Orders -> Nat] /\ debits \in [Orders -> Nat] /\ credits \in [Orders -> Nat]
  /\ task \in [Tasks -> JobType]

(* However many finalizers race, an order's wallet slice is debited at     *)
(* most once, and never without the claim on wallet_debited.               *)
WalletTakenOnce ==
  \A o \in Orders : debits[o] <= 1 /\ (debits[o] = 1 => order[o].debited)

(* An order paid twice (two Razorpay orders, both captured) never looks    *)
(* paid once: at most one of its PAID rows is not flagged for review.      *)
Clean(p) == Inserted(p) /\ row[p].status = "PAID" /\ ~row[p].review
NoSilentDoubleCharge ==
  \A p, q \in Pays : Clean(p) /\ Clean(q) /\ row[p].ord = row[q].ord => p = q

(* An order with money outstanding is PAID only if Razorpay reported a     *)
(* payment for that very order, the desk's entries still add up to what it *)
(* took for the outstanding amount, or a rider handed it over: no failed,  *)
(* taken back or somebody else's payment leaves it PAID.                   *)
HasReport(o) == \E p \in Pays : row[p].ord = o /\ Reported(p)
SettledInFull(o) == order[o].received > 0 /\ order[o].received + Share[o] >= Due[o]
PaidOrderWasPaid ==
  \A o \in Orders : order[o].payStatus = "PAID" /\ Due[o] > 0 =>
    HasReport(o) \/ SettledInFull(o) \/ order[o].handed

(* The wallet slice of an order with money outstanding stays untouched     *)
(* until Razorpay reported the rest of it: no abandoned attempt costs it.  *)
WalletTakenAfterReport ==
  \A o \in Orders : debits[o] > 0 /\ Due[o] > 0 => HasReport(o)

(* A payments row says REFUNDED only when Razorpay did refund it, whoever  *)
(* wrote it: refund itself, after a lost race, or the refund webhook.      *)
RecordedRefundHappened ==
  \A p \in Pays : row[p].status = "REFUNDED" => rzp[p].refunded

-----------------------------------------------------------------------------
(* What a comment of the code promises, and one interleaving breaks.       *)

(* orders.service.js:425-426: cancelling never leaves a payment that       *)
(* confirmed the order on a cancelled order marked FAILED.                 *)
CapturedNeverOrphaned ==
  \A p \in Pays : Clean(p) =>
    LET o == order[row[p].ord] IN ~(o.status = "CANCELLED" /\ o.payStatus = "FAILED")

-----------------------------------------------------------------------------
(* Fairness: while requests are open the event loop runs one of them, or   *)
(* dies; the recovery sweep comes back for a row as long as it qualifies   *)
(* (every two minutes), and does not die at the same statement every time. *)
Sweeps(t, at) == At(t, at) /\ task[t].src = "sweep" /\ Step(t)

FairSpec ==
  /\ Spec
  /\ WF_vars(\E t \in Tasks : Step(t))
  /\ \A p \in Pays : SF_vars(\E t \in Tasks : RecoverFailed(t, p))
  /\ \A at \in {"askRazorpay", "finalize"} : SF_vars(\E t \in Tasks : Sweeps(t, at))

(* The row admits that money moved.                                        *)
Recorded(p) == row[p].status \in {"PAID", "REFUNDED"}

(* A captured payment that was marked FAILED is found and recorded by the  *)
(* recovery sweep.                                                         *)
FailedCaptureRecovered ==
  \A p \in Pays : (row[p].status = "FAILED" /\ rzp[p].state = "captured") ~> Recorded(p)

=============================================================================

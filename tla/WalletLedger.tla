---------------------------- MODULE WalletLedger ----------------------------
(***************************************************************************)
(* Customers' wallets: top-ups paid through Razorpay and credited by the   *)
(* client's own call, by a webhook or by the reconciliation worker;        *)
(* transfers between wallets; the dashboard's credits and debits; refunds  *)
(* of orders to the wallet; orders paid from the balance.                  *)
(*                                                                         *)
(* A wallets row is locked FOR UPDATE by every transaction that changes    *)
(* it.  A transaction on one wallet is one step, taken when no transfer    *)
(* holds that wallet; a transfer locks its sender, then its recipient, and *)
(* is two.                                                                 *)
(***************************************************************************)
EXTENDS Integers, FiniteSets

CONSTANTS
  Users,    \* each has one wallet
  TopUps,   \* Razorpay orders of top-ups, and their wallet_transactions rows
  Owner,    \* the user of each top-up
  Orders,   \* orders with payment method WALLET
  Payer,    \* the customer of each order
  Tasks,    \* HTTP requests and webhooks in progress
  Polls,    \* runs of the reconciliation worker in progress
  Requests, \* the kinds of request and of failure that occur
  Initial,  \* balance each wallet starts with
  Amounts,  \* of a transfer, a credit, a debit
  TopUpAmount, Price,
  Cap,      \* max_wallet_balance
  PayCap,   \* bound: an order debited so often, or about to be, is not paid again
  ReturnCap, \* bound: what refunds may add to each wallet
  NoUser, NoTopUp, NoOrder

RequestKinds == {"topup", "badSignature", "transfer", "admin", "refund", "pay", "cancel",
                 "unrecorded", "crash"}

ASSUME ConstantsAssumption ==
  /\ Requests \subseteq RequestKinds
  /\ Owner \in [TopUps -> Users] /\ Payer \in [Orders -> Users]
  /\ Tasks \cap Polls = {}
  /\ IsFiniteSet(Users) /\ IsFiniteSet(TopUps) /\ IsFiniteSet(Orders)
  /\ Amounts \subseteq Nat \ {0} /\ TopUpAmount \in Nat \ {0} /\ Price \in Nat \ {0}
  /\ Cap \in Nat /\ PayCap \in Nat /\ ReturnCap \in [Users -> Nat] /\ Initial \in 0..Cap
  /\ NoUser \notin Users /\ NoTopUp \notin TopUps /\ NoOrder \notin Orders

VARIABLES
  balance,   \* wallets.balance
  topup,     \* status of each top-up's wallet_transactions row
  credited,  \* how often each top-up was added to its wallet
  gateway,   \* where its payment stands at Razorpay
  old,       \* top-ups created more than ABANDON_AFTER_HOURS ago
  recorded,  \* payment_webhook_events
  order,     \* status of the orders, and whether payment_status is PAID
  debits,    \* how often each order was debited
  adjusted,  \* what the dashboard and refunds credited less what it debited
  returned,  \* what refunds added to each wallet
  doubtful,  \* orders with a payment that died, or overlapped another one
  task

vars == <<balance, topup, credited, gateway, old, recorded, order, debits, adjusted, returned, doubtful, task>>
topupVars == <<topup, credited, gateway, old, recorded>>
orderVars == <<order, debits, doubtful>>

Workers == Tasks \cup Polls
Events == TopUps \X {"authorized", "captured"}
OrderStatus == {"PENDING", "CONFIRMED", "CANCELLED"}

(* user pays, other receives; the top-up or the order the request is about. *)
Job(at, u, v, a, k, o) == [at |-> at, user |-> u, other |-> v, amount |-> a, topup |-> k, order |-> o]
Idle == Job("idle", NoUser, NoUser, 0, NoTopUp, NoOrder)

Begin(t, kind, job) ==
  /\ kind \in Requests
  /\ task[t] = Idle
  /\ task' = [task EXCEPT ![t] = job]
At(t, step) == task[t].at = step
Done(t) == task' = [task EXCEPT ![t] = Idle]

(* Only a transfer keeps a wallet locked from one step to the next.        *)
Holds(t, u) == At(t, "recipient") /\ task[t].user = u
Locked(u) == \E t \in Workers : Holds(t, u)

Init ==
  /\ balance = [u \in Users |-> Initial]
  /\ topup = [k \in TopUps |-> "NONE"]
  /\ credited = [k \in TopUps |-> 0]
  /\ gateway = [k \in TopUps |-> "none"]
  /\ old = {}
  /\ recorded = {}
  /\ order = [o \in Orders |-> [status |-> "PENDING", paid |-> FALSE]]
  /\ debits = [o \in Orders |-> 0]
  /\ adjusted = 0
  /\ returned = [u \in Users |-> 0]
  /\ doubtful = {}
  /\ task = [t \in Workers |-> Idle]

-----------------------------------------------------------------------------
(* Creating a top-up: the cap is tested on an unlocked read; Razorpay      *)
(* makes its order; the PENDING row is inserted, and the client told.      *)

CreateTopUp(t, k) ==
  /\ topup[k] = "NONE" /\ \A s \in Tasks : task[s].topup # k
  /\ balance[Owner[k]] + TopUpAmount <= Cap
  /\ Begin(t, "topup", Job("insertTopUp", Owner[k], NoUser, TopUpAmount, k, NoOrder))
  /\ UNCHANGED <<balance, topupVars, orderVars, adjusted, returned>>

InsertTopUp(t) ==
  LET k == task[t].topup IN
  /\ At(t, "insertTopUp")
  /\ topup' = [topup EXCEPT ![k] = "PENDING"]
  /\ gateway' = [gateway EXCEPT ![k] = "open"]
  /\ Done(t)
  /\ UNCHANGED <<balance, credited, old, recorded, orderVars, adjusted, returned>>

(* At Razorpay: the customer pays, the payment is captured, or it lapses.  *)
Progress(k, from, to) ==
  /\ gateway[k] = from
  /\ gateway' = [gateway EXCEPT ![k] = to]
  /\ UNCHANGED <<balance, topup, credited, old, recorded, orderVars, adjusted, returned, task>>

CustomerPays(k) == Progress(k, "open", "authorized")
Capture(k) == Progress(k, "authorized", "captured")
Lapse(k) == Progress(k, "authorized", "lapsed")

DayPasses(k) ==
  /\ topup[k] = "PENDING" /\ k \notin old
  /\ old' = old \cup {k}
  /\ UNCHANGED <<balance, topup, credited, gateway, recorded, orderVars, adjusted, returned, task>>

-----------------------------------------------------------------------------
(* Crediting, under the locks of the row and of the wallet.                *)

(* applyPendingTopUp: no cap, the money is already captured.               *)
ApplyPendingTopUp(k) ==
  /\ balance' = [balance EXCEPT ![Owner[k]] = @ + TopUpAmount]
  /\ topup' = [topup EXCEPT ![k] = "COMPLETED"]
  /\ credited' = [credited EXCEPT ![k] = @ + 1]

Paid(k) == gateway[k] \in {"authorized", "captured", "lapsed"}

(* The client's call carries the signature Razorpay made for its payment.  *)
VerifyTopUp(k) ==
  /\ topup[k] = "PENDING" /\ ~Locked(Owner[k])
  /\ Paid(k)
  /\ ApplyPendingTopUp(k)
  /\ UNCHANGED <<gateway, old, recorded, orderVars, adjusted, returned, task>>

VerifyBadSignature(k) ==
  /\ "badSignature" \in Requests
  /\ topup[k] = "PENDING" /\ ~Locked(Owner[k])
  /\ topup' = [topup EXCEPT ![k] = "FAILED"]
  /\ UNCHANGED <<balance, credited, gateway, old, recorded, orderVars, adjusted, returned, task>>

(* Razorpay sends an event any number of times, in any order.  The event   *)
(* is recorded first and completed afterwards; one that is on record is    *)
(* acknowledged and dropped.  When recording fails it is completed anyway. *)
Sent(e) == IF e[2] = "captured" THEN gateway[e[1]] = "captured" ELSE Paid(e[1])

Completion(k) == Job("complete", NoUser, NoUser, 0, k, NoOrder)

Webhook(t, e) ==
  /\ Sent(e) /\ e \notin recorded
  /\ Begin(t, "topup", Completion(e[1]))
  /\ recorded' = recorded \cup {e}
  /\ UNCHANGED <<balance, topup, credited, gateway, old, orderVars, adjusted, returned>>

WebhookUnrecorded(t, e) ==
  /\ Sent(e)
  /\ Begin(t, "unrecorded", Completion(e[1]))
  /\ UNCHANGED <<balance, topupVars, orderVars, adjusted, returned>>

(* Mutant: whatever the status, the money is added.                        *)
CompleteTopUpAgain(t) ==
  LET k == task[t].topup IN
  /\ At(t, "complete") /\ ~Locked(Owner[k])
  /\ ApplyPendingTopUp(k)
  /\ Done(t)
  /\ UNCHANGED <<gateway, old, recorded, orderVars, adjusted, returned>>

CompleteTopUp(t) ==
  LET k == task[t].topup IN
  /\ At(t, "complete") /\ ~Locked(Owner[k])
  /\ IF topup[k] = "PENDING" THEN ApplyPendingTopUp(k) ELSE UNCHANGED <<balance, topup, credited>>
  /\ Done(t)
  /\ UNCHANGED <<gateway, old, recorded, orderVars, adjusted, returned>>

(* The worker asks Razorpay about each PENDING row: a captured payment is  *)
(* completed, an old row without one is given up.                          *)
Ask(p, k, step) ==
  /\ task[p] = Idle /\ topup[k] = "PENDING"
  /\ task' = [task EXCEPT ![p] = [Completion(k) EXCEPT !.at = step]]
  /\ UNCHANGED <<balance, topupVars, orderVars, adjusted, returned>>

(* Mutant: the worker leaves out the rows it could give up.                *)
AskCapturedRecent(p, k) == gateway[k] = "captured" /\ k \notin old /\ Ask(p, k, "complete")
AskCaptured(p, k) == gateway[k] = "captured" /\ Ask(p, k, "complete")
AskAbandoned(p, k) == gateway[k] # "captured" /\ k \in old /\ Ask(p, k, "abandon")

(* Mutant: the row is failed whatever its status.                          *)
MarkStaleAsFailedAnyway(p) ==
  /\ At(p, "abandon")
  /\ topup' = [topup EXCEPT ![task[p].topup] = "FAILED"]
  /\ Done(p)
  /\ UNCHANGED <<balance, credited, gateway, old, recorded, orderVars, adjusted, returned>>

MarkStalePendingAsFailed(p) ==
  LET k == task[p].topup IN
  /\ At(p, "abandon")
  /\ topup' = IF topup[k] = "PENDING" THEN [topup EXCEPT ![k] = "FAILED"] ELSE topup
  /\ Done(p)
  /\ UNCHANGED <<balance, credited, gateway, old, recorded, orderVars, adjusted, returned>>

-----------------------------------------------------------------------------
(* credit refuses to pass the cap; debit refuses to overdraw.              *)

(* Mutant: the caller's own check of the cap is enough.                    *)
CreditFitsAlways(u, a) == TRUE
CreditFits(u, a) == balance[u] + a <= Cap
(* Mutant: the balance is not tested.                                      *)
DebitFitsAlways(u, a) == TRUE
DebitFits(u, a) == balance[u] >= a

AdminCredit(u, a) ==
  /\ "admin" \in Requests /\ ~Locked(u) /\ CreditFits(u, a)
  /\ balance' = [balance EXCEPT ![u] = @ + a]
  /\ adjusted' = adjusted + a
  /\ UNCHANGED <<topupVars, orderVars, returned, task>>

AdminDebit(u, a) ==
  /\ "admin" \in Requests /\ ~Locked(u) /\ DebitFits(u, a)
  /\ balance' = [balance EXCEPT ![u] = @ - a]
  /\ adjusted' = adjusted - a
  /\ UNCHANGED <<topupVars, orderVars, returned, task>>

(* A refund to the wallet: the dashboard's of an order, paid in whatever   *)
(* way, or an approved refund request.  It adds without testing the cap.   *)
CreditWallet(u, a) ==
  /\ "refund" \in Requests /\ ~Locked(u)
  /\ returned[u] + a <= ReturnCap[u]
  /\ balance' = [balance EXCEPT ![u] = @ + a]
  /\ adjusted' = adjusted + a
  /\ returned' = [returned EXCEPT ![u] = @ + a]
  /\ UNCHANGED <<topupVars, orderVars, task>>

Transfer(t, u, v, a) ==
  /\ u # v /\ ~Locked(u) /\ DebitFits(u, a)
  /\ Begin(t, "transfer", Job("recipient", u, v, a, NoTopUp, NoOrder))
  /\ UNCHANGED <<balance, topupVars, orderVars, adjusted, returned>>

(* Mutant: the debit and the credit are not one transaction.               *)
FinishTransferHalf(t) ==
  LET j == task[t] IN
  /\ At(t, "recipient") /\ ~Locked(j.other)
  /\ balance' = [balance EXCEPT ![j.user] = @ - j.amount,
                                ![j.other] = IF CreditFits(j.other, j.amount)
                                               THEN @ + j.amount ELSE @]
  /\ Done(t)
  /\ UNCHANGED <<topupVars, orderVars, adjusted, returned>>

(* Mutant: a credit over the cap leaves the transaction open.              *)
FinishTransferStuck(t) ==
  LET j == task[t] IN
  /\ At(t, "recipient") /\ ~Locked(j.other) /\ CreditFits(j.other, j.amount)
  /\ balance' = [balance EXCEPT ![j.user] = @ - j.amount, ![j.other] = @ + j.amount]
  /\ Done(t)
  /\ UNCHANGED <<topupVars, orderVars, adjusted, returned>>

FinishTransfer(t) ==
  LET j == task[t] IN
  /\ At(t, "recipient") /\ ~Locked(j.other)
  /\ balance' = IF CreditFits(j.other, j.amount)
                  THEN [balance EXCEPT ![j.user] = @ - j.amount, ![j.other] = @ + j.amount]
                  ELSE balance
  /\ Done(t)
  /\ UNCHANGED <<topupVars, orderVars, adjusted, returned>>

(* PostgreSQL aborts a transaction that waits in a cycle.                  *)
WaitsFor(t, s) == At(t, "recipient") /\ Holds(s, task[t].other)
Deadlocked(t) ==
  \E S \in SUBSET Tasks :
    /\ t \in S
    /\ \A s \in S : (\E r \in S : WaitsFor(s, r)) /\ (\E r \in S : WaitsFor(r, s))

DeadlockVictim(t) ==
  /\ Deadlocked(t)
  /\ Done(t)
  /\ UNCHANGED <<balance, topupVars, orderVars, adjusted, returned>>

-----------------------------------------------------------------------------
(* payFromWallet: the order is read without a lock and refused if its      *)
(* payment_status is PAID, whatever its status; the debit commits; the     *)
(* order is set CONFIRMED and PAID by a statement of its own.  Orders here *)
(* are not delivered yet: REFUNDED is written after that.                  *)

Paying(o) == {t \in Tasks : task[t].order = o}

(* Mutant: the order's payment status is not tested.                       *)
PayFromWalletAgain(t, o) ==
  /\ debits[o] + Cardinality(Paying(o)) < PayCap
  /\ Begin(t, "pay", Job("debit", Payer[o], NoUser, Price, NoTopUp, o))
  /\ doubtful' = IF Paying(o) = {} THEN doubtful ELSE doubtful \cup {o}
  /\ UNCHANGED <<balance, topupVars, order, debits, adjusted, returned>>

PayFromWallet(t, o) ==
  /\ ~order[o].paid
  /\ debits[o] + Cardinality(Paying(o)) < PayCap
  /\ Begin(t, "pay", Job("debit", Payer[o], NoUser, Price, NoTopUp, o))
  /\ doubtful' = IF Paying(o) = {} THEN doubtful ELSE doubtful \cup {o}
  /\ UNCHANGED <<balance, topupVars, order, debits, adjusted, returned>>

Debit(t) ==
  LET j == task[t] IN
  /\ At(t, "debit") /\ ~Locked(j.user)
  /\ IF DebitFits(j.user, j.amount)
       THEN /\ balance' = [balance EXCEPT ![j.user] = @ - j.amount]
            /\ debits' = [debits EXCEPT ![j.order] = @ + 1]
            /\ task' = [task EXCEPT ![t].at = "markPaid"]
       ELSE /\ Done(t)
            /\ UNCHANGED <<balance, debits>>
  /\ UNCHANGED <<topupVars, order, doubtful, adjusted, returned>>

MarkPaid(t) ==
  /\ At(t, "markPaid")
  /\ order' = [order EXCEPT ![task[t].order] = [status |-> "CONFIRMED", paid |-> TRUE]]
  /\ Done(t)
  /\ UNCHANGED <<balance, topupVars, debits, doubtful, adjusted, returned>>

(* An order not paid yet is cancelled; one that is paid is refunded too,   *)
(* which OrderPayments and RefundRequests follow.                          *)
CancelOrder(o) ==
  /\ "cancel" \in Requests
  /\ order[o].status = "PENDING"
  /\ order' = [order EXCEPT ![o].status = "CANCELLED"]
  /\ UNCHANGED <<balance, topupVars, debits, doubtful, adjusted, returned, task>>

(* The process dies: an open transaction is rolled back, what committed    *)
(* stays, what was to follow is forgotten.                                 *)
Crash(t) ==
  /\ "crash" \in Requests /\ task[t] # Idle
  /\ Done(t)
  /\ doubtful' = IF task[t].order = NoOrder THEN doubtful ELSE doubtful \cup {task[t].order}
  /\ UNCHANGED <<balance, topupVars, order, debits, adjusted, returned>>

-----------------------------------------------------------------------------
ToppingUp ==
  \/ \E t \in Tasks, k \in TopUps : CreateTopUp(t, k)
  \/ \E t \in Tasks : InsertTopUp(t)
  \/ \E k \in TopUps : CustomerPays(k) \/ Capture(k) \/ Lapse(k) \/ DayPasses(k)
                       \/ VerifyTopUp(k) \/ VerifyBadSignature(k)
  \/ \E t \in Tasks, e \in Events : Webhook(t, e) \/ WebhookUnrecorded(t, e)
  \/ \E t \in Workers : CompleteTopUp(t)
  \/ \E p \in Polls, k \in TopUps : AskCaptured(p, k) \/ AskAbandoned(p, k)
  \/ \E p \in Polls : MarkStalePendingAsFailed(p)

Moving ==
  \/ \E u \in Users, a \in Amounts : AdminCredit(u, a) \/ AdminDebit(u, a) \/ CreditWallet(u, a)
  \/ \E t \in Tasks, u, v \in Users, a \in Amounts : Transfer(t, u, v, a)
  \/ \E t \in Tasks : FinishTransfer(t) \/ DeadlockVictim(t)

PayingOrders ==
  \/ \E t \in Tasks, o \in Orders : PayFromWallet(t, o)
  \/ \E t \in Tasks : Debit(t) \/ MarkPaid(t)
  \/ \E o \in Orders : CancelOrder(o)

Next == ToppingUp \/ Moving \/ PayingOrders \/ \E t \in Workers : Crash(t)

Spec == Init /\ [][Next]_vars

(* Statements in progress end.  The lock queue of a wallet is first come,  *)
(* first served; the timer polls again and again, each poll reaches every  *)
(* PENDING row, and from some time on the worker no longer dies in one.    *)
Fairness ==
  /\ \A t \in Tasks : SF_vars(FinishTransfer(t)) /\ WF_vars(DeadlockVictim(t))
  /\ \A k \in TopUps : SF_vars(\E p \in Polls : AskCaptured(p, k))
  /\ \A p \in Polls : SF_vars(CompleteTopUp(p)) /\ WF_vars(MarkStalePendingAsFailed(p))
  /\ <>[][\A p \in Polls : ~Crash(p)]_vars

FairSpec == Spec /\ Fairness

-----------------------------------------------------------------------------
JobType ==
  [at : {"idle", "insertTopUp", "complete", "abandon", "recipient", "debit", "markPaid"},
   user : Users \cup {NoUser}, other : Users \cup {NoUser},
   amount : Amounts \cup {0, TopUpAmount, Price},
   topup : TopUps \cup {NoTopUp}, order : Orders \cup {NoOrder}]

(* Values of the variables; no balance is ever negative.                   *)
TypeOK ==
  /\ balance \in [Users -> Nat]
  /\ topup \in [TopUps -> {"NONE", "PENDING", "COMPLETED", "FAILED"}]
  /\ credited \in [TopUps -> Nat]
  /\ gateway \in [TopUps -> {"none", "open", "authorized", "captured", "lapsed"}]
  /\ old \subseteq TopUps
  /\ recorded \subseteq Events
  /\ order \in [Orders -> [status : OrderStatus, paid : BOOLEAN]]
  /\ debits \in [Orders -> Nat]
  /\ adjusted \in Int
  /\ returned \in [Users -> Nat]
  /\ doubtful \subseteq Orders
  /\ task \in [Workers -> JobType]

(* The sum of f[x] for x in S, counted coin by coin: a function of natural *)
(* numbers has so many pairs of an x and a number up to f[x].              *)
Coins(f, S) == UNION {{x} \X (1..f[x]) : x \in S}
Total(f, S) == Cardinality(Coins(f, S))

(* All wallets together hold what they started with, what was topped up    *)
(* once each, and what the dashboard and refunds added, less what orders   *)
(* were debited.                                                           *)
MoneyConserved ==
  Total(balance, Users)
    = Cardinality(Users) * Initial + adjusted
      + TopUpAmount * Cardinality({k \in TopUps : topup[k] = "COMPLETED"})
      - Price * Total(debits, Orders)

CreditedOnce == \A k \in TopUps : credited[k] = IF topup[k] = "COMPLETED" THEN 1 ELSE 0

CreditedWasPaid == \A k \in TopUps : topup[k] = "COMPLETED" => Paid(k)

(* A top-up is credited exactly when its row is COMPLETED, and then once,  *)
(* though the client, two webhooks and the worker all complete it; and     *)
(* none is that the customer did not pay.                                  *)
PaidIsCreditedOnce == CreditedOnce /\ CreditedWasPaid

(* Only top-ups and refunds take a balance over the cap, and by no more    *)
(* than they came to: transfers and corrections keep it, though they race. *)
CapHolds ==
  \A u \in Users :
    balance[u] <= Cap + TopUpAmount * Cardinality({k \in TopUps : Owner[k] = u /\ topup[k] = "COMPLETED"})
                    + returned[u]

(* Where no payment of it died or overlapped another, an order is debited  *)
(* once if it is paid, and if it is not, only by a payment in progress.    *)
DebitedOnce ==
  \A o \in Orders \ doubtful :
    debits[o] = IF order[o].paid \/ \E t \in Paying(o) : At(t, "markPaid") THEN 1 ELSE 0

(* A top-up that was credited, or given up, stays so.                      *)
SettledIsFinal ==
  [][\A k \in TopUps : topup[k] \in {"COMPLETED", "FAILED"} => topup'[k] = topup[k]]_vars

(* A top-up whose payment was captured does not stay PENDING, though the   *)
(* client never calls and every webhook is lost.                           *)
CapturedSettles ==
  \A k \in TopUps : (gateway[k] = "captured" /\ topup[k] = "PENDING") ~> topup[k] # "PENDING"

(* Every transfer ends: two transfers in opposite directions do not wait   *)
(* for each other for ever.                                                *)
TransfersEnd == \A t \in Tasks : At(t, "recipient") ~> ~At(t, "recipient")
=============================================================================

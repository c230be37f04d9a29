--------------------------- MODULE RefundRequests ---------------------------
(***************************************************************************)
(* Refund requests on one delivered order: a customer or an admin files    *)
(* one, an admin rejects, cancels or approves it, and approving claims the *)
(* row (PROCESSING), moves the money, and records it.  The dashboard's     *)
(* direct refund of the order and Razorpay's refund webhook write the same *)
(* rows.                                                                   *)
(*                                                                         *)
(* A task serves one HTTP request or webhook, one statement, transaction   *)
(* or gateway call a step, as in OrderPayments; every read that a later    *)
(* statement repeats as its own guard happens when the task begins.        *)
(***************************************************************************)
EXTENDS Naturals

CONSTANTS
  Reqs,       \* rows of refund_requests of the order
  Tasks,      \* HTTP requests and webhooks in progress
  Faults,     \* which of "dbError" and "crash" occur
  Total,      \* total_payable of the order, and the amount of its payment
  Part,       \* what the selected lines of an item-level request are worth
  PayCap,     \* bound: a request paid so often is not approved again
  DirectCap,  \* bound: an order refunded so often is not refunded directly again
  NoReq

ASSUME ConstantsAssumption ==
  /\ Faults \subseteq {"dbError", "crash"}
  /\ Total \in Nat /\ Part \in 1..Total
  /\ PayCap \in Nat /\ DirectCap \in Nat
  /\ NoReq \notin Reqs

VARIABLES
  order,    \* status and payment_status of the orders row
  payment,  \* status of the order's gateway payment, "NONE" for cash
  gateway,  \* what Razorpay has refunded of it
  req,      \* rows of refund_requests
  paid,     \* how often an approval of each request moved its money
  direct,   \* how often the order was refunded directly
  broken,   \* requests one of whose approvals died or lost a statement
  task

vars == <<order, payment, gateway, req, paid, direct, broken, task>>
moneyVars == <<payment, gateway, paid, direct>>

Destinations == {"RAZORPAY", "WALLET"}
ReqStatus == {"NONE", "PENDING", "PROCESSING", "APPROVED", "REJECTED", "CANCELLED"}
Unresolved == {"PENDING", "PROCESSING"}
Final == {"APPROVED", "REJECTED", "CANCELLED"}

(* kind is the handler; req the row it works on; to where the money goes;  *)
(* outcome the status a resolution is about to write.                      *)
Job(at, kind, r, to, outcome) ==
  [at |-> at, kind |-> kind, req |-> r, to |-> to, outcome |-> outcome]
Idle == Job("idle", "none", NoReq, "WALLET", "none")

Begin(t, job) == task[t] = Idle /\ task' = [task EXCEPT ![t] = job]
At(t, step) == task[t].at = step
GoTo(t, step) == task' = [task EXCEPT ![t].at = step]
Done(t) == task' = [task EXCEPT ![t] = Idle]

Amount(r) == IF req[r].full THEN Total ELSE Part

(* A delivered order: paid online, paid in cash, or still to be settled.   *)
Init ==
  /\ order \in [status : {"DELIVERED"}, payStatus : {"PENDING", "PAID"}]
  /\ payment \in {"NONE", "PAID"}
  /\ payment = "PAID" => order.payStatus = "PAID"
  /\ gateway = 0
  /\ req = [r \in Reqs |-> [status |-> "NONE", full |-> FALSE]]
  /\ paid = [r \in Reqs |-> 0]
  /\ direct = 0
  /\ broken = {}
  /\ task = [t \in Tasks |-> Idle]

-----------------------------------------------------------------------------
(* create: the checks, then the insert under the partial unique index.     *)

Create(t, r) ==
  /\ req[r].status = "NONE"
  /\ order.status = "DELIVERED"
  /\ \A q \in Reqs : req[q].status \in {"NONE", "CANCELLED"}
  /\ Begin(t, Job("insert", "create", r, "WALLET", "none"))
  /\ UNCHANGED <<order, moneyVars, req, broken>>

Insert(t) ==
  LET r == task[t].req
      taken == \E q \in Reqs : req[q].status \in {"PENDING", "PROCESSING", "APPROVED"}
  IN
  /\ At(t, "insert")
  /\ IF taken \/ req[r].status # "NONE"
       THEN UNCHANGED req
       ELSE \E full \in BOOLEAN :
              req' = [req EXCEPT ![r] = [status |-> "PENDING", full |-> full]]
  /\ Done(t)
  /\ UNCHANGED <<order, moneyVars, broken>>

(* The customer's cancel is one guarded UPDATE.                            *)
CancelByCustomer(r) ==
  /\ req[r].status = "PENDING"
  /\ req' = [req EXCEPT ![r].status = "CANCELLED"]
  /\ UNCHANGED <<order, moneyVars, broken, task>>

(* reject, and the admin's cancel: read PENDING, then finalize.            *)
Resolve(t, r, outcome) ==
  /\ req[r].status = "PENDING"
  /\ Begin(t, Job("finalize", "resolve", r, "WALLET", outcome))
  /\ UNCHANGED <<order, moneyVars, req, broken>>

Finalized(r, outcome) ==
  IF req[r].status \in Unresolved
    THEN req' = [req EXCEPT ![r].status = outcome]
    ELSE UNCHANGED req

Finalize(t) ==
  /\ At(t, "finalize")
  /\ Finalized(task[t].req, task[t].outcome)
  /\ Done(t)
  /\ UNCHANGED <<order, moneyVars, broken>>

-----------------------------------------------------------------------------
(* approve: the business checks, the claim, the money, the record, and the *)
(* order's status when the whole order was refunded.                       *)

Approve(t, r, to) ==
  /\ req[r].status = "PENDING" /\ paid[r] < PayCap
  /\ order = [status |-> "DELIVERED", payStatus |-> "PAID"]
  /\ to = "RAZORPAY" => payment = "PAID"
  /\ Begin(t, Job("claim", "approve", r, to, "none"))
  /\ UNCHANGED <<order, moneyVars, req, broken>>

Pay(to) == IF to = "RAZORPAY" THEN "check" ELSE "credit"

(* Mutant: the claim does not test the status it claims from.              *)
ClaimAnything(t) ==
  LET r == task[t].req IN
  /\ At(t, "claim")
  /\ req' = [req EXCEPT ![r].status = "PROCESSING"]
  /\ GoTo(t, Pay(task[t].to))
  /\ UNCHANGED <<order, moneyVars, broken>>

Claim(t) ==
  LET r == task[t].req IN
  /\ At(t, "claim")
  /\ IF req[r].status = "PENDING"
       THEN /\ req' = [req EXCEPT ![r].status = "PROCESSING"]
            /\ GoTo(t, Pay(task[t].to))
       ELSE UNCHANGED req /\ Done(t)
  /\ UNCHANGED <<order, moneyVars, broken>>

(* Where a refused or failed movement of money leads: approve releases its *)
(* claim, the direct refund answers 400.                                   *)
(* Mutant: the claim is not released.                                      *)
ForgetClaim(t) == Done(t)
FailToPay(t) == IF task[t].kind = "approve" THEN GoTo(t, "release") ELSE Done(t)

AmountOf(t) == IF task[t].kind = "approve" THEN Amount(task[t].req) ELSE Total
CountPaid(t) ==
  IF task[t].kind = "approve"
    THEN paid' = [paid EXCEPT ![task[t].req] = @ + 1] /\ UNCHANGED direct
    ELSE direct' = direct + 1 /\ UNCHANGED paid
Break(t) ==
  broken' = IF task[t].kind = "approve" THEN broken \cup {task[t].req} ELSE broken

(* refund: the PAID check, the gateway call, the payments row.             *)
RefundCheck(t) ==
  /\ At(t, "check")
  /\ IF payment = "PAID" THEN GoTo(t, "call") ELSE FailToPay(t)
  /\ UNCHANGED <<order, moneyVars, req, broken>>

(* Razorpay refunds no more than it captured.                              *)
(* Mutant: nobody compares what is refunded with what was paid.            *)
RefundCallUncapped(t) ==
  /\ At(t, "call")
  /\ gateway' = gateway + AmountOf(t) /\ CountPaid(t) /\ GoTo(t, "row")
  /\ UNCHANGED <<order, payment, req, broken>>

RefundCall(t) ==
  /\ At(t, "call")
  /\ IF gateway + AmountOf(t) <= Total
       THEN gateway' = gateway + AmountOf(t) /\ CountPaid(t) /\ GoTo(t, "row")
       ELSE UNCHANGED <<gateway, paid, direct>> /\ FailToPay(t)
  /\ UNCHANGED <<order, payment, req, broken>>

RefundRow(t) ==
  /\ At(t, "row")
  /\ payment' = "REFUNDED"
  /\ GoTo(t, IF task[t].kind = "approve" THEN "approve" ELSE "markOrder")
  /\ UNCHANGED <<order, gateway, req, paid, direct, broken>>

(* The catch of refund turns a failed write of the row into a refusal.     *)
RefundRowFails(t) ==
  /\ "dbError" \in Faults /\ At(t, "row")
  /\ Break(t)
  /\ FailToPay(t)
  /\ UNCHANGED <<order, moneyVars, req>>

CreditWallet(t) ==
  /\ At(t, "credit")
  /\ CountPaid(t)
  /\ GoTo(t, IF task[t].kind = "approve" THEN "approve" ELSE "flip")
  /\ UNCHANGED <<order, payment, gateway, req, broken>>

CreditFails(t) ==
  /\ "dbError" \in Faults /\ At(t, "credit")
  /\ Break(t)
  /\ FailToPay(t)
  /\ UNCHANGED <<order, moneyVars, req>>

(* Mutant: the release does not test that the claim is still held.         *)
ReleaseAlways(t) ==
  /\ At(t, "release")
  /\ req' = [req EXCEPT ![task[t].req].status = "PENDING"]
  /\ Done(t)
  /\ UNCHANGED <<order, moneyVars, broken>>

ReleaseClaim(t) ==
  LET r == task[t].req IN
  /\ At(t, "release")
  /\ IF req[r].status = "PROCESSING"
       THEN req' = [req EXCEPT ![r].status = "PENDING"]
       ELSE UNCHANGED req
  /\ Done(t)
  /\ UNCHANGED <<order, moneyVars, broken>>

(* finalize as APPROVED, three attempts; then the order, whatever came of it. *)
AfterRecord(t) == IF req[task[t].req].full THEN GoTo(t, "flip") ELSE Done(t)

FinalizeApproved(t) ==
  /\ At(t, "approve")
  /\ Finalized(task[t].req, "APPROVED")
  /\ AfterRecord(t)
  /\ UNCHANGED <<order, moneyVars, broken>>

FinalizeFails(t) ==
  /\ "dbError" \in Faults /\ At(t, "approve")
  /\ Break(t)
  /\ AfterRecord(t)
  /\ UNCHANGED <<order, moneyVars, req>>

(* updateStatus of the dashboard's repository: the status alone.           *)
FlipOrder(t) ==
  /\ At(t, "flip")
  /\ order' = [order EXCEPT !.status = "REFUNDED"]
  /\ IF task[t].kind = "direct" THEN GoTo(t, "close") ELSE Done(t)
  /\ UNCHANGED <<moneyVars, req, broken>>

-----------------------------------------------------------------------------
(* refundOrder: the whole order, past any request; open ones are closed.   *)

RefundOrder(t, to) ==
  /\ order = [status |-> "DELIVERED", payStatus |-> "PAID"] /\ direct < DirectCap
  /\ to = "RAZORPAY" => payment = "PAID"
  /\ Begin(t, Job(Pay(to), "direct", NoReq, to, "none"))
  /\ UNCHANGED <<order, moneyVars, req, broken>>

(* The updateStatus of refund and of the webhook: both columns.            *)
MarkOrderRefunded(t) ==
  /\ At(t, "markOrder")
  /\ order' = [status |-> "REFUNDED", payStatus |-> "REFUNDED"]
  /\ IF task[t].kind = "direct" THEN GoTo(t, "flip") ELSE Done(t)
  /\ UNCHANGED <<moneyVars, req, broken>>

ResolvePendingForOrder(t) ==
  /\ At(t, "close")
  /\ req' = [r \in Reqs |-> IF req[r].status \in Unresolved
                              THEN [req[r] EXCEPT !.status = "APPROVED"]
                              ELSE req[r]]
  /\ Done(t)
  /\ UNCHANGED <<order, moneyVars, broken>>

(* refund.processed, when the row does not say REFUNDED yet.               *)
WebhookRefunded(t) ==
  /\ gateway > 0 /\ payment # "REFUNDED"
  /\ Begin(t, Job("row", "webhook", NoReq, "RAZORPAY", "none"))
  /\ UNCHANGED <<order, moneyVars, req, broken>>

Crash(t) ==
  /\ "crash" \in Faults /\ task[t] # Idle
  /\ Break(t)
  /\ Done(t)
  /\ UNCHANGED <<order, moneyVars, req>>

-----------------------------------------------------------------------------
Handler(t) ==
  \/ \E to \in Destinations :
       \/ RefundOrder(t, to)
       \/ \E r \in Reqs : Approve(t, r, to)
  \/ \E r \in Reqs : Create(t, r)
  \/ \E r \in Reqs, outcome \in {"REJECTED", "CANCELLED"} : Resolve(t, r, outcome)
  \/ WebhookRefunded(t)

Step(t) ==
  \/ Insert(t) \/ Finalize(t) \/ Claim(t)
  \/ RefundCheck(t) \/ RefundCall(t) \/ RefundRow(t) \/ RefundRowFails(t)
  \/ CreditWallet(t) \/ CreditFails(t) \/ ReleaseClaim(t)
  \/ FinalizeApproved(t) \/ FinalizeFails(t) \/ FlipOrder(t)
  \/ MarkOrderRefunded(t) \/ ResolvePendingForOrder(t)

Next ==
  \/ \E r \in Reqs : CancelByCustomer(r)
  \/ \E t \in Tasks : Handler(t) \/ Step(t) \/ Crash(t)

Spec == Init /\ [][Next]_vars

-----------------------------------------------------------------------------
JobType ==
  [at : {"idle", "insert", "finalize", "claim", "check", "call", "row", "credit",
         "release", "approve", "flip", "markOrder", "close"},
   kind : {"none", "create", "resolve", "approve", "direct", "webhook"},
   req : Reqs \cup {NoReq}, to : Destinations,
   outcome : {"none", "REJECTED", "CANCELLED"}]

(* Every row holds a value its column may hold, and Razorpay never refunds *)
(* more than the payment.                                                  *)
TypeOK ==
  /\ order \in [status : {"DELIVERED", "REFUNDED"}, payStatus : {"PENDING", "PAID", "REFUNDED"}]
  /\ payment \in {"NONE", "PAID", "REFUNDED"}
  /\ gateway \in 0..Total
  /\ req \in [Reqs -> [status : ReqStatus, full : BOOLEAN]]
  /\ paid \in [Reqs -> Nat] /\ direct \in Nat
  /\ broken \subseteq Reqs
  /\ task \in [Tasks -> JobType]

ApprovePaysOnce == \A r \in Reqs \ broken : paid[r] <= 1

ApprovedWasPaid ==
  \A r \in Reqs : req[r].status = "APPROVED" => paid[r] > 0 \/ direct > 0

(* However many approvals, rejections, direct refunds and webhooks race,   *)
(* approving pays a request at most once -- unless a statement of one of   *)
(* its approvals failed or the process died in it -- and a request that    *)
(* says it was refunded was, by its approval or by a refund of the whole   *)
(* order.                                                                  *)
ApprovedPaidOnce == ApprovePaysOnce /\ ApprovedWasPaid

(* A resolved request is never reopened or resolved otherwise, not even by *)
(* an approval that fails after the direct refund closed its request.      *)
ResolutionSticks ==
  [][\A r \in Reqs : req[r].status \in Final => req'[r].status = req[r].status]_vars

(* A claim never outlives its approval: while a request says PROCESSING an *)
(* approval that claimed it is still at work, unless one broke.            *)
Paying(t, r) ==
  /\ task[t].kind = "approve" /\ task[t].req = r
  /\ task[t].at \in {"check", "call", "row", "credit", "approve", "release"}
ClaimHasOwner ==
  \A r \in Reqs \ broken : req[r].status = "PROCESSING" => \E t \in Tasks : Paying(t, r)

=============================================================================

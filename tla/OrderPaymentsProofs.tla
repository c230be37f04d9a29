------------------------ MODULE OrderPaymentsProofs ------------------------
(***************************************************************************)
(* Safety of OrderPayments for any number of orders, payments, tasks and   *)
(* any bill.  StateInv says what the local state of a task may hold at     *)
(* each step; on top of it stand the wallet, the double charge and the     *)
(* report invariants.                                                      *)
(***************************************************************************)
EXTENDS OrderPayments, TLAPS

OrderSteps == {"insertRow", "claim", "settle", "cancel", "adminWrite", "restore",
               "pickRefund", "credit"}
PaySteps == {"askRazorpay", "finalize", "expire", "failRow", "failOrder",
             "refundCheck", "refundCall", "refundRow", "refundOrder"}

(* What a task holds at each step.                                         *)
JobOK(j) ==
  /\ j \in JobType
  /\ j.at \in OrderSteps => j.ord \in Orders
  /\ j.at \in {"claim", "settle"} => Placed(j.ord)
  /\ j.at \in PaySteps => j.pay \in Pays /\ Inserted(j.pay)
  /\ j.at = "insertRow" => j.pay \in Pays
  /\ j.at = "adminWrite" => j.seen \in AdminTargets

(* Razorpay holds only what was opened, and works only on inserted rows.   *)
LinksOK ==
  /\ \A p \in Pays : Reported(p) \/ rzp[p].declined \/ rzp[p].refunded => Inserted(p)
  /\ \A o \in Orders : order[o].latest # NoPay => Inserted(order[o].latest)

(* An order that was not placed is untouched.                              *)
UnplacedOK ==
  \A o \in Orders : ~Placed(o) => ~order[o].debited /\ debits[o] = 0

StateInv ==
  /\ TypeOK
  /\ \A t \in Tasks : JobOK(task[t])
  /\ LinksOK

(* The slice is taken between the claim and the debit of one task: while a *)
(* task is about to debit, the order is claimed, not yet debited, and no   *)
(* other task is about to debit it.                                        *)
WalletInv ==
  /\ UnplacedOK
  /\ \A o \in Orders : debits[o] \in {0, 1} /\ (debits[o] = 1 => order[o].debited)
  /\ \A t \in Tasks : At(t, "settle") => order[task[t].ord].debited /\ debits[task[t].ord] = 0
  /\ \A t, u \in Tasks : At(t, "settle") /\ At(u, "settle") /\ task[t].ord = task[u].ord => t = u

(* A clean PAID row moved its order on, so no second one can.              *)
ChargeInv ==
  /\ \A p \in Pays : Clean(p) => order[row[p].ord].status \notin {"NONE", "ORDER_PLACED"}
  /\ NoSilentDoubleCharge

-----------------------------------------------------------------------------
(* Jobs.                                                                   *)

(* The idle job is in order.                                               *)
LEMMA IdleOK == JobOK(Idle)
  BY ConstantsAssumption
  DEF Idle, Job, JobOK, JobType, Steps, Sources, OrderSteps, PaySteps

(* A task that moves is the only one that moves.                           *)
LEMMA OneMoves ==
  ASSUME task \in [Tasks -> JobType], NEW t \in Tasks, NEW job \in JobType,
         task' = [task EXCEPT ![t] = job]
  PROVE  /\ task' \in [Tasks -> JobType]
         /\ task'[t] = job
         /\ \A u \in Tasks : u # t => task'[u] = task[u]
  OBVIOUS

(* A job built from members of its fields' sets is a job.                  *)
LEMMA JobTyped ==
  ASSUME NEW at \in Steps, NEW o \in Orders \cup {NoOrder}, NEW p \in Pays \cup {NoPay},
         NEW src \in Sources, NEW seen \in AdminTargets \cup {"none"}
  PROVE  Job(at, o, p, src, seen) \in JobType
  BY DEF Job, JobType

(* The three ways a job is changed in place.                               *)
LEMMA JobChanged ==
  ASSUME NEW j \in JobType, NEW at \in Steps, NEW p \in Pays \cup {NoPay}
  PROVE  /\ [j EXCEPT !.at = at] \in JobType
         /\ [j EXCEPT !.at = at, !.seen = "none"] \in JobType
         /\ [j EXCEPT !.at = at, !.pay = p] \in JobType
  BY DEF JobType

(* A step that only moves one task keeps StateInv if the job it moves to   *)
(* is in order.                                                            *)
LEMMA MoveKeeps ==
  ASSUME StateInv, NEW t \in Tasks, NEW job, JobOK(job), GoTo(t, job),
         UNCHANGED <<order, row, rzp, stockVars, walletVars>>
  PROVE  StateInv'
  <1>1. job \in JobType
    BY DEF JobOK
  <1>2. /\ task' \in [Tasks -> JobType]
        /\ task'[t] = job
        /\ \A u \in Tasks : u # t => task'[u] = task[u]
    BY <1>1, OneMoves DEF StateInv, TypeOK, GoTo
  <1>3. TypeOK'
    BY <1>2 DEF StateInv, TypeOK, stockVars, walletVars
  <1>4. \A u \in Tasks : JobOK(task[u])'
    BY <1>2 DEF StateInv, JobOK, Placed, Inserted
  <1>5. LinksOK'
    BY DEF StateInv, LinksOK, Inserted, Reported
  <1> QED
    BY <1>3, <1>4, <1>5 DEF StateInv

-----------------------------------------------------------------------------
(* Requests and reads: only one task moves.                                *)

(* A request that writes nothing starts one job.                           *)
LEMMA RequestKeeps ==
  ASSUME StateInv, NEW t \in Tasks, NEW kind, NEW job, JobOK(job), Begin(t, kind, job),
         UNCHANGED <<order, row, rzp, stockVars, walletVars>>
  PROVE  StateInv'
  BY MoveKeeps DEF Begin, GoTo

(* A job about one inserted payment, and a job about one order.            *)
LEMMA PayJobOK ==
  ASSUME NEW at \in PaySteps, NEW p \in Pays, Inserted(p), NEW src \in Sources,
         NEW seen \in AdminTargets \cup {"none"}
  PROVE  JobOK(Job(at, NoOrder, p, src, seen))
  BY JobTyped DEF Job, JobOK, OrderSteps, PaySteps, Steps

(* A job about one order.                                                  *)
LEMMA OrderJobOK ==
  ASSUME NEW at \in {"cancel", "adminWrite", "restore", "pickRefund", "credit"},
         NEW o \in Orders, NEW src \in Sources, NEW seen \in AdminTargets \cup {"none"},
         at = "adminWrite" => seen \in AdminTargets
  PROVE  JobOK(Job(at, o, NoPay, src, seen))
  <1> QED
    BY JobTyped DEF Job, JobOK, OrderSteps, PaySteps, Steps

(* Every request about a payment starts a task on an inserted row.         *)
LEMMA PaymentRequestKeeps ==
  ASSUME StateInv, NEW t \in Tasks, PaymentRequest(t),
         ~ \E o \in Orders, p \in Pays : CreatePaymentOrder(t, o, p)
  PROVE  StateInv'
  <1>1. ASSUME NEW p \in Pays, NEW kind, NEW src \in Sources, Ask(t, kind, p, src)
        PROVE  StateInv'
    <2>2. JobOK(Job("askRazorpay", NoOrder, p, src, "none"))
      BY <1>1, PayJobOK DEF Ask, PaySteps
    <2> QED
      BY <1>1, <2>2, RequestKeeps DEF Ask
  <1>2. ASSUME NEW p \in Pays, NEW kind, ReportPaid(t, kind, p)
        PROVE  StateInv'
    <2>1. JobOK(Job("finalize", NoOrder, p, "none", "none"))
      BY <1>2, PayJobOK DEF ReportPaid, StateInv, LinksOK, PaySteps, Sources
    <2> QED
      BY <1>2, <2>1, RequestKeeps DEF ReportPaid
  <1>3. CASE \E p \in Pays : VerifyPayment(t, p) \/ WebhookPaid(t, p)
    BY <1>2, <1>3 DEF VerifyPayment, WebhookPaid
  <1>4. CASE \E p \in Pays : VerifyMismatch(t, p) \/ ProcessExpired(t, p) \/ RecoverFailed(t, p)
    BY <1>1, <1>4 DEF VerifyMismatch, ProcessExpired, RecoverFailed, Sources
  <1>5. CASE \E o \in Orders : AdminReconcile(t, o)
    <2>1. PICK o \in Orders : AdminReconcile(t, o)
      BY <1>5
    <2>2. order[o].latest \in Pays
      BY <2>1 DEF AdminReconcile, StateInv, TypeOK, OrderType
    <2> QED
      BY <1>1, <2>1, <2>2 DEF AdminReconcile, Sources
  <1>6. ASSUME NEW p \in Pays, WebhookFailed(t, p) PROVE StateInv'
    <2>1. JobOK(Job("failRow", NoOrder, p, "none", "none"))
      BY <1>6, PayJobOK DEF WebhookFailed, StateInv, LinksOK, PaySteps, Sources
    <2> QED
      BY <1>6, <2>1, RequestKeeps DEF WebhookFailed
  <1>7. ASSUME NEW p \in Pays, WebhookRefunded(t, p) PROVE StateInv'
    <2>1. JobOK(Job("refundRow", NoOrder, p, "none", "none"))
      BY <1>7, PayJobOK DEF WebhookRefunded, StateInv, LinksOK, PaySteps, Sources
    <2> QED
      BY <1>7, <2>1, RequestKeeps DEF WebhookRefunded
  <1>8. ASSUME NEW p \in Pays, RefundPayment(t, p) PROVE StateInv'
    <2>1. JobOK(Job("refundCall", NoOrder, p, "none", "none"))
      BY <1>8, PayJobOK DEF RefundPayment, PaySteps, Sources
    <2> QED
      BY <1>8, <2>1, RequestKeeps DEF RefundPayment
  <1> QED
    BY <1>3, <1>4, <1>5, <1>6, <1>7, <1>8 DEF PaymentRequest

(* Every request about an order starts a task on a placed order.           *)
LEMMA OrderRequestKeeps ==
  ASSUME StateInv, NEW t \in Tasks, OrderRequest(t)
  PROVE  StateInv'
  <1>1. PICK o \in Orders : \/ CancelOrder(t, o)
                            \/ \E to \in Targets : UpdateStatus(t, o, to)
                            \/ \E src \in Sources : AdminCancel(t, o, src) \/ RefundOrder(t, o, src)
    BY DEF OrderRequest
  <1>2. CASE CancelOrder(t, o)
    <2>1. JobOK(Job("cancel", o, NoPay, "none", "none"))
      BY OrderJobOK DEF Sources
    <2> QED
      BY <1>2, <2>1, RequestKeeps DEF CancelOrder
  <1>3. ASSUME NEW to \in Targets, UpdateStatus(t, o, to) PROVE StateInv'
    <2>1. JobOK(Job("adminWrite", o, NoPay, "none", to))
      BY TargetsAssumption, OrderJobOK DEF Sources
    <2> QED
      BY <1>3, <2>1, RequestKeeps DEF UpdateStatus
  <1>4. ASSUME NEW src \in Sources, AdminCancel(t, o, src) PROVE StateInv'
    <2>1. "CANCELLED" \in AdminTargets
      BY <1>4 DEF AdminCancel, AdminTargets
    <2>2. JobOK(Job("adminWrite", o, NoPay, src, "CANCELLED"))
      BY <2>1, OrderJobOK
    <2> QED
      BY <1>4, <2>2, RequestKeeps DEF AdminCancel
  <1>5. ASSUME NEW src \in Sources, RefundOrder(t, o, src) PROVE StateInv'
    <2>1. JobOK(Job("pickRefund", o, NoPay, src, "none"))
      BY OrderJobOK
    <2> QED
      BY <1>5, <2>1, RequestKeeps DEF RefundOrder
  <1> QED
    BY <1>1, <1>2, <1>3, <1>4, <1>5

(* A job that goes on with the same rows.                                  *)
LEMMA JobGoesOn ==
  ASSUME NEW j, JobOK(j), NEW at \in PaySteps, j.at \in PaySteps
  PROVE  /\ JobOK([j EXCEPT !.at = at])
         /\ JobOK([j EXCEPT !.at = at, !.seen = "none"])
  <1>1. at \in Steps
    BY DEF PaySteps, Steps
  <1>2. j \in JobType
    BY DEF JobOK
  <1>3. /\ [j EXCEPT !.at = at] \in JobType
        /\ [j EXCEPT !.at = at, !.seen = "none"] \in JobType
    BY <1>1, <1>2, JobChanged, ConstantsAssumption
  <1>4. at \notin OrderSteps \cup {"insertRow", "adminWrite"}
    BY DEF OrderSteps, PaySteps
  <1> QED
    BY <1>2, <1>3, <1>4 DEF JobOK, JobType, OrderSteps

(* What follows Razorpay's answer is a job about the same payment.          *)
LEMMA AfterOK ==
  ASSUME NEW j, JobOK(j), j.at = "askRazorpay", NEW at \in {"finalize", "expire", "failRow"}, StateInv
  PROVE  JobOK(After(j, at))
  <1>1. j.pay \in Pays /\ Inserted(j.pay)
    BY DEF JobOK, PaySteps
  <1>2. at \in PaySteps /\ {"sweep", "none"} \subseteq Sources
    BY DEF PaySteps, Sources
  <1>3. \A src \in {"sweep", "none"} : JobOK(Job(at, NoOrder, j.pay, src, "none"))
    BY <1>1, <1>2, PayJobOK
  <1> QED
    BY <1>3 DEF After

(* The steps that only read: Razorpay's answer, refusals, refund checks.   *)
LEMMA ReadStepKeeps ==
  ASSUME StateInv, NEW t \in Tasks,
         \/ ReconcileCaptured(t) \/ ReconcileNothing(t) \/ FinalizeRefused(t)
         \/ RefundCheck(t) \/ PickRefund(t) \/ Crash(t)
  PROVE  StateInv'
  <1>1. JobOK(task[t])
    BY DEF StateInv
  <1>2. CASE Done(t) /\ UNCHANGED <<order, row, rzp, stockVars, walletVars>>
    BY <1>2, IdleOK, MoveKeeps DEF Done
  <1>3. ASSUME NEW at \in {"finalize", "expire", "failRow"}, At(t, "askRazorpay"),
               GoTo(t, After(task[t], at)),
               UNCHANGED <<order, row, rzp, stockVars, walletVars>>
        PROVE  StateInv'
    BY <1>1, <1>3, AfterOK, MoveKeeps DEF At
  <1>4. CASE ReconcileCaptured(t)
    BY <1>3, <1>4 DEF ReconcileCaptured
  <1>5. CASE ReconcileNothing(t)
    <2>1. /\ At(t, "askRazorpay")
          /\ \/ GoTo(t, After(task[t], "expire"))
             \/ GoTo(t, After(task[t], "failRow"))
             \/ Done(t)
          /\ UNCHANGED <<order, row, rzp, stockVars, walletVars>>
      BY <1>5 DEF ReconcileNothing
    <2> QED
      BY <1>2, <1>3, <2>1
  <1>6. CASE FinalizeRefused(t)
    BY <1>2, <1>6 DEF FinalizeRefused
  <1>7. CASE RefundCheck(t)
    <2>1. At(t, "refundCheck") => JobOK([task[t] EXCEPT !.at = "refundCall"])
      BY <1>1, JobGoesOn DEF At, PaySteps
    <2> QED
      BY <1>2, <1>7, <2>1, MoveKeeps DEF RefundCheck
  <1>8. CASE Crash(t)
    BY <1>2, <1>8 DEF Crash
  <1>9. CASE PickRefund(t)
    <2> DEFINE p == order[task[t].ord].latest
               check == [task[t] EXCEPT !.at = "refundCheck", !.pay = p]
               credit == [task[t] EXCEPT !.at = "credit"]
    <2>1. task[t] \in JobType /\ task[t].ord \in Orders
      BY <1>1, <1>9 DEF PickRefund, At, JobOK, OrderSteps
    <2>2. p \in Pays \cup {NoPay}
      BY <2>1 DEF StateInv, TypeOK, OrderType
    <2>3. check \in JobType /\ credit \in JobType
      BY <2>1, <2>2, JobChanged DEF Steps
    <2>4. p # NoPay => JobOK(check)
      <3>1. p # NoPay => p \in Pays /\ Inserted(p)
        BY <2>1, <2>2 DEF StateInv, LinksOK
      <3>2. check.at = "refundCheck" /\ check.pay = p
        BY <2>1 DEF JobType
      <3> QED
        BY <2>3, <3>1, <3>2 DEF JobOK, OrderSteps, PaySteps
    <2>5. JobOK(credit)
      <3>1. credit.at = "credit" /\ credit.ord = task[t].ord
        BY <2>1 DEF JobType
      <3> QED
        BY <2>1, <2>3, <3>1 DEF JobOK, OrderSteps, PaySteps
    <2>6. /\ \/ p # NoPay /\ GoTo(t, check)
             \/ GoTo(t, credit)
             \/ Done(t)
          /\ UNCHANGED <<order, row, rzp, stockVars, walletVars>>
      BY <1>9 DEF PickRefund
    <2> HIDE DEF p, check, credit
    <2> QED
      BY <1>2, <2>4, <2>5, <2>6, MoveKeeps
  <1> QED
    BY <1>4, <1>5, <1>6, <1>7, <1>8, <1>9

-----------------------------------------------------------------------------
(* Writes: one task moves and some rows change.  Orders stay placed and    *)
(* payments stay inserted.                                                 *)

DataOK ==
  /\ order \in [Orders -> OrderType] /\ row \in [Pays -> RowType] /\ rzp \in [Pays -> RzpType]
  /\ stock \in Nat /\ balance \in Nat
  /\ restored \in [Orders -> Nat] /\ debits \in [Orders -> Nat] /\ credits \in [Orders -> Nat]

Grows ==
  /\ \A o \in Orders : Placed(o) => Placed(o)'
  /\ \A p \in Pays : Inserted(p) => Inserted(p)'

(* A write that keeps the types and the links keeps StateInv.              *)
LEMMA WriteKeeps ==
  ASSUME StateInv, NEW t \in Tasks, NEW job, JobOK(job), GoTo(t, job),
         DataOK', Grows, LinksOK'
  PROVE  StateInv'
  <1>1. job \in JobType
    BY DEF JobOK
  <1>2. /\ task' \in [Tasks -> JobType]
        /\ task'[t] = job
        /\ \A u \in Tasks : u # t => task'[u] = task[u]
    BY <1>1, OneMoves DEF StateInv, TypeOK, GoTo
  <1>3. TypeOK'
    BY <1>2 DEF DataOK, TypeOK
  <1>4. \A u \in Tasks : JobOK(task[u])'
    <2> TAKE u \in Tasks
    <2>1. JobOK(task[u]) /\ JobOK(job)
      BY DEF StateInv
    <2>2. task'[u] = task[u] \/ task'[u] = job
      BY <1>2
    <2>3. task'[u] \in JobType
      BY <1>2
    <2> QED
      BY <2>1, <2>2, <2>3 DEF JobOK, Grows, JobType, OrderSteps
  <1> QED
    BY <1>3, <1>4 DEF StateInv

(* What a write of orders, or of one payment, must respect.                *)
LEMMA OrderWritten ==
  ASSUME StateInv, order' \in [Orders -> OrderType],
         \A o \in Orders : order'[o].latest = order[o].latest,
         \A o \in Orders : Placed(o) => Placed(o)',
         UNCHANGED <<row, rzp>>
  PROVE  Grows /\ LinksOK'
  BY DEF StateInv, TypeOK, Grows, Placed, Inserted, LinksOK, Reported

(* What a write of one payment must respect.                               *)
LEMMA RowWritten ==
  ASSUME StateInv, NEW p \in Pays, NEW r \in RowType,
         row' = [row EXCEPT ![p] = r], Inserted(p) => r.ord # NoOrder,
         UNCHANGED <<order, rzp>>
  PROVE  row' \in [Pays -> RowType] /\ Grows /\ LinksOK'
  BY DEF StateInv, TypeOK, Grows, Placed, Inserted, LinksOK, Reported

(* Checkout writes one order and moves no task.                            *)
LEMMA CheckoutKeeps ==
  ASSUME StateInv, NEW o \in Orders, PlaceOrder(o) \/ PlaceCoveredOrder(o)
  PROVE  StateInv'
  <1>1. DataOK' /\ LinksOK' /\ Grows
    <2>1. order \in [Orders -> OrderType]
      BY DEF StateInv, TypeOK
    <2>2. order' \in [Orders -> OrderType]
      BY <2>1 DEF PlaceOrder, PlaceCoveredOrder, OrderType, OrderStatus, PayStatus
    <2>3. balance' \in Nat /\ stock' \in Nat /\ debits' \in [Orders -> Nat]
      BY ConstantsAssumption DEF PlaceOrder, PlaceCoveredOrder, StateInv, TypeOK, walletVars
    <2>4. /\ \A q \in Orders : order'[q].latest = order[q].latest
          /\ \A q \in Orders : Placed(q) => Placed(q)'
      BY <2>1 DEF PlaceOrder, PlaceCoveredOrder, OrderType, Placed
    <2>5. UNCHANGED <<row, rzp, restored, credits>>
      BY DEF PlaceOrder, PlaceCoveredOrder, walletVars
    <2> QED
      BY <2>2, <2>3, <2>4, <2>5
      DEF StateInv, TypeOK, DataOK, LinksOK, Grows, Inserted, Reported
  <1>2. UNCHANGED task
    BY DEF PlaceOrder, PlaceCoveredOrder
  <1>3. TypeOK'
    BY <1>1, <1>2 DEF StateInv, TypeOK, DataOK
  <1>4. \A u \in Tasks : JobOK(task[u])'
    BY <1>1, <1>2 DEF StateInv, JobOK, Grows, JobType, OrderSteps
  <1> QED
    BY <1>1, <1>3, <1>4 DEF StateInv

(* Razorpay changes its own record of an inserted payment.                 *)
LEMMA GatewayKeeps ==
  ASSUME StateInv, Gateway
  PROVE  StateInv'
  <1>1. PICK p \in Pays : Authorize(p) \/ Capture(p) \/ Lapse(p) \/ Decline(p)
    BY DEF Gateway
  <1>2. Inserted(p) /\ UNCHANGED <<order, row, stockVars, walletVars, task>>
    BY <1>1 DEF Authorize, Capture, Lapse, Decline, Razorpay
  <1>3. rzp' \in [Pays -> RzpType] /\ \A q \in Pays : q # p => rzp'[q] = rzp[q]
    <2>1. rzp \in [Pays -> RzpType]
      BY DEF StateInv, TypeOK
    <2>2. \A to \in {"authorized", "captured", "lapsed"} :
            [rzp[p] EXCEPT !.state = to] \in RzpType
      BY <2>1 DEF RzpType
    <2>3. [rzp[p] EXCEPT !.declined = TRUE] \in RzpType
      BY <2>1 DEF RzpType
    <2>4. \/ \E to \in {"authorized", "captured", "lapsed"} :
                rzp' = [rzp EXCEPT ![p] = [rzp[p] EXCEPT !.state = to]]
          \/ rzp' = [rzp EXCEPT ![p] = [rzp[p] EXCEPT !.declined = TRUE]]
      BY <1>1 DEF Authorize, Capture, Lapse, Decline, Razorpay
    <2> QED
      BY <2>1, <2>2, <2>3, <2>4
  <1>4. TypeOK'
    BY <1>2, <1>3 DEF StateInv, TypeOK, stockVars, walletVars
  <1>5. LinksOK'
    BY <1>2, <1>3 DEF StateInv, LinksOK, Inserted, Reported
  <1>6. \A u \in Tasks : JobOK(task[u])'
    BY <1>2 DEF StateInv, JobOK, Placed, Inserted
  <1> QED
    BY <1>4, <1>5, <1>6 DEF StateInv

(* The steps of a task that write: one case each.                          *)
LEMMA WriteStepKeeps ==
  ASSUME StateInv, NEW t \in Tasks,
         \/ InsertPaymentRow(t) \/ FinalizeMovedOn(t) \/ FinalizeConfirm(t)
         \/ ClaimWalletDebit(t) \/ SettleWallet(t) \/ FailRow(t) \/ FailOrder(t)
         \/ CancelExpiredOrder(t) \/ CommitCancel(t) \/ AdminWrite(t) \/ RestoreStock(t)
         \/ CreditWallet(t) \/ RefundCall(t) \/ RefundRow(t) \/ MarkOrderRefunded(t)
  PROVE  StateInv'
  <1> DEFINE j == task[t]
  <1>1. JobOK(j) /\ j \in JobType
    BY DEF StateInv, JobOK
  <1>2. DataOK
    BY DEF StateInv, TypeOK, DataOK
  <1>3. JobOK(Idle)
    BY IdleOK
  <1>4. j.at \in PaySteps => /\ j.pay \in Pays /\ Inserted(j.pay)
                             /\ row[j.pay].ord \in Orders
    BY <1>1, <1>2 DEF JobOK, DataOK, RowType, Inserted
  <1>5. j.at \in OrderSteps => j.ord \in Orders
    BY <1>1 DEF JobOK
  (* The rows a step may write.                                            *)
  <1>7. ASSUME NEW p \in Pays, NEW ps \in PayStatus
        PROVE  /\ [row[p] EXCEPT !.status = ps] \in RowType
               /\ [row[p] EXCEPT !.status = ps, !.review = TRUE] \in RowType
               /\ [row[p] EXCEPT !.status = ps].ord = row[p].ord
               /\ [row[p] EXCEPT !.status = ps, !.review = TRUE].ord = row[p].ord
    BY <1>2 DEF DataOK, RowType
  <1>8. {"CONFIRMED", "CANCELLED", "REFUNDED"} \subseteq OrderStatus \ {"NONE"}
        /\ AdminTargets \subseteq OrderStatus \ {"NONE"}
        /\ {"PAID", "FAILED", "EXPIRED", "REFUNDED", "PENDING"} \subseteq PayStatus
    BY DEF OrderStatus, PayStatus, AdminTargets, AdminTransitions
  <1>9. ASSUME NEW p \in Pays, NEW ps \in PayStatus, Inserted(p),
               row' = [row EXCEPT ![p].status = ps], UNCHANGED <<order, rzp, stockVars, walletVars>>
        PROVE  DataOK' /\ Grows /\ LinksOK'
    <2>1. row' = [row EXCEPT ![p] = [row[p] EXCEPT !.status = ps]]
      BY <1>9
    <2>2. PICK r \in RowType : row' = [row EXCEPT ![p] = r] /\ r.ord = row[p].ord
      BY <1>7, <2>1
    <2>3. row' \in [Pays -> RowType] /\ Grows /\ LinksOK'
      BY <1>9, <2>2, RowWritten DEF Inserted
    <2> QED
      BY <1>2, <1>9, <2>3 DEF DataOK, stockVars, walletVars
  <1>10. ASSUME NEW o \in Orders, NEW s \in OrderStatus \ {"NONE"}, NEW ps \in PayStatus,
                \/ order' = [order EXCEPT ![o].status = s]
                \/ order' = [order EXCEPT ![o].status = s, ![o].payStatus = ps]
                \/ order' = [order EXCEPT ![o].payStatus = ps]
                \/ \E r \in {"none", order[o].rider} :
                     order' = [order EXCEPT ![o].status = s, ![o].rider = r],
                UNCHANGED <<row, rzp>>
         PROVE  order' \in [Orders -> OrderType] /\ Grows /\ LinksOK'
    <2>1. /\ order' \in [Orders -> OrderType]
          /\ \A q \in Orders : order'[q].latest = order[q].latest
          /\ \A q \in Orders : order'[q].status \in {s, order[q].status}
      <3>1. order[o] \in OrderType /\ order \in [Orders -> OrderType]
        BY <1>2 DEF DataOK
      <3>2. {"none", order[o].rider} \subseteq {"none", "ACCEPTED", "IN_TRANSIT"}
        BY <3>1 DEF OrderType
      <3>3. ASSUME NEW w \in OrderType, order' = [order EXCEPT ![o] = w],
                   w.latest = order[o].latest, w.status \in {s, order[o].status}
            PROVE  /\ order' \in [Orders -> OrderType]
                   /\ \A q \in Orders : order'[q].latest = order[q].latest
                   /\ \A q \in Orders : order'[q].status \in {s, order[q].status}
        BY <3>1, <3>3
      <3>4. CASE order' = [order EXCEPT ![o].status = s]
        <4> DEFINE w == [order[o] EXCEPT !.status = s]
        <4>1. w \in OrderType /\ w.latest = order[o].latest /\ w.status = s
          BY <3>1 DEF OrderType
        <4> QED
          BY <3>3, <3>4, <4>1
      <3>5. CASE order' = [order EXCEPT ![o].status = s, ![o].payStatus = ps]
        <4> DEFINE w == [order[o] EXCEPT !.status = s, !.payStatus = ps]
        <4>1. w \in OrderType /\ w.latest = order[o].latest /\ w.status = s
          BY <3>1 DEF OrderType
        <4>2. order' = [order EXCEPT ![o] = w]
          BY <3>5
        <4> HIDE DEF w
        <4> QED
          BY <3>3, <4>1, <4>2
      <3>6. CASE order' = [order EXCEPT ![o].payStatus = ps]
        <4> DEFINE w == [order[o] EXCEPT !.payStatus = ps]
        <4>1. w \in OrderType /\ w.latest = order[o].latest /\ w.status = order[o].status
          BY <3>1 DEF OrderType
        <4> QED
          BY <3>3, <3>6, <4>1
      <3>7. ASSUME NEW r \in {"none", order[o].rider},
                   order' = [order EXCEPT ![o].status = s, ![o].rider = r]
            PROVE  /\ order' \in [Orders -> OrderType]
                   /\ \A q \in Orders : order'[q].latest = order[q].latest
                   /\ \A q \in Orders : order'[q].status \in {s, order[q].status}
        <4> DEFINE w == [order[o] EXCEPT !.status = s, !.rider = r]
        <4>1. w \in OrderType /\ w.latest = order[o].latest /\ w.status = s
          BY <3>1, <3>2 DEF OrderType
        <4>2. order' = [order EXCEPT ![o] = w]
          BY <3>7
        <4> HIDE DEF w
        <4> QED
          BY <3>3, <4>1, <4>2
      <3> QED
        BY <1>10, <3>4, <3>5, <3>6, <3>7
    <2> QED
      BY <1>10, <2>1, OrderWritten DEF Placed
  <1>11. ASSUME UNCHANGED <<order, row, rzp>>
         PROVE  Grows /\ LinksOK'
    BY <1>11 DEF StateInv, Grows, LinksOK, Placed, Inserted, Reported

  <1>a. CASE InsertPaymentRow(t)
    <2>0. PICK p \in Pays, o \in Orders : p = j.pay /\ o = j.ord
      BY <1>1, <1>5, <1>a DEF InsertPaymentRow, At, JobOK, OrderSteps
    <2>1. Done(t)
      BY <1>a DEF InsertPaymentRow
    <2>2. [ord |-> o, status |-> "PENDING", review |-> FALSE] \in RowType
      BY <2>1, <1>8 DEF RowType
    <2>3. row' \in [Pays -> RowType] /\ row'[p].ord = o
          /\ \A q \in Pays : q # p => row'[q] = row[q]
      BY <1>2, <1>a, <2>0, <2>2 DEF InsertPaymentRow, DataOK
    <2>4. /\ order' \in [Orders -> OrderType]
          /\ \A q \in Orders : order'[q].status = order[q].status
          /\ \A q \in Orders : order'[q].latest = IF q = o THEN p ELSE order[q].latest
      <3> DEFINE w == [order[o] EXCEPT !.latest = p]
      <3>1. order' = [order EXCEPT ![o] = w]
        BY <1>a, <2>0 DEF InsertPaymentRow
      <3>2. order[o] \in OrderType /\ order \in [Orders -> OrderType]
        BY <1>2 DEF DataOK
      <3>3. w \in OrderType /\ w.latest = p /\ w.status = order[o].status
        BY <3>2 DEF OrderType
      <3> HIDE DEF w
      <3> QED
        BY <3>1, <3>2, <3>3
    <2>5. UNCHANGED <<rzp, stockVars, walletVars>>
      BY <1>a DEF InsertPaymentRow
    <2>6. DataOK'
      BY <1>2, <2>3, <2>4, <2>5 DEF DataOK, stockVars, walletVars
    <2>7. \A q \in Pays : Inserted(q) => Inserted(q)'
      BY <2>1, <2>3, ConstantsAssumption DEF Inserted
    <2>8. Inserted(p)'
      BY <2>1, <2>3, ConstantsAssumption DEF Inserted
    <2>9. LinksOK'
      <3>1. \A q \in Pays : Reported(q)' \/ rzp'[q].declined \/ rzp'[q].refunded => Inserted(q)'
        BY <2>5, <2>7 DEF StateInv, LinksOK, Reported
      <3>2. \A q \in Orders : order'[q].latest # NoPay => Inserted(order[q].latest)'
        <4> SUFFICES ASSUME NEW q \in Orders, order'[q].latest # NoPay
                     PROVE  Inserted(order[q].latest)'
          OBVIOUS
        <4>1. CASE q = o
          BY <2>4, <2>8, <4>1
        <4>2. CASE q # o
          <5>1. order'[q].latest = order[q].latest /\ order[q].latest \in Pays
            BY <1>2, <2>4, <4>2 DEF DataOK, OrderType
          <5>2. Inserted(order[q].latest)
            BY <5>1 DEF StateInv, LinksOK
          <5> QED
            BY <2>3, <2>8, <5>1, <5>2 DEF Inserted
        <4> QED
          BY <4>1, <4>2
      <3> QED
        BY <3>1, <3>2 DEF LinksOK
    <2>10. Grows
      BY <2>4, <2>7 DEF Grows, Placed
    <2> QED
      BY <1>3, <2>1, <2>6, <2>9, <2>10, WriteKeeps DEF Done
  <1>b. CASE FinalizeMovedOn(t)
    <2>0. PICK p \in Pays : p = j.pay /\ Inserted(p)
      BY <1>4, <1>b DEF FinalizeMovedOn, At, PaySteps
    <2>1. row' = [row EXCEPT ![p] = [row[p] EXCEPT !.status = "PAID", !.review = TRUE]]
      BY <1>b, <2>0 DEF FinalizeMovedOn
    <2>2. PICK r \in RowType : row' = [row EXCEPT ![p] = r] /\ r.ord = row[p].ord
      BY <1>7, <1>8, <2>1
    <2>3. row' \in [Pays -> RowType] /\ Grows /\ LinksOK'
      BY <1>b, <2>2, RowWritten DEF FinalizeMovedOn, Inserted
    <2>4. DataOK'
      BY <1>2, <1>b, <2>3 DEF DataOK, FinalizeMovedOn, stockVars, walletVars
    <2> QED
      BY <1>3, <1>b, <2>3, <2>4, WriteKeeps DEF FinalizeMovedOn, Done
  <1>c. CASE FinalizeConfirm(t)
    <2>0. PICK p \in Pays, o \in Orders : p = j.pay /\ Inserted(p) /\ o = row[p].ord
      BY <1>4, <1>c DEF FinalizeConfirm, At, PaySteps
    <2>1. PICK r \in RowType : row' = [row EXCEPT ![p] = r] /\ r.ord = row[p].ord
      <3>1. row' = [row EXCEPT ![p] = [row[p] EXCEPT !.status = "PAID"]]
        BY <1>c, <2>0 DEF FinalizeConfirm
      <3> QED
        BY <1>7, <1>8, <3>1
    <2>2. row' \in [Pays -> RowType] /\ \A q \in Pays : Inserted(q) => Inserted(q)'
      BY <1>2, <2>1 DEF DataOK, Inserted
    <2>3. /\ order' \in [Orders -> OrderType]
          /\ \A q \in Orders : order'[q].latest = order[q].latest
          /\ \A q \in Orders : order'[q].status \in {"CONFIRMED", order[q].status}
      <3> DEFINE w == [order[o] EXCEPT !.status = "CONFIRMED", !.payStatus = "PAID"]
      <3>1. order' = [order EXCEPT ![o] = w]
        BY <1>c, <2>0 DEF FinalizeConfirm
      <3>2. order[o] \in OrderType /\ order \in [Orders -> OrderType]
        BY <1>2 DEF DataOK
      <3>3. w \in OrderType /\ w.latest = order[o].latest /\ w.status = "CONFIRMED"
        BY <3>2 DEF OrderType, OrderStatus, PayStatus
      <3> HIDE DEF w
      <3> QED
        BY <3>1, <3>2, <3>3
    <2>4. DataOK' /\ UNCHANGED rzp
      BY <1>2, <1>c, <2>2, <2>3 DEF FinalizeConfirm, DataOK, stockVars, walletVars
    <2>5. Grows
      BY <2>2, <2>3 DEF Grows, Placed
    <2>6. LinksOK'
      <3>1. \A q \in Pays : Reported(q)' \/ rzp'[q].declined \/ rzp'[q].refunded => Inserted(q)'
        BY <2>2, <2>4 DEF StateInv, LinksOK, Reported
      <3>2. \A q \in Pays : row'[q].ord = row[q].ord
        BY <1>2, <2>1 DEF DataOK
      <3>3. ASSUME NEW q \in Orders, order'[q].latest # NoPay PROVE Inserted(order[q].latest)'
        <4>1. order[q].latest \in Pays
          BY <1>2, <2>3, <3>3 DEF DataOK, OrderType
        <4> QED
          BY <2>3, <3>2, <3>3, <4>1 DEF StateInv, LinksOK, Inserted
      <3> QED
        BY <3>1, <3>3 DEF LinksOK
    <2>7. JobOK(Job("claim", o, NoPay, "none", "none"))
      <3>1. Placed(o)
        BY <1>c, <2>0 DEF FinalizeConfirm, Confirmable, Placed
      <3> QED
        BY <3>1, JobTyped DEF Job, JobOK, OrderSteps, PaySteps, Steps, Sources
    <2>8. GoTo(t, Job("claim", o, NoPay, "none", "none"))
      BY <1>c, <2>0 DEF FinalizeConfirm
    <2> QED
      BY <2>4, <2>5, <2>6, <2>7, <2>8, WriteKeeps
  <1>d. CASE ClaimWalletDebit(t)
    <2>0. PICK o \in Orders : o = j.ord /\ Placed(o)
      BY <1>1, <1>d DEF ClaimWalletDebit, At, JobOK, OrderSteps
    <2>1. JobOK([j EXCEPT !.at = "settle"])
      <3>1. [j EXCEPT !.at = "settle"] \in JobType
        BY <1>1, JobChanged, ConstantsAssumption DEF Steps
      <3> QED
        BY <1>1, <2>0, <3>1 DEF JobOK, JobType, OrderSteps, PaySteps
    <2>2. order' = order \/ order' = [order EXCEPT ![o].debited = TRUE]
      BY <1>d, <2>0 DEF ClaimWalletDebit
    <2>3. /\ order' \in [Orders -> OrderType]
          /\ \A q \in Orders : order'[q].latest = order[q].latest
          /\ \A q \in Orders : order'[q].status = order[q].status
      <3>1. CASE order' = order
        BY <1>2, <3>1 DEF DataOK
      <3>2. CASE order' = [order EXCEPT ![o].debited = TRUE]
        <4> DEFINE w == [order[o] EXCEPT !.debited = TRUE]
        <4>1. order' = [order EXCEPT ![o] = w]
          BY <3>2
        <4>2. order[o] \in OrderType /\ order \in [Orders -> OrderType]
          BY <1>2 DEF DataOK
        <4>3. w \in OrderType /\ w.latest = order[o].latest /\ w.status = order[o].status
          BY <4>2 DEF OrderType
        <4> HIDE DEF w
        <4> QED
          BY <4>1, <4>2, <4>3
      <3> QED
        BY <2>2, <3>1, <3>2
    <2>4. UNCHANGED <<row, rzp, stockVars, walletVars>>
      BY <1>d DEF ClaimWalletDebit
    <2>5. Grows /\ LinksOK'
      BY <2>3, <2>4, OrderWritten DEF Placed
    <2>6. DataOK'
      BY <1>2, <2>3, <2>4 DEF DataOK, stockVars, walletVars
    <2>7. GoTo(t, [j EXCEPT !.at = "settle"]) \/ GoTo(t, Idle)
      BY <1>d DEF ClaimWalletDebit, Done
    <2> QED
      BY <1>3, <2>1, <2>5, <2>6, <2>7, WriteKeeps
  <1>e. CASE SettleWallet(t)
    <2>0. PICK o \in Orders : o = j.ord
      BY <1>5, <1>e DEF SettleWallet, At, OrderSteps
    <2>1. balance' \in Nat /\ debits' \in [Orders -> Nat]
      BY <1>2, <1>e, <2>0, ConstantsAssumption DEF SettleWallet, Affordable, DataOK
    <2>2. DataOK' /\ UNCHANGED <<order, row, rzp>>
      BY <1>2, <1>e, <2>1 DEF SettleWallet, DataOK, stockVars
    <2> QED
      BY <1>3, <1>11, <1>e, <2>2, WriteKeeps DEF SettleWallet, Done
  <1>f. CASE FailRow(t)
    <2>0. PICK p \in Pays : p = j.pay /\ Inserted(p) /\ j.at \in PaySteps
      BY <1>4, <1>f DEF FailRow, At, PaySteps
    <2>1. DataOK' /\ Grows /\ LinksOK'
      BY <1>8, <1>9, <1>f, <2>0 DEF FailRow
    <2>2. JobOK([j EXCEPT !.at = "failOrder"])
      BY <1>1, <2>0, JobGoesOn DEF PaySteps
    <2> QED
      BY <1>f, <2>1, <2>2, WriteKeeps DEF FailRow
  <1>g. CASE RefundRow(t)
    <2>0. PICK p \in Pays : p = j.pay /\ Inserted(p) /\ j.at \in PaySteps
      BY <1>4, <1>g DEF RefundRow, At, PaySteps
    <2>1. DataOK' /\ Grows /\ LinksOK'
      BY <1>8, <1>9, <1>g, <2>0 DEF RefundRow
    <2>2. JobOK([j EXCEPT !.at = "refundOrder"])
      BY <1>1, <2>0, JobGoesOn DEF PaySteps
    <2> QED
      BY <1>g, <2>1, <2>2, WriteKeeps DEF RefundRow
  <1>h. CASE FailOrder(t)
    <2>0. PICK o \in Orders : o = row[j.pay].ord
      BY <1>4, <1>h DEF FailOrder, At, PaySteps
    <2>1. order' \in [Orders -> OrderType] /\ Grows /\ LinksOK'
      BY <1>8, <1>10, <1>h, <2>0 DEF FailOrder
    <2>2. DataOK'
      BY <1>2, <1>h, <2>1 DEF FailOrder, DataOK, stockVars, walletVars
    <2> QED
      BY <1>3, <1>h, <2>1, <2>2, WriteKeeps DEF FailOrder, Done
  <1>i. CASE CancelExpiredOrder(t)
    <2>0. PICK p \in Pays, o \in Orders : p = j.pay /\ Inserted(p) /\ o = row[p].ord
      BY <1>4, <1>i DEF CancelExpiredOrder, At, PaySteps
    <2>1. PICK r \in RowType : row' = [row EXCEPT ![p] = r] /\ r.ord = row[p].ord
      <3>1. row' = [row EXCEPT ![p] = [row[p] EXCEPT !.status = "EXPIRED"]]
        BY <1>i, <2>0 DEF CancelExpiredOrder
      <3> QED
        BY <1>7, <1>8, <3>1
    <2>2. row' \in [Pays -> RowType] /\ \A q \in Pays : row'[q].ord = row[q].ord
      BY <1>2, <2>1 DEF DataOK
    <2>3. /\ order' \in [Orders -> OrderType]
          /\ \A q \in Orders : order'[q].latest = order[q].latest
          /\ \A q \in Orders : order'[q].status \in {"CANCELLED", order[q].status}
      <3>1. CASE order' = order
        BY <1>2, <3>1 DEF DataOK
      <3>2. CASE order' = [order EXCEPT ![o].status = "CANCELLED", ![o].payStatus = "EXPIRED"]
        <4> DEFINE w == [order[o] EXCEPT !.status = "CANCELLED", !.payStatus = "EXPIRED"]
        <4>1. order' = [order EXCEPT ![o] = w]
          BY <3>2
        <4>2. order[o] \in OrderType /\ order \in [Orders -> OrderType]
          BY <1>2 DEF DataOK
        <4>3. w \in OrderType /\ w.latest = order[o].latest /\ w.status = "CANCELLED"
          BY <4>2 DEF OrderType, OrderStatus, PayStatus
        <4> HIDE DEF w
        <4> QED
          BY <4>1, <4>2, <4>3
      <3> QED
        BY <1>i, <2>0, <3>1, <3>2 DEF CancelExpiredOrder
    <2>4. stock' \in Nat /\ restored' \in [Orders -> Nat] /\ UNCHANGED <<rzp, walletVars>>
      <3>1. GiveBack(o) \/ UNCHANGED stockVars
        BY <1>i, <2>0 DEF CancelExpiredOrder
      <3> QED
        <4>1. stock' \in Nat /\ restored' \in [Orders -> Nat]
          BY <1>2, <3>1 DEF GiveBack, DataOK, stockVars
        <4>2. UNCHANGED <<rzp, walletVars>>
          BY <1>i DEF CancelExpiredOrder
        <4> QED
          BY <4>1, <4>2
    <2>5. DataOK'
      BY <1>2, <2>2, <2>3, <2>4 DEF DataOK, walletVars
    <2>6. Grows
      BY <2>2, <2>3 DEF Grows, Placed, Inserted
    <2>7. LinksOK'
      <3>1. \A q \in Pays : Reported(q)' \/ rzp'[q].declined \/ rzp'[q].refunded => Inserted(q)'
        BY <2>2, <2>4 DEF StateInv, LinksOK, Reported, Inserted
      <3>2. ASSUME NEW q \in Orders, order'[q].latest # NoPay PROVE Inserted(order[q].latest)'
        <4>1. order[q].latest \in Pays
          BY <1>2, <2>3, <3>2 DEF DataOK, OrderType
        <4> QED
          BY <2>2, <2>3, <3>2, <4>1 DEF StateInv, LinksOK, Inserted
      <3> QED
        BY <3>1, <3>2 DEF LinksOK
    <2> QED
      BY <1>3, <1>i, <2>5, <2>6, <2>7, WriteKeeps DEF CancelExpiredOrder, Done
  <1>k. CASE CommitCancel(t)
    <2>0. PICK o \in Orders : o = j.ord
      BY <1>5, <1>k DEF CommitCancel, At, OrderSteps
    <2>1. order' \in [Orders -> OrderType] /\ Grows /\ LinksOK'
      BY <1>8, <1>10, <1>k, <2>0 DEF CommitCancel
    <2>2. DataOK'
      BY <1>2, <1>k, <2>0, <2>1 DEF CommitCancel, GiveBack, DataOK, walletVars
    <2> QED
      BY <1>3, <1>k, <2>1, <2>2, WriteKeeps DEF CommitCancel, Done
  <1>l. CASE AdminWrite(t)
    <2>0. PICK o \in Orders, s \in AdminTargets : o = j.ord /\ s = j.seen
      BY <1>1, <1>5, <1>l DEF AdminWrite, At, OrderSteps, JobOK
    <2>1. order' \in [Orders -> OrderType] /\ Grows /\ LinksOK'
      BY <1>8, <1>10, <1>l, <2>0 DEF AdminWrite
    <2>2. DataOK'
      BY <1>2, <1>l, <2>1 DEF AdminWrite, DataOK, stockVars, walletVars
    <2>3. JobOK([j EXCEPT !.at = "restore", !.seen = "none"])
      <3>1. [j EXCEPT !.at = "restore", !.seen = "none"] \in JobType
        BY <1>1, JobChanged, ConstantsAssumption DEF Steps
      <3> QED
        BY <1>1, <2>0, <3>1 DEF JobOK, JobType, OrderSteps, PaySteps
    <2>4. GoTo(t, Idle) \/ GoTo(t, [j EXCEPT !.at = "restore", !.seen = "none"])
      BY <1>l DEF AdminWrite, Done
    <2> QED
      BY <1>3, <2>1, <2>2, <2>3, <2>4, WriteKeeps
  <1>m. CASE RestoreStock(t)
    <2>0. PICK o \in Orders : o = j.ord
      BY <1>5, <1>m DEF RestoreStock, At, OrderSteps
    <2>1. stock' \in Nat /\ restored' \in [Orders -> Nat]
      <3>1. GiveBack(o) \/ UNCHANGED stockVars
        BY <1>m, <2>0 DEF RestoreStock
      <3> QED
        BY <1>2, <3>1 DEF GiveBack, DataOK, stockVars
    <2>2. DataOK' /\ UNCHANGED <<order, row, rzp>>
      BY <1>2, <1>m, <2>1 DEF RestoreStock, DataOK, walletVars
    <2>3. JobOK([j EXCEPT !.at = "pickRefund"])
      <3>1. [j EXCEPT !.at = "pickRefund"] \in JobType
        BY <1>1, JobChanged, ConstantsAssumption DEF Steps
      <3> QED
        BY <1>1, <2>0, <3>1 DEF JobOK, JobType, OrderSteps, PaySteps
    <2>4. GoTo(t, Idle) \/ GoTo(t, [j EXCEPT !.at = "pickRefund"])
      BY <1>m DEF RestoreStock, Done
    <2> QED
      BY <1>3, <1>11, <2>2, <2>3, <2>4, WriteKeeps
  <1>n. CASE CreditWallet(t)
    <2>0. PICK o \in Orders : o = j.ord
      BY <1>5, <1>n DEF CreditWallet, At, OrderSteps
    <2>1. balance' \in Nat /\ credits' \in [Orders -> Nat]
      <3>1. balance' = balance + Due[o] /\ credits' = [credits EXCEPT ![o] = @ + 1]
        BY <1>n, <2>0 DEF CreditWallet
      <3>2. Due[o] \in Nat /\ balance \in Nat /\ credits \in [Orders -> Nat]
        BY <1>2, ConstantsAssumption DEF DataOK
      <3>3. balance' \in Nat
        BY <3>1, <3>2
      <3>4. credits' \in [Orders -> Nat]
        BY <3>1, <3>2
      <3> QED
        BY <3>3, <3>4
    <2>2. DataOK' /\ UNCHANGED <<order, row, rzp>>
      BY <1>2, <1>n, <2>1 DEF CreditWallet, DataOK, stockVars
    <2>3. JobOK(Job("adminWrite", o, NoPay, "none", "REFUNDED"))
      <3>1. "REFUNDED" \in AdminTargets
        BY DEF AdminTargets, AdminTransitions
      <3> QED
        BY <3>1, OrderJobOK DEF Sources
    <2>4. GoTo(t, Idle) \/ GoTo(t, Job("adminWrite", o, NoPay, "none", "REFUNDED"))
      BY <1>n, <2>0 DEF CreditWallet, Done
    <2> QED
      BY <1>3, <1>11, <2>2, <2>3, <2>4, WriteKeeps
  <1>o. CASE RefundCall(t)
    <2>0. PICK p \in Pays : p = j.pay /\ Inserted(p) /\ j.at \in PaySteps
      BY <1>4, <1>o DEF RefundCall, At, PaySteps
    <2>1. rzp' \in [Pays -> RzpType] /\ \A q \in Pays : q # p => rzp'[q] = rzp[q]
      <3>1. [rzp[p] EXCEPT !.refunded = TRUE] \in RzpType
        BY <1>2 DEF DataOK, RzpType
      <3>2. rzp' = rzp \/ rzp' = [rzp EXCEPT ![p] = [rzp[p] EXCEPT !.refunded = TRUE]]
        BY <1>o, <2>0 DEF RefundCall
      <3> QED
        BY <1>2, <3>1, <3>2 DEF DataOK
    <2>2. UNCHANGED <<order, row, stockVars, walletVars>>
      BY <1>o DEF RefundCall
    <2>3. DataOK' /\ Grows
      BY <1>2, <2>1, <2>2 DEF DataOK, Grows, Placed, Inserted, stockVars, walletVars
    <2>4. LinksOK'
      BY <2>0, <2>1, <2>2 DEF StateInv, LinksOK, Inserted, Reported
    <2>5. JobOK([j EXCEPT !.at = "refundRow"])
      BY <1>1, <2>0, JobGoesOn DEF PaySteps
    <2>6. GoTo(t, Idle) \/ GoTo(t, [j EXCEPT !.at = "refundRow"])
      BY <1>o DEF RefundCall, Done
    <2> QED
      BY <1>3, <2>3, <2>4, <2>5, <2>6, WriteKeeps
  <1>p. CASE MarkOrderRefunded(t)
    <2>0. PICK o \in Orders : o = row[j.pay].ord
      BY <1>4, <1>p DEF MarkOrderRefunded, At, PaySteps
    <2>1. order' \in [Orders -> OrderType] /\ Grows /\ LinksOK'
      BY <1>8, <1>10, <1>p, <2>0 DEF MarkOrderRefunded
    <2>2. DataOK'
      BY <1>2, <1>p, <2>1 DEF MarkOrderRefunded, DataOK, stockVars, walletVars
    <2>3. JobOK(Job("adminWrite", o, NoPay, "none", "REFUNDED"))
      <3>1. "REFUNDED" \in AdminTargets
        BY DEF AdminTargets, AdminTransitions
      <3> QED
        BY <3>1, OrderJobOK DEF Sources
    <2>4. GoTo(t, Idle) \/ GoTo(t, Job("adminWrite", o, NoPay, "none", "REFUNDED"))
      BY <1>p, <2>0 DEF MarkOrderRefunded, Done
    <2> QED
      BY <1>3, <2>1, <2>2, <2>3, <2>4, WriteKeeps
  <1> QED
    BY <1>a, <1>b, <1>c, <1>d, <1>e, <1>f, <1>g, <1>h, <1>i, <1>k, <1>l, <1>m, <1>n, <1>o, <1>p

(* createPaymentOrder opens a Razorpay order before its row exists.        *)
LEMMA CreatePaymentKeeps ==
  ASSUME StateInv, NEW t \in Tasks, NEW o \in Orders, NEW p \in Pays, CreatePaymentOrder(t, o, p)
  PROVE  StateInv'
  <1>1. JobOK(Job("insertRow", o, p, "none", "none"))
    BY JobTyped DEF Job, JobOK, OrderSteps, PaySteps, Steps, Sources
  <1>2. GoTo(t, Job("insertRow", o, p, "none", "none"))
    BY DEF CreatePaymentOrder, Begin, GoTo
  <1>3. rzp' = [rzp EXCEPT ![p] = [rzp[p] EXCEPT !.state = "open"]]
    BY DEF CreatePaymentOrder
  <1>4. [rzp[p] EXCEPT !.state = "open"] \in RzpType
    BY DEF StateInv, TypeOK, RzpType
  <1>5. rzp' \in [Pays -> RzpType] /\ \A q \in Pays : q # p => rzp'[q] = rzp[q]
    BY <1>3, <1>4 DEF StateInv, TypeOK
  <1>6. /\ rzp'[p].state = "open" /\ rzp'[p].declined = rzp[p].declined
        /\ rzp'[p].refunded = rzp[p].refunded
    BY <1>3 DEF StateInv, TypeOK, RzpType
  <1>7. UNCHANGED <<order, row, stockVars, walletVars>>
    BY DEF CreatePaymentOrder
  <1>8. DataOK' /\ Grows
    BY <1>5, <1>7 DEF StateInv, TypeOK, DataOK, Grows, Placed, Inserted, stockVars, walletVars
  <1>9. LinksOK'
    BY <1>5, <1>6, <1>7 DEF StateInv, LinksOK, Inserted, Reported
  <1> QED
    BY <1>1, <1>2, <1>8, <1>9, WriteKeeps

(* The rider and the desk write one order and move no task: its wallet     *)
(* claim and its latest payment stay, and its status moves on or stays.    *)
LEMMA DeskWrites ==
  ASSUME StateInv, Shipping \/ Desk
  PROVE  \E o \in Orders, w \in OrderType :
           /\ order' = [order EXCEPT ![o] = w]
           /\ w.latest = order[o].latest /\ w.debited = order[o].debited
           /\ w.status \in {order[o].status, "OUT_FOR_DELIVERY", "DELIVERED", "CANCELLED"}
           /\ UNCHANGED <<row, rzp, stockVars, walletVars, task>>
  <1>1. order \in [Orders -> OrderType] /\ Share \in [Orders -> Nat] /\ Due \in [Orders -> Nat]
    BY ConstantsAssumption DEF StateInv, TypeOK
  <1>2. CASE Shipping
    <2>1. PICK o \in Orders : AcceptOrder(o) \/ MarkPickedUp(o) \/ MarkDelivered(o) \/ CancelDelivery(o)
      BY <1>2 DEF Shipping
    <2> DEFINE Row(w) == /\ order' = [order EXCEPT ![o] = w]
                         /\ UNCHANGED <<row, rzp, stockVars, walletVars, task>>
    <2>2. \/ Row([order[o] EXCEPT !.rider = "ACCEPTED"])
          \/ Row([order[o] EXCEPT !.rider = "IN_TRANSIT", !.status = "OUT_FOR_DELIVERY"])
          \/ Row([order[o] EXCEPT !.rider = "none", !.handed = TRUE,
                                  !.status = "DELIVERED", !.payStatus = "PAID"])
          \/ Row([order[o] EXCEPT !.rider = "none", !.status = "CANCELLED"])
      BY <2>1 DEF AcceptOrder, MarkPickedUp, MarkDelivered, CancelDelivery, Deliver
    <2> QED
      BY <1>1, <2>2 DEF OrderType, OrderStatus, PayStatus
  <1>3. CASE Desk
    <2>1. PICK o \in Orders : RecordSettlement(o) \/ ReverseSettlement(o)
      BY <1>3 DEF Desk
    <2>2. PICK n \in Nat : /\ order' = [order EXCEPT ![o].received = n, ![o].payStatus = Settled(o, n)]
                          /\ UNCHANGED <<row, rzp, stockVars, walletVars, task>>
      <3>0. order[o].received \in Nat
        BY <1>1 DEF OrderType
      <3>1. CASE RecordSettlement(o)
        <4>1. order[o].received + 1 \in Nat
          BY <3>0
        <4>2. order' = [order EXCEPT ![o].received = order[o].received + 1,
                                     ![o].payStatus = Settled(o, order[o].received + 1)]
          BY <3>1 DEF RecordSettlement
        <4> QED
          BY <3>1, <4>1, <4>2 DEF RecordSettlement
      <3>2. CASE ReverseSettlement(o)
        <4>1. order[o].received - 1 \in Nat
          BY <3>0, <3>2 DEF ReverseSettlement
        <4>2. order' = [order EXCEPT ![o].received = order[o].received - 1,
                                     ![o].payStatus = Settled(o, order[o].received - 1)]
          BY <3>2 DEF ReverseSettlement
        <4> QED
          BY <3>2, <4>1, <4>2 DEF ReverseSettlement
      <3> QED
        BY <2>1, <3>1, <3>2
    <2>3. Settled(o, n) \in PayStatus \cup {"PARTIALLY_PAID"}
      BY DEF Settled, PayStatus
    <2>4. order' = [order EXCEPT ![o] = [order[o] EXCEPT !.received = n, !.payStatus = Settled(o, n)]]
      BY <2>2
    <2>5. [order[o] EXCEPT !.received = n, !.payStatus = Settled(o, n)] \in OrderType
      BY <1>1, <2>3 DEF OrderType
    <2> HIDE DEF Settled
    <2> QED
      BY <1>1, <2>2, <2>4, <2>5 DEF OrderType
  <1> QED
    BY <1>2, <1>3

(* Such a write keeps the types and the links.                             *)
LEMMA DeskKeeps ==
  ASSUME StateInv, Shipping \/ Desk
  PROVE  StateInv'
  <1>1. PICK o \in Orders, w \in OrderType :
          /\ order' = [order EXCEPT ![o] = w]
          /\ w.latest = order[o].latest
          /\ w.status \in {order[o].status, "OUT_FOR_DELIVERY", "DELIVERED", "CANCELLED"}
          /\ UNCHANGED <<row, rzp, stockVars, walletVars, task>>
    BY DeskWrites
  <1>2. order \in [Orders -> OrderType]
    BY DEF StateInv, TypeOK
  <1>3. /\ order' \in [Orders -> OrderType]
        /\ \A q \in Orders : order'[q].latest = order[q].latest
        /\ \A q \in Orders : Placed(q) => Placed(q)'
    BY <1>1, <1>2 DEF Placed
  <1>4. Grows /\ LinksOK'
    BY <1>1, <1>3, OrderWritten
  <1>5. TypeOK'
    BY <1>1, <1>3 DEF StateInv, TypeOK, stockVars, walletVars
  <1>6. \A u \in Tasks : JobOK(task[u])'
    BY <1>1, <1>4 DEF StateInv, JobOK, Grows, JobType, OrderSteps
  <1> QED
    BY <1>4, <1>5, <1>6 DEF StateInv

(* Nothing a request, a webhook, a worker, an admin or a crash does leaves *)
(* the types, and no task ever works on a row that is not there.           *)
LEMMA StateInvHolds == Spec => []StateInv
  <1>1. Init => StateInv
    <2> SUFFICES ASSUME Init PROVE StateInv
      OBVIOUS
    <2>1. NoOrderRow \in OrderType /\ NoPayRow \in RowType
      BY DEF NoOrderRow, NoPayRow, OrderType, RowType, OrderStatus, PayStatus
    <2>2. [state |-> "none", declined |-> FALSE, refunded |-> FALSE] \in RzpType
      BY DEF RzpType
    <2>3. Idle \in JobType
      BY IdleOK DEF JobOK
    <2>4. TypeOK
      BY <2>1, <2>2, <2>3, ConstantsAssumption DEF Init, TypeOK
    <2>5. \A t \in Tasks : JobOK(task[t])
      BY IdleOK DEF Init
    <2>6. LinksOK
      BY DEF Init, LinksOK, Reported, NoOrderRow
    <2> QED
      BY <2>4, <2>5, <2>6 DEF StateInv
  <1>2. StateInv /\ [Next]_vars => StateInv'
    <2> SUFFICES ASSUME StateInv, [Next]_vars PROVE StateInv'
      OBVIOUS
    <2>1. CASE Checkout \/ Gateway
      BY <2>1, CheckoutKeeps, GatewayKeeps DEF Checkout
    <2>2. ASSUME NEW t \in Tasks, PaymentRequest(t) PROVE StateInv'
      BY <2>2, PaymentRequestKeeps, CreatePaymentKeeps
    <2>3. ASSUME NEW t \in Tasks, OrderRequest(t) PROVE StateInv'
      BY <2>3, OrderRequestKeeps
    <2>4. ASSUME NEW t \in Tasks, Step(t) \/ Crash(t) PROVE StateInv'
      BY <2>4, ReadStepKeeps, WriteStepKeeps DEF Step
    <2>5. CASE UNCHANGED vars
      BY <2>5 DEF vars, StateInv, TypeOK, LinksOK, JobOK, Placed, Inserted, Reported
    <2>6. CASE Shipping \/ Desk
      BY <2>6, DeskKeeps
    <2> QED
      BY <2>1, <2>2, <2>3, <2>4, <2>5, <2>6 DEF Next
  <1> QED
    BY <1>1, <1>2, PTL DEF Spec

(* Every column keeps its type and the wallet is never overdrawn.          *)
THEOREM TypeCorrect == Spec => []TypeOK
  <1>1. StateInv => TypeOK
    BY DEF StateInv
  <1> QED
    BY <1>1, StateInvHolds, PTL

-----------------------------------------------------------------------------
(* What most steps leave alone: the claim and the debit of a wallet slice, *)
(* the statuses checkout writes, and the clean PAID rows.                  *)

OrderMoves ==
  \A o \in Orders : /\ order'[o].debited = order[o].debited
                    /\ \/ order'[o].status = order[o].status
                       \/ order'[o].status \notin {"NONE", "ORDER_PLACED"}
NobodySettles ==
  /\ debits' = debits
  /\ \A t \in Tasks : task'[t].at = "settle" => task'[t] = task[t]
NothingCleaner ==
  \A p \in Pays : Clean(p)' => Clean(p) /\ row'[p].ord = row[p].ord

(* A step that ends elsewhere than before the debit, and debits nothing.   *)
LEMMA OtherSettlesNot ==
  ASSUME StateInv, NEW t \in Tasks, NEW job, GoTo(t, job), job.at # "settle", debits' = debits
  PROVE  NobodySettles
  BY DEF StateInv, TypeOK, GoTo, NobodySettles

(* Requests write no row.                                                  *)
LEMMA RequestsLeave ==
  ASSUME StateInv, NEW t \in Tasks, PaymentRequest(t) \/ OrderRequest(t)
  PROVE  OrderMoves /\ NobodySettles /\ NothingCleaner
  <1>1. UNCHANGED <<order, row, debits>>
    BY DEF PaymentRequest, OrderRequest, CreatePaymentOrder, AdminReconcile, VerifyPayment,
           VerifyMismatch, WebhookPaid, WebhookFailed, WebhookRefunded, ProcessExpired,
           RecoverFailed, RefundPayment, CancelOrder, UpdateStatus, AdminCancel, RefundOrder,
           Ask, ReportPaid, walletVars
  <1>2. \E job : GoTo(t, job) /\ job.at # "settle"
    <2>1. ASSUME NEW at, NEW o, NEW p, NEW src, NEW seen, NEW kind,
                 Begin(t, kind, Job(at, o, p, src, seen)), at # "settle"
          PROVE  \E job : GoTo(t, job) /\ job.at # "settle"
      <3>1. Job(at, o, p, src, seen).at = at
        BY DEF Job
      <3>2. GoTo(t, Job(at, o, p, src, seen))
        BY <2>1 DEF Begin, GoTo
      <3> QED
        BY <2>1, <3>1, <3>2
    <2>2. CASE PaymentRequest(t)
      <3>1. CASE \E o \in Orders, p \in Pays : CreatePaymentOrder(t, o, p)
        BY <2>1, <3>1 DEF CreatePaymentOrder
      <3>2. CASE \E p \in Pays : \E kind, src : Ask(t, kind, p, src)
        BY <2>1, <3>2 DEF Ask
      <3>3. CASE \E p \in Pays : \E kind : ReportPaid(t, kind, p)
        BY <2>1, <3>3 DEF ReportPaid
      <3>4. CASE \E p \in Pays : WebhookFailed(t, p)
        BY <2>1, <3>4 DEF WebhookFailed
      <3>5. CASE \E p \in Pays : WebhookRefunded(t, p)
        BY <2>1, <3>5 DEF WebhookRefunded
      <3>6. CASE \E p \in Pays : RefundPayment(t, p)
        BY <2>1, <3>6 DEF RefundPayment
      <3>7. CASE \E o \in Orders : AdminReconcile(t, o)
        BY <2>1, <3>7 DEF AdminReconcile, Ask
      <3> QED
        <4>1. CASE \E p \in Pays : VerifyPayment(t, p) \/ WebhookPaid(t, p)
          BY <3>3, <4>1 DEF VerifyPayment, WebhookPaid
        <4>2. CASE \E p \in Pays : VerifyMismatch(t, p)
          BY <3>2, <4>2 DEF VerifyMismatch
        <4>3. CASE \E p \in Pays : ProcessExpired(t, p)
          BY <3>2, <4>3 DEF ProcessExpired
        <4>4. CASE \E p \in Pays : RecoverFailed(t, p)
          BY <3>2, <4>4 DEF RecoverFailed
        <4> QED
          BY <2>2, <3>1, <3>4, <3>5, <3>6, <3>7, <4>1, <4>2, <4>3, <4>4 DEF PaymentRequest
    <2>3. CASE OrderRequest(t)
      <3>1. PICK o \in Orders : \/ CancelOrder(t, o)
                                \/ \E to : UpdateStatus(t, o, to)
                                \/ \E src : AdminCancel(t, o, src) \/ RefundOrder(t, o, src)
        BY <2>3 DEF OrderRequest
      <3>2. CASE CancelOrder(t, o)
        BY <2>1, <3>2 DEF CancelOrder
      <3>3. CASE \E to : UpdateStatus(t, o, to)
        BY <2>1, <3>3 DEF UpdateStatus
      <3>4. CASE \E src : AdminCancel(t, o, src)
        BY <2>1, <3>4 DEF AdminCancel
      <3>5. CASE \E src : RefundOrder(t, o, src)
        BY <2>1, <3>5 DEF RefundOrder
      <3> QED
        BY <3>1, <3>2, <3>3, <3>4, <3>5
    <2> QED
      BY <2>2, <2>3
  <1>3. NobodySettles
    BY <1>1, <1>2, OtherSettlesNot
  <1> QED
    BY <1>1, <1>3 DEF OrderMoves, NothingCleaner, Clean, Inserted

(* The rider and the desk leave them alone, too.                           *)
LEMMA DeskLeaves ==
  ASSUME StateInv, Shipping \/ Desk
  PROVE  OrderMoves /\ NobodySettles /\ NothingCleaner
  <1>1. PICK o \in Orders, w \in OrderType :
          /\ order' = [order EXCEPT ![o] = w]
          /\ w.debited = order[o].debited
          /\ w.status \in {order[o].status, "OUT_FOR_DELIVERY", "DELIVERED", "CANCELLED"}
          /\ UNCHANGED <<row, rzp, stockVars, walletVars, task>>
    BY DeskWrites
  <1>2. OrderMoves
    BY <1>1 DEF StateInv, TypeOK, OrderMoves
  <1> QED
    BY <1>1, <1>2 DEF NobodySettles, NothingCleaner, Clean, Inserted, walletVars

(* Only FinalizeConfirm, ClaimWalletDebit and SettleWallet do more.        *)
LEMMA OtherStepsLeave ==
  ASSUME StateInv, NEW t \in Tasks, Step(t) \/ Crash(t),
         ~FinalizeConfirm(t), ~ClaimWalletDebit(t), ~SettleWallet(t)
  PROVE  OrderMoves /\ NobodySettles /\ NothingCleaner
  <1> DEFINE j == task[t]
  <1>0. j \in JobType /\ JobOK(j) /\ order \in [Orders -> OrderType] /\ row \in [Pays -> RowType]
    BY DEF StateInv, TypeOK
  (* Which job comes next.                                                 *)
  <1>1. NobodySettles
    <2>1. debits' = debits
      BY DEF Step, InsertPaymentRow, ReconcileCaptured, ReconcileNothing, FinalizeRefused,
             FinalizeMovedOn, FailRow, FailOrder, CancelExpiredOrder, CommitCancel, AdminWrite,
             RestoreStock, PickRefund, CreditWallet, RefundCheck, RefundCall, RefundRow,
             MarkOrderRefunded, Crash, walletVars
    <2>2. \/ GoTo(t, Idle)
          \/ \E at \in Steps \ {"settle"} : GoTo(t, [j EXCEPT !.at = at])
          \/ \E at \in Steps \ {"settle"} : GoTo(t, [j EXCEPT !.at = at, !.seen = "none"])
          \/ \E at \in Steps \ {"settle"}, p \in Pays \cup {NoPay} :
               GoTo(t, [j EXCEPT !.at = at, !.pay = p])
          \/ \E o \in Orders : GoTo(t, Job("adminWrite", o, NoPay, "none", "REFUNDED"))
          \/ \E at \in Steps \ {"settle"} : GoTo(t, After(j, at))
      <3>1. {"finalize", "expire", "failRow", "failOrder", "restore", "pickRefund", "credit",
             "refundCheck", "refundCall", "refundRow", "refundOrder"} \subseteq Steps \ {"settle"}
        BY DEF Steps
      <3>2. CASE \/ InsertPaymentRow(t) \/ FinalizeRefused(t) \/ FinalizeMovedOn(t)
                 \/ FailOrder(t) \/ CancelExpiredOrder(t) \/ CommitCancel(t) \/ Crash(t)
        BY <3>2 DEF InsertPaymentRow, FinalizeRefused, FinalizeMovedOn, FailOrder,
                    CancelExpiredOrder, CommitCancel, Crash, Done
      <3>3. CASE ReconcileCaptured(t) \/ ReconcileNothing(t) \/ AdminWrite(t)
        BY <3>1, <3>3 DEF ReconcileCaptured, ReconcileNothing, AdminWrite, Done
      <3>4. CASE FailRow(t) \/ RestoreStock(t) \/ RefundCheck(t) \/ RefundCall(t) \/ RefundRow(t)
        BY <3>1, <3>4 DEF FailRow, RestoreStock, RefundCheck, RefundCall, RefundRow, Done
      <3>5. CASE PickRefund(t)
        <4>1. j.ord \in Orders
          BY <1>0, <3>5 DEF PickRefund, At, JobOK, OrderSteps
        <4>2. order[j.ord].latest \in Pays \cup {NoPay}
          BY <1>0, <4>1 DEF OrderType
        <4> QED
          BY <3>1, <3>5, <4>2 DEF PickRefund, Done
      <3>6. CASE CreditWallet(t)
        <4>1. j.ord \in Orders
          BY <1>0, <3>6 DEF CreditWallet, At, JobOK, OrderSteps
        <4> QED
          BY <3>6, <4>1 DEF CreditWallet, Done
      <3>7. CASE MarkOrderRefunded(t)
        <4>1. row[j.pay].ord \in Orders
          BY <1>0, <3>7 DEF MarkOrderRefunded, At, JobOK, PaySteps, Inserted, RowType
        <4> QED
          BY <3>7, <4>1 DEF MarkOrderRefunded, Done
      <3> QED
        BY <3>2, <3>3, <3>4, <3>5, <3>6, <3>7 DEF Step
    <2>3. ASSUME NEW at \in Steps \ {"settle"}, NEW p \in Pays \cup {NoPay}
          PROVE  /\ [j EXCEPT !.at = at].at # "settle"
                 /\ [j EXCEPT !.at = at, !.seen = "none"].at # "settle"
                 /\ [j EXCEPT !.at = at, !.pay = p].at # "settle"
      BY <1>0 DEF JobType
    <2>4. Idle.at # "settle"
      BY DEF Idle, Job
    <2>5. /\ \A o \in Orders : Job("adminWrite", o, NoPay, "none", "REFUNDED").at # "settle"
          /\ \A at \in Steps \ {"settle"} : After(j, at).at # "settle"
      BY DEF Job, After
    <2>6. \E job : GoTo(t, job) /\ job.at # "settle"
      BY <2>2, <2>3, <2>4, <2>5
    <2> QED
      BY <2>1, <2>6, OtherSettlesNot
  (* Which orders are written.                                             *)
  <1>2. OrderMoves
    <2>1. CASE UNCHANGED order
      BY <2>1 DEF OrderMoves
    <2>2. CASE InsertPaymentRow(t)
      BY <1>0, <2>2 DEF InsertPaymentRow, OrderMoves, OrderType
    <2>3. CASE FailOrder(t)
      BY <1>0, <2>3 DEF FailOrder, OrderMoves, OrderType
    <2>4. CASE CancelExpiredOrder(t)
      <3>1. \/ UNCHANGED order
            \/ order' = [order EXCEPT ![row[j.pay].ord].status = "CANCELLED",
                                      ![row[j.pay].ord].payStatus = "EXPIRED"]
        BY <2>4 DEF CancelExpiredOrder
      <3> QED
        BY <1>0, <2>1, <3>1 DEF OrderMoves, OrderType
    <2>5. CASE CommitCancel(t)
      BY <1>0, <2>5 DEF CommitCancel, OrderMoves, OrderType
    <2>6. CASE AdminWrite(t)
      <3>1. j.seen \notin {"NONE", "ORDER_PLACED"}
        BY <1>0, <2>6 DEF AdminWrite, At, JobOK, AdminTargets, AdminTransitions
      <3>2. \E r : order' = [order EXCEPT ![j.ord].status = j.seen, ![j.ord].rider = r]
        BY <2>6 DEF AdminWrite
      <3> QED
        BY <1>0, <3>1, <3>2 DEF OrderMoves, OrderType
    <2>7. CASE MarkOrderRefunded(t)
      BY <1>0, <2>7 DEF MarkOrderRefunded, OrderMoves, OrderType
    <2> QED
      BY <2>1, <2>2, <2>3, <2>4, <2>5, <2>6, <2>7
      DEF Step, Crash, ReconcileCaptured, ReconcileNothing, FinalizeRefused, FinalizeMovedOn,
          FailRow, RestoreStock, PickRefund, CreditWallet, RefundCheck, RefundCall, RefundRow
  (* Which payments are written.                                           *)
  <1>3. NothingCleaner
    <2>1. CASE UNCHANGED row
      BY <2>1 DEF NothingCleaner, Clean, Inserted
    <2>2. ASSUME NEW ps \in {"FAILED", "EXPIRED", "REFUNDED"},
                 row' = [row EXCEPT ![j.pay].status = ps]
          PROVE  NothingCleaner
      BY <1>0, <2>2 DEF NothingCleaner, Clean, Inserted, RowType
    <2>3. CASE InsertPaymentRow(t)
      BY <1>0, <2>3 DEF InsertPaymentRow, NothingCleaner, Clean, Inserted
    <2>4. CASE FinalizeMovedOn(t)
      BY <1>0, <2>4 DEF FinalizeMovedOn, NothingCleaner, Clean, Inserted, RowType
    <2>5. CASE FailRow(t) \/ CancelExpiredOrder(t) \/ RefundRow(t)
      BY <2>2, <2>5 DEF FailRow, CancelExpiredOrder, RefundRow
    <2> QED
      BY <2>1, <2>3, <2>4, <2>5
      DEF Step, Crash, ReconcileCaptured, ReconcileNothing, FinalizeRefused, FailOrder,
          CommitCancel, AdminWrite, RestoreStock, PickRefund, CreditWallet, RefundCheck,
          RefundCall, MarkOrderRefunded
  <1> QED
    BY <1>1, <1>2, <1>3

-----------------------------------------------------------------------------
(* The wallet slice.                                                       *)

(* A step that settles nothing keeps WalletInv.                            *)
LEMMA WalletFrame ==
  ASSUME StateInv, WalletInv, OrderMoves, NobodySettles
  PROVE  WalletInv'
  <1>1. UnplacedOK'
    BY DEF WalletInv, UnplacedOK, OrderMoves, NobodySettles, Placed
  <1>2. \A t \in Tasks : task'[t].at = "settle" => task[t].at = "settle" /\ task'[t] = task[t]
    BY DEF NobodySettles
  <1>3. \A t \in Tasks : task[t].at = "settle" => task[t].ord \in Orders
    BY DEF StateInv, JobOK, OrderSteps
  <1> QED
    BY <1>1, <1>2, <1>3 DEF WalletInv, OrderMoves, NobodySettles, At

(* Checkout writes an order that had neither claim nor debit.              *)
LEMMA CheckoutWallet ==
  ASSUME StateInv, WalletInv, NEW o \in Orders, PlaceOrder(o) \/ PlaceCoveredOrder(o)
  PROVE  WalletInv'
  <1>1. ~Placed(o) /\ ~order[o].debited /\ debits[o] = 0
    BY DEF PlaceOrder, PlaceCoveredOrder, WalletInv, UnplacedOK
  <1>2. \A t \in Tasks : At(t, "settle") => task[t].ord \in Orders \ {o}
    BY <1>1 DEF StateInv, JobOK, OrderSteps, At
  <1>3. /\ \A q \in Orders : q # o => order'[q] = order[q] /\ debits'[q] = debits[q]
        /\ order'[o].status = "ORDER_PLACED"
        /\ \/ ~order'[o].debited /\ debits'[o] = 0
           \/ order'[o].debited /\ debits'[o] = 1
    <2>1. CASE PlaceOrder(o)
      BY <1>1, <2>1 DEF PlaceOrder, StateInv, TypeOK, OrderType, walletVars
    <2>2. CASE PlaceCoveredOrder(o)
      <3>1. order'[o].debited /\ order'[o].status = "ORDER_PLACED"
        BY <2>2 DEF PlaceCoveredOrder, StateInv, TypeOK, OrderType
      <3> QED
        BY <1>1, <2>2, <3>1 DEF PlaceCoveredOrder, StateInv, TypeOK
    <2> QED
      BY <2>1, <2>2
  <1>4. UNCHANGED task
    BY DEF PlaceOrder, PlaceCoveredOrder
  <1>5. UnplacedOK'
    BY <1>3 DEF WalletInv, UnplacedOK, Placed
  <1> QED
    BY <1>2, <1>3, <1>4, <1>5 DEF WalletInv, At

(* The claim succeeds once: nobody else is about to debit that order.      *)
LEMMA ClaimWallet ==
  ASSUME StateInv, WalletInv, NEW t \in Tasks, ClaimWalletDebit(t)
  PROVE  WalletInv'
  <1>0. PICK o \in Orders : o = task[t].ord /\ Placed(o)
    BY DEF StateInv, ClaimWalletDebit, At, JobOK, OrderSteps
  <1>1. CASE ~order[o].debited /\ Share[o] > 0
    <2>1. order' = [order EXCEPT ![o].debited = TRUE] /\ UNCHANGED debits
      BY <1>0, <1>1 DEF ClaimWalletDebit, walletVars
    <2>2. /\ \A q \in Orders : q # o => order'[q] = order[q]
          /\ order'[o].debited /\ order'[o].status = order[o].status
      BY <2>1 DEF StateInv, TypeOK, OrderType
    <2>3. task'[t].ord = o /\ \A u \in Tasks : u # t => task'[u] = task[u]
      <3>1. task' = [task EXCEPT ![t] = [task[t] EXCEPT !.at = "settle"]]
        BY <1>0, <1>1 DEF ClaimWalletDebit, GoTo
      <3> QED
        BY <1>0, <3>1 DEF StateInv, TypeOK, JobType
    <2>4. \A u \in Tasks : At(u, "settle") => task[u].ord \in Orders \ {o}
      BY <1>1 DEF StateInv, JobOK, OrderSteps, At, WalletInv
    <2>5. debits[o] = 0
      BY <1>1 DEF WalletInv
    <2>6. UnplacedOK'
      BY <1>0, <2>1, <2>2 DEF WalletInv, UnplacedOK, Placed
    <2> QED
      BY <2>1, <2>2, <2>3, <2>4, <2>5, <2>6 DEF WalletInv, At
  <1>2. CASE ~(~order[o].debited /\ Share[o] > 0)
    <2>1. UNCHANGED <<order, debits>> /\ GoTo(t, Idle)
      BY <1>0, <1>2 DEF ClaimWalletDebit, Done, walletVars
    <2>2. NobodySettles
      BY <2>1, OtherSettlesNot DEF Idle, Job
    <2> QED
      BY <2>1, <2>2, WalletFrame DEF OrderMoves
  <1> QED
    BY <1>1, <1>2

(* The debit ends the only settling task of its order.                     *)
LEMMA DebitWallet ==
  ASSUME StateInv, WalletInv, NEW t \in Tasks, SettleWallet(t)
  PROVE  WalletInv'
  <1>0. PICK o \in Orders : o = task[t].ord /\ order[o].debited /\ debits[o] = 0
    BY DEF StateInv, SettleWallet, At, JobOK, OrderSteps, WalletInv
  <1>1. UNCHANGED order /\ GoTo(t, Idle)
    BY DEF SettleWallet, Done
  <1>2. \A q \in Orders : debits'[q] = debits[q] \/ (q = o /\ debits'[q] = 1)
    BY <1>0 DEF SettleWallet, StateInv, TypeOK
  <1>3. task'[t].at # "settle" /\ \A u \in Tasks : u # t => task'[u] = task[u]
    BY <1>1 DEF GoTo, Idle, Job, StateInv, TypeOK
  <1>4. \A u \in Tasks : At(u, "settle")' =>
           At(u, "settle") /\ task'[u] = task[u] /\ task[u].ord \in Orders \ {o}
    <2> SUFFICES ASSUME NEW u \in Tasks, At(u, "settle")'
                 PROVE  At(u, "settle") /\ task'[u] = task[u] /\ task[u].ord \in Orders \ {o}
      OBVIOUS
    <2>1. u # t /\ task'[u] = task[u] /\ At(u, "settle")
      BY <1>3 DEF At
    <2>2. task[u].ord # o
      BY <1>0, <2>1 DEF WalletInv, SettleWallet
    <2> QED
      BY <2>1, <2>2 DEF StateInv, JobOK, OrderSteps, At
  <1>5. UnplacedOK'
    BY <1>0, <1>1, <1>2 DEF WalletInv, UnplacedOK, Placed
  <1> QED
    BY <1>0, <1>1, <1>2, <1>4, <1>5 DEF WalletInv, At

(* Confirming an order claims nothing yet.                                 *)
LEMMA ConfirmSettlesNot ==
  ASSUME StateInv, NEW t \in Tasks, FinalizeConfirm(t)
  PROVE  OrderMoves /\ NobodySettles
  <1>1. PICK o \in Orders : o = row[task[t].pay].ord
    BY DEF StateInv, TypeOK, RowType, FinalizeConfirm, At, JobOK, PaySteps, Inserted
  <1>2. OrderMoves
    BY <1>1 DEF FinalizeConfirm, StateInv, TypeOK, OrderType, OrderMoves
  <1>3. GoTo(t, Job("claim", o, NoPay, "none", "none")) /\ debits' = debits
    BY <1>1 DEF FinalizeConfirm, walletVars
  <1>4. Job("claim", o, NoPay, "none", "none").at # "settle"
    BY DEF Job
  <1> QED
    BY <1>2, <1>3, <1>4, OtherSettlesNot

(* However many finalizers, webhooks and sweeps race and wherever they     *)
(* crash, the wallet slice of an order is debited at most once.            *)
THEOREM WalletTakenOnceHolds == Spec => []WalletTakenOnce
  <1>1. Init => WalletInv
    <2> SUFFICES ASSUME Init PROVE WalletInv
      OBVIOUS
    <2>1. UnplacedOK
      BY DEF Init, UnplacedOK, NoOrderRow
    <2>2. \A t \in Tasks : ~At(t, "settle")
      BY DEF Init, At, Idle, Job
    <2> QED
      BY <2>1, <2>2 DEF Init, WalletInv
  <1>2. StateInv /\ WalletInv /\ [Next]_vars => WalletInv'
    <2> SUFFICES ASSUME StateInv, WalletInv, [Next]_vars PROVE WalletInv'
      OBVIOUS
    <2>1. CASE Checkout
      BY <2>1, CheckoutWallet DEF Checkout
    <2>2. CASE Gateway
      BY <2>2, WalletFrame
      DEF Gateway, Authorize, Capture, Lapse, Decline, Razorpay, OrderMoves, NobodySettles, walletVars
    <2>3. ASSUME NEW t \in Tasks, PaymentRequest(t) \/ OrderRequest(t) PROVE WalletInv'
      BY <2>3, RequestsLeave, WalletFrame
    <2>4. ASSUME NEW t \in Tasks, Step(t) \/ Crash(t) PROVE WalletInv'
      BY <2>4, OtherStepsLeave, ConfirmSettlesNot, ClaimWallet, DebitWallet, WalletFrame
    <2>5. CASE UNCHANGED vars
      BY <2>5, WalletFrame DEF vars, OrderMoves, NobodySettles
    <2>6. CASE Shipping \/ Desk
      BY <2>6, DeskLeaves, WalletFrame
    <2> QED
      BY <2>1, <2>2, <2>3, <2>4, <2>5, <2>6 DEF Next
  <1>3. WalletInv => WalletTakenOnce
    BY DEF WalletInv, WalletTakenOnce
  <1> QED
    BY <1>1, <1>2, <1>3, StateInvHolds, PTL DEF Spec

-----------------------------------------------------------------------------
(* The double charge.                                                      *)

(* A step that makes no payment clean keeps ChargeInv.                     *)
LEMMA ChargeFrame ==
  ASSUME StateInv, ChargeInv, OrderMoves, NothingCleaner
  PROVE  ChargeInv'
  <1>1. \A p \in Pays : Clean(p) => row[p].ord \in Orders
    BY DEF StateInv, TypeOK, RowType, Clean, Inserted
  <1>2. \A p \in Pays : Clean(p)' => order'[row'[p].ord].status \notin {"NONE", "ORDER_PLACED"}
    BY <1>1 DEF ChargeInv, OrderMoves, NothingCleaner
  <1>3. NoSilentDoubleCharge'
    BY DEF ChargeInv, NoSilentDoubleCharge, NothingCleaner
  <1> QED
    BY <1>2, <1>3 DEF ChargeInv

(* A new order has no clean payment.                                       *)
LEMMA CheckoutCharge ==
  ASSUME StateInv, ChargeInv, NEW o \in Orders, PlaceOrder(o) \/ PlaceCoveredOrder(o)
  PROVE  ChargeInv'
  <1>1. ~Placed(o) /\ UNCHANGED row /\ \A q \in Orders : q # o => order'[q] = order[q]
    BY DEF PlaceOrder, PlaceCoveredOrder, StateInv, TypeOK
  <1>2. \A p \in Pays : Clean(p) => row[p].ord \in Orders \ {o}
    BY <1>1 DEF StateInv, TypeOK, RowType, Clean, Inserted, ChargeInv, Placed
  <1> QED
    BY <1>1, <1>2 DEF ChargeInv, NoSilentDoubleCharge, Clean, Inserted

(* Confirming needs an order no clean payment has moved on.                *)
LEMMA ConfirmCharge ==
  ASSUME StateInv, ChargeInv, NEW t \in Tasks, FinalizeConfirm(t)
  PROVE  ChargeInv'
  <1>1. PICK p \in Pays, o \in Orders : p = task[t].pay /\ Inserted(p) /\ o = row[p].ord
    BY DEF StateInv, TypeOK, RowType, FinalizeConfirm, At, JobOK, PaySteps, Inserted
  <1>2. order[o].status = "ORDER_PLACED"
    BY <1>1 DEF FinalizeConfirm, Confirmable
  <1>3. \A q \in Pays : Clean(q) => row[q].ord # o
    BY <1>2 DEF ChargeInv
  <1>4. /\ order'[o].status = "CONFIRMED"
        /\ \A q \in Orders : q # o => order'[q] = order[q]
    BY <1>1 DEF FinalizeConfirm, StateInv, TypeOK, OrderType
  <1>5. /\ \A q \in Pays : row'[q].ord = row[q].ord
        /\ \A q \in Pays : q # p => row'[q] = row[q]
    BY <1>1 DEF FinalizeConfirm, StateInv, TypeOK, RowType
  <1>6. \A q \in Pays : Clean(q)' => q = p \/ Clean(q)
    BY <1>5 DEF Clean, Inserted
  <1>7. \A q \in Pays : Clean(q)' => order'[row'[q].ord].status \notin {"NONE", "ORDER_PLACED"}
    <2> SUFFICES ASSUME NEW q \in Pays, Clean(q)'
                 PROVE  order'[row'[q].ord].status \notin {"NONE", "ORDER_PLACED"}
      OBVIOUS
    <2>1. CASE q = p
      BY <1>1, <1>4, <1>5, <2>1
    <2>2. CASE q # p
      <3>1. Clean(q) /\ row[q].ord \in Orders \ {o}
        BY <1>3, <1>6, <2>2 DEF StateInv, TypeOK, RowType, Clean, Inserted
      <3> QED
        BY <1>4, <1>5, <3>1 DEF ChargeInv
    <2> QED
      BY <2>1, <2>2
  <1>8. NoSilentDoubleCharge'
    BY <1>1, <1>3, <1>5, <1>6 DEF ChargeInv, NoSilentDoubleCharge
  <1> QED
    BY <1>7, <1>8 DEF ChargeInv

(* Two captured payments of one order are never both unflagged: the second *)
(* one always waits for a human.                                           *)
THEOREM NoSilentDoubleChargeHolds == Spec => []NoSilentDoubleCharge
  <1>1. Init => ChargeInv
    BY DEF Init, ChargeInv, NoSilentDoubleCharge, Clean, Inserted, NoPayRow
  <1>2. StateInv /\ ChargeInv /\ [Next]_vars => ChargeInv'
    <2> SUFFICES ASSUME StateInv, ChargeInv, [Next]_vars PROVE ChargeInv'
      OBVIOUS
    <2>1. CASE Checkout
      BY <2>1, CheckoutCharge DEF Checkout
    <2>2. CASE Gateway
      BY <2>2, ChargeFrame
      DEF Gateway, Authorize, Capture, Lapse, Decline, Razorpay, OrderMoves, NothingCleaner,
          Clean, Inserted
    <2>3. ASSUME NEW t \in Tasks, PaymentRequest(t) \/ OrderRequest(t) PROVE ChargeInv'
      BY <2>3, RequestsLeave, ChargeFrame
    <2>4. ASSUME NEW t \in Tasks, ClaimWalletDebit(t) \/ SettleWallet(t) PROVE ChargeInv'
      <3>1. UNCHANGED row /\ \A o \in Orders : order'[o].status = order[o].status
        BY <2>4 DEF ClaimWalletDebit, SettleWallet, StateInv, TypeOK, OrderType
      <3>2. \A p \in Pays : Clean(p) => row[p].ord \in Orders
        BY DEF StateInv, TypeOK, RowType, Clean, Inserted
      <3> QED
        BY <3>1, <3>2 DEF ChargeInv, NoSilentDoubleCharge, Clean, Inserted
    <2>5. ASSUME NEW t \in Tasks, Step(t) \/ Crash(t) PROVE ChargeInv'
      BY <2>4, <2>5, OtherStepsLeave, ConfirmCharge, ChargeFrame
    <2>6. CASE UNCHANGED vars
      BY <2>6, ChargeFrame DEF vars, OrderMoves, NothingCleaner, Clean, Inserted
    <2>7. CASE Shipping \/ Desk
      BY <2>7, DeskLeaves, ChargeFrame
    <2> QED
      BY <2>1, <2>2, <2>3, <2>5, <2>6, <2>7 DEF Next
  <1>3. ChargeInv => NoSilentDoubleCharge
    BY DEF ChargeInv
  <1> QED
    BY <1>1, <1>2, <1>3, StateInvHolds, PTL DEF Spec
=============================================================================

------------------------ MODULE OrderReportsProofs ------------------------
(***************************************************************************)
(* What OrderPayments records rests on what Razorpay said, for any number  *)
(* of orders, payments and tasks: an order with money outstanding is PAID  *)
(* only after a report of Razorpay for it, on entries of the desk that add *)
(* up, or by its delivery; its wallet slice is taken only after a report,  *)
(* and a refund is recorded only after it happened.  ReportInv carries the *)
(* evidence from the moment a task saw it to the moment it writes.  Last,  *)
(* when cancelling orphans no captured payment: OrphanInv says what a task *)
(* between two transactions still may rely on.                             *)
(***************************************************************************)
EXTENDS OrderPaymentsProofs

(* What a task knows of Razorpay at its next step.                         *)
JobReports(j) ==
  /\ j.at = "insertRow" => rzp[j.pay].state = "open" /\ ~Inserted(j.pay)
  /\ j.at = "finalize" => Reported(j.pay)
  /\ j.at \in {"claim", "settle"} /\ Due[j.ord] > 0 => HasReport(j.ord)
  /\ j.at = "refundRow" => rzp[j.pay].refunded

(* A payments row is inserted by one task.                                 *)
OneInserts ==
  \A t, u \in Tasks :
    At(t, "insertRow") /\ At(u, "insertRow") /\ task[t].pay = task[u].pay => t = u

(* Nor before Razorpay opened its order.                                   *)
OpenedFirst == \A p \in Pays : Inserted(p) => rzp[p].state # "none"

(* The desk takes no more than is outstanding, so an entry taken back      *)
(* leaves less than that.                                                  *)
SettledNoMore ==
  \A o \in Orders : order[o].received > 0 => order[o].received + Share[o] <= Due[o]

ReportInv ==
  /\ \A t \in Tasks : JobReports(task[t])
  /\ OneInserts /\ OpenedFirst /\ SettledNoMore
  /\ PaidOrderWasPaid /\ WalletTakenAfterReport /\ RecordedRefundHappened

(* Evidence lasts: what Razorpay reported or refunded stays so, a payments *)
(* row keeps its order, and nothing happens at Razorpay without the row.   *)
Lasts ==
  \A p \in Pays :
    /\ Reported(p) => Reported(p)'
    /\ rzp[p].refunded => rzp'[p].refunded
    /\ Inserted(p) => row'[p].ord = row[p].ord
    /\ rzp[p].state = "open" /\ ~Inserted(p) => rzp'[p].state = "open"
    /\ rzp'[p].state = "none" => rzp[p].state = "none" /\ row'[p].ord = row[p].ord

(* The other tasks about to insert a row still find none.                  *)
OthersInsert(t, job) ==
  \A u \in Tasks : u # t /\ At(u, "insertRow") =>
    /\ row'[task[u].pay].ord = NoOrder
    /\ job.at = "insertRow" => job.pay # task[u].pay

(* What the desk and the riders left on the orders stays.                  *)
SameHands ==
  \A o \in Orders : order'[o].received = order[o].received /\ order'[o].handed = order[o].handed

(* Nothing new is recorded without its evidence.                           *)
NoNewRecord ==
  /\ \A o \in Orders :
       order'[o].received > 0 =>
         order'[o].received <= order[o].received \/ order'[o].received + Share[o] <= Due[o]
  /\ \A o \in Orders : order'[o].payStatus = "PAID" /\ Due[o] > 0 =>
       \/ /\ order[o].payStatus = "PAID" /\ order'[o].received = order[o].received
          /\ order[o].handed => order'[o].handed
       \/ HasReport(o)' \/ SettledInFull(o)' \/ order'[o].handed
  /\ \A o \in Orders : debits'[o] > 0 /\ Due[o] > 0 => debits[o] > 0 \/ HasReport(o)'
  /\ \A p \in Pays : row'[p].status = "REFUNDED" => row[p].status = "REFUNDED" \/ rzp'[p].refunded

(* A report outlives the step.                                             *)
LEMMA ReportLasts ==
  ASSUME StateInv, Lasts, NEW o \in Orders, HasReport(o)
  PROVE  HasReport(o)'
<1>1. PICK p \in Pays : row[p].ord = o /\ Reported(p) BY DEF HasReport
<1>2. row'[p].ord = o /\ Reported(p)' BY <1>1 DEF Lasts, StateInv, LinksOK
<1>. QED BY <1>2 DEF HasReport

(* The records of a step that adds none.                                   *)
LEMMA RecordsLast ==
  ASSUME StateInv, ReportInv, Lasts, NoNewRecord, order' \in [Orders -> OrderType]
  PROVE  (/\ SettledNoMore /\ PaidOrderWasPaid
          /\ WalletTakenAfterReport /\ RecordedRefundHappened)'
<1>0. SettledNoMore'
  <2>. SUFFICES ASSUME NEW o \in Orders, order'[o].received > 0
                PROVE  order'[o].received + Share[o] <= Due[o]
    BY DEF SettledNoMore
  <2>1. /\ order[o].received \in Nat /\ order'[o].received \in Nat
        /\ Share[o] \in Nat /\ Due[o] \in Nat
    BY ConstantsAssumption DEF StateInv, TypeOK, OrderType
  <2>2. CASE order'[o].received <= order[o].received
    <3>1. order[o].received + Share[o] <= Due[o] BY <2>1, <2>2 DEF ReportInv, SettledNoMore
    <3>. QED BY <2>1, <2>2, <3>1
  <2>. QED BY <2>2 DEF NoNewRecord
<1>1. PaidOrderWasPaid'
  <2>. SUFFICES ASSUME NEW o \in Orders, order'[o].payStatus = "PAID", Due[o] > 0
                PROVE  HasReport(o)' \/ SettledInFull(o)' \/ order'[o].handed
    BY DEF PaidOrderWasPaid, HasReport, SettledInFull, Reported
  <2>1. CASE /\ order[o].payStatus = "PAID" /\ order'[o].received = order[o].received
             /\ order[o].handed => order'[o].handed
    <3>1. HasReport(o) \/ SettledInFull(o) \/ order[o].handed
      BY <2>1 DEF ReportInv, PaidOrderWasPaid
    <3>. QED BY <2>1, <3>1, ReportLasts DEF SettledInFull
  <2>. QED BY <2>1 DEF NoNewRecord
<1>2. WalletTakenAfterReport'
  BY ReportLasts DEF ReportInv, NoNewRecord, WalletTakenAfterReport
<1>3. RecordedRefundHappened'
  BY DEF ReportInv, NoNewRecord, RecordedRefundHappened, Lasts
<1>. QED BY <1>0, <1>1, <1>2, <1>3

(* What another task knows stays true.                                     *)
LEMMA KnowledgeLasts ==
  ASSUME StateInv, ReportInv, Lasts, NEW u \in Tasks, task'[u] = task[u],
         At(u, "insertRow") => row'[task[u].pay].ord = NoOrder
  PROVE  JobReports(task[u])'
<1>1. JobOK(task[u]) /\ JobReports(task[u]) BY DEF StateInv, ReportInv
<1>2. task[u].at = "insertRow" =>
         task[u].pay \in Pays /\ rzp'[task[u].pay].state = "open"
         /\ row'[task[u].pay].ord = NoOrder
  BY <1>1 DEF JobOK, JobReports, Lasts, At
<1>3. task[u].at = "finalize" => Reported(task[u].pay)'
  BY <1>1 DEF JobOK, JobReports, Lasts, PaySteps
<1>4. task[u].at \in {"claim", "settle"} /\ Due[task[u].ord] > 0 => HasReport(task[u].ord)'
  BY <1>1, ReportLasts DEF JobOK, JobReports, OrderSteps
<1>5. task[u].at = "refundRow" => rzp'[task[u].pay].refunded
  BY <1>1 DEF JobOK, JobReports, Lasts, PaySteps
<1>. QED BY <1>2, <1>3, <1>4, <1>5 DEF JobReports, Inserted, Reported, HasReport

(* A step of one task that records nothing new.                            *)
LEMMA ReportFrame ==
  ASSUME StateInv, StateInv', ReportInv, Lasts, NoNewRecord,
         NEW t \in Tasks, NEW job, GoTo(t, job), JobReports(job)',
         OthersInsert(t, job)
  PROVE  ReportInv'
<1>1. task'[t] = job /\ \A u \in Tasks : u # t => task'[u] = task[u]
  BY DEF GoTo, StateInv, TypeOK
<1>2. \A u \in Tasks : JobReports(task[u])'
  <2>. TAKE u \in Tasks
  <2>1. CASE u = t BY <1>1, <2>1 DEF JobReports, Inserted, Reported, HasReport
  <2>2. CASE u # t BY <1>1, <2>2, KnowledgeLasts DEF OthersInsert
  <2>. QED BY <2>1, <2>2
<1>3. OneInserts' BY <1>1 DEF OneInserts, ReportInv, OthersInsert, At
<1>4. OpenedFirst' BY DEF ReportInv, OpenedFirst, Lasts, Inserted
<1>5. order' \in [Orders -> OrderType] BY DEF StateInv, TypeOK
<1>. QED BY <1>2, <1>3, <1>4, <1>5, RecordsLast DEF ReportInv

(* A step that inserts no payments row.                                    *)
LEMMA WriteReports ==
  ASSUME StateInv, StateInv', ReportInv, Lasts, NoNewRecord,
         NEW t \in Tasks, NEW job, GoTo(t, job), JobReports(job)', job.at # "insertRow",
         \A p \in Pays : row'[p].ord = row[p].ord
  PROVE  ReportInv'
<1>1. \A u \in Tasks : At(u, "insertRow") => task[u].pay \in Pays /\ ~Inserted(task[u].pay)
  BY DEF StateInv, ReportInv, JobOK, JobReports, At
<1>2. OthersInsert(t, job) BY <1>1 DEF OthersInsert, Inserted
<1>. QED BY <1>2, ReportFrame

(* No order becomes PAID, and nothing is refunded or debited.              *)
LEMMA SameHandsRecord ==
  ASSUME StateInv, SameHands, UNCHANGED debits,
         \A p \in Pays : row'[p].status = "REFUNDED" => row[p].status = "REFUNDED" \/ rzp'[p].refunded,
         \A o \in Orders : order'[o].payStatus = "PAID" /\ Due[o] > 0 =>
           order[o].payStatus = "PAID" \/ HasReport(o)'
  PROVE  NoNewRecord
<1>1. \A o \in Orders : order[o].received \in Nat BY DEF StateInv, TypeOK, OrderType
<1>. QED BY <1>1 DEF NoNewRecord, SameHands

(* A step that writes no row the reports depend on.                        *)
LEMMA StillReports ==
  ASSUME StateInv, StateInv', ReportInv, UNCHANGED <<order, row, rzp, debits>>,
         NEW t \in Tasks, NEW job, GoTo(t, job), JobReports(job), job.at # "insertRow"
  PROVE  ReportInv'
<1>1. Lasts /\ NoNewRecord
  BY SameHandsRecord DEF Lasts, NoNewRecord, SameHands, Reported
<1>2. JobReports(job)' BY DEF JobReports, Inserted, Reported, HasReport
<1>. QED BY <1>1, <1>2, WriteReports

-----------------------------------------------------------------------------
(* Requests.                                                               *)

(* A job that is not about to write evidence needs none.                   *)
Needless(job) == job.at \notin {"insertRow", "finalize", "claim", "settle", "refundRow"}

(* Every request that opens no Razorpay order knows what it needs.         *)
LEMMA RequestReports ==
  ASSUME StateInv, StateInv', ReportInv, NEW t \in Tasks, PaymentRequest(t) \/ OrderRequest(t),
         ~ \E o \in Orders, p \in Pays : CreatePaymentOrder(t, o, p)
  PROVE  ReportInv'
<1>1. UNCHANGED <<order, row, rzp, debits>>
  BY DEF PaymentRequest, OrderRequest, AdminReconcile, VerifyPayment, VerifyMismatch,
         WebhookPaid, WebhookFailed, WebhookRefunded, ProcessExpired, RecoverFailed,
         RefundPayment, CancelOrder, UpdateStatus, AdminCancel, RefundOrder, Ask, ReportPaid,
         walletVars
<1>2. ASSUME NEW at, NEW o, NEW p, NEW src, NEW seen, NEW kind,
             Begin(t, kind, Job(at, o, p, src, seen)), at \notin {"insertRow", "claim", "settle"},
             at = "finalize" => Reported(p), at = "refundRow" => rzp[p].refunded
      PROVE  ReportInv'
  <2>. PICK job : job = Job(at, o, p, src, seen) OBVIOUS
  <2>1. job.at = at /\ job.pay = p BY DEF Job
  <2>2. JobReports(job) BY <1>2, <2>1 DEF JobReports
  <2>3. GoTo(t, job) BY <1>2 DEF Begin, GoTo
  <2>. QED BY <1>1, <1>2, <2>1, <2>2, <2>3, StillReports
<1>3. CASE PaymentRequest(t)
  <2>1. ASSUME NEW p, NEW kind, NEW src, Ask(t, kind, p, src) PROVE ReportInv'
    BY <1>2, <2>1 DEF Ask
  <2>2. ASSUME NEW p, NEW kind, ReportPaid(t, kind, p) PROVE ReportInv'
    BY <1>2, <2>2 DEF ReportPaid
  <2>3. CASE \E p \in Pays : WebhookFailed(t, p) BY <1>2, <2>3 DEF WebhookFailed
  <2>4. CASE \E p \in Pays : WebhookRefunded(t, p) BY <1>2, <2>4 DEF WebhookRefunded
  <2>5. CASE \E p \in Pays : RefundPayment(t, p) BY <1>2, <2>5 DEF RefundPayment
  <2>6. CASE \E o \in Orders : AdminReconcile(t, o) BY <2>1, <2>6 DEF AdminReconcile
  <2>7. CASE \E p \in Pays : VerifyPayment(t, p) \/ WebhookPaid(t, p)
    BY <2>2, <2>7 DEF VerifyPayment, WebhookPaid
  <2>8. CASE \E p \in Pays : VerifyMismatch(t, p) \/ ProcessExpired(t, p) \/ RecoverFailed(t, p)
    BY <2>1, <2>8 DEF VerifyMismatch, ProcessExpired, RecoverFailed
  <2>. QED BY <1>3, <2>3, <2>4, <2>5, <2>6, <2>7, <2>8 DEF PaymentRequest
<1>4. CASE OrderRequest(t)
  <2>1. PICK o \in Orders : \/ CancelOrder(t, o)
                            \/ \E to : UpdateStatus(t, o, to)
                            \/ \E src : AdminCancel(t, o, src) \/ RefundOrder(t, o, src)
    BY <1>4 DEF OrderRequest
  <2>2. CASE CancelOrder(t, o) BY <1>2, <2>2 DEF CancelOrder
  <2>3. CASE \E to : UpdateStatus(t, o, to) BY <1>2, <2>3 DEF UpdateStatus
  <2>4. CASE \E src : AdminCancel(t, o, src) BY <1>2, <2>4 DEF AdminCancel
  <2>5. CASE \E src : RefundOrder(t, o, src) BY <1>2, <2>5 DEF RefundOrder
  <2>. QED BY <2>1, <2>2, <2>3, <2>4, <2>5
<1>. QED BY <1>3, <1>4

(* A new Razorpay order: nobody else is inserting a row for it.            *)
LEMMA CreateReports ==
  ASSUME StateInv, StateInv', ReportInv, NEW t \in Tasks, NEW o \in Orders, NEW p \in Pays,
         CreatePaymentOrder(t, o, p)
  PROVE  ReportInv'
<1>. PICK job : job = Job("insertRow", o, p, "none", "none") OBVIOUS
<1>1. job.at = "insertRow" /\ job.pay = p BY DEF Job
<1>2. rzp[p].state = "none" /\ UNCHANGED <<order, row, debits>> /\ GoTo(t, job)
  BY DEF CreatePaymentOrder, Begin, GoTo, walletVars
<1>3. /\ rzp'[p].state = "open" /\ rzp'[p].refunded = rzp[p].refunded
      /\ \A q \in Pays : q # p => rzp'[q] = rzp[q]
  BY DEF CreatePaymentOrder, StateInv, TypeOK, RzpType
<1>4. Lasts BY <1>2, <1>3 DEF Lasts, Reported
<1>5. NoNewRecord BY <1>2, SameHandsRecord DEF SameHands
<1>6. \A u \in Tasks : At(u, "insertRow") =>
         task[u].pay \in Pays /\ ~Inserted(task[u].pay) /\ task[u].pay # p
  BY <1>2 DEF StateInv, ReportInv, JobOK, JobReports, At
<1>7. ~Inserted(p) BY <1>2 DEF ReportInv, OpenedFirst
<1>8. JobReports(job)' BY <1>1, <1>2, <1>3, <1>7 DEF JobReports, Inserted
<1>9. OthersInsert(t, job) BY <1>1, <1>2, <1>6 DEF OthersInsert, Inserted
<1>. QED BY <1>2, <1>4, <1>5, <1>8, <1>9, ReportFrame

-----------------------------------------------------------------------------
(* Steps of a task.                                                        *)

(* A write that makes nothing PAID, REFUNDED or debited, and goes on to a  *)
(* step that needs no evidence.                                            *)
LEMMA QuietWrite ==
  ASSUME StateInv, StateInv', ReportInv, NEW t \in Tasks, NEW job, GoTo(t, job), Needless(job),
         UNCHANGED <<rzp, debits>>,
         \A p \in Pays : /\ row'[p].ord = row[p].ord
                         /\ row'[p].status = "REFUNDED" => row[p].status = "REFUNDED",
         SameHands,
         \A o \in Orders : order'[o].payStatus = "PAID" => order[o].payStatus = "PAID"
  PROVE  ReportInv'
<1>1. Lasts BY DEF Lasts, Reported
<1>2. NoNewRecord BY SameHandsRecord
<1>3. JobReports(job)' BY DEF Needless, JobReports
<1>. QED BY <1>1, <1>2, <1>3, WriteReports DEF Needless

(* Jobs that go on to a step that needs no evidence.                       *)
LEMMA NeedlessJobs ==
  /\ Needless(Idle)
  /\ \A o : Needless(Job("adminWrite", o, NoPay, "none", "REFUNDED"))
BY DEF Needless, Idle, Job

(* The same, for a job changed in place.                                   *)
LEMMA NeedlessChange ==
  ASSUME NEW j \in JobType, NEW p \in Pays \cup {NoPay},
         NEW at \in {"expire", "failRow", "failOrder", "restore", "pickRefund", "credit",
                     "refundCheck", "refundCall", "refundOrder"}
  PROVE  /\ Needless([j EXCEPT !.at = at])
         /\ Needless([j EXCEPT !.at = at, !.seen = "none"])
         /\ Needless([j EXCEPT !.at = at, !.pay = p])
BY DEF Needless, JobType

(* The steps that bring no evidence and record none.                       *)
LEMMA QuietReports ==
  ASSUME StateInv, StateInv', ReportInv, NEW t \in Tasks,
         \/ ReconcileNothing(t) \/ FinalizeRefused(t) \/ FinalizeMovedOn(t)
         \/ FailRow(t) \/ FailOrder(t) \/ CancelExpiredOrder(t) \/ CommitCancel(t)
         \/ AdminWrite(t) \/ RestoreStock(t) \/ PickRefund(t) \/ CreditWallet(t)
         \/ RefundCheck(t) \/ MarkOrderRefunded(t) \/ Crash(t)
  PROVE  ReportInv'
<1>. DEFINE j == task[t]
<1>1. JobOK(j) /\ j \in JobType BY DEF StateInv, JobOK
<1>2. UNCHANGED <<rzp, debits>>
  BY DEF ReconcileNothing, FinalizeRefused, FinalizeMovedOn, FailRow, FailOrder,
         CancelExpiredOrder, CommitCancel, AdminWrite, RestoreStock, PickRefund, CreditWallet,
         RefundCheck, MarkOrderRefunded, Crash, walletVars
<1>3. \A p \in Pays : /\ row'[p].ord = row[p].ord
                      /\ row'[p].status = "REFUNDED" => row[p].status = "REFUNDED"
  <2>1. \/ UNCHANGED row
        \/ \E s \in {"FAILED", "EXPIRED"} : row' = [row EXCEPT ![j.pay].status = s]
        \/ row' = [row EXCEPT ![j.pay].status = "PAID", ![j.pay].review = TRUE]
    BY DEF ReconcileNothing, FinalizeRefused, FinalizeMovedOn, FailRow, FailOrder,
           CancelExpiredOrder, CommitCancel, AdminWrite, RestoreStock, PickRefund, CreditWallet,
           RefundCheck, MarkOrderRefunded, Crash
  <2>. QED BY <2>1 DEF StateInv, TypeOK, RowType
<1>4. SameHands /\ \A o \in Orders : order'[o].payStatus = "PAID" => order[o].payStatus = "PAID"
  <2>. DEFINE o == row[j.pay].ord
  <2>0. ASSUME NEW q, NEW s, NEW ps \in {"FAILED", "EXPIRED", "REFUNDED"},
               order' = [order EXCEPT ![q].status = s, ![q].payStatus = ps]
        PROVE  SameHands /\ \A r \in Orders : order'[r].payStatus = "PAID" => order[r].payStatus = "PAID"
    <3>. HIDE DEF o, j
    <3>1. order \in [Orders -> OrderType] BY DEF StateInv, TypeOK
    <3>2. \A r \in Orders : order'[r].received = order[r].received BY <2>0, <3>1 DEF OrderType
    <3>3. \A r \in Orders : order'[r].handed = order[r].handed BY <2>0, <3>1 DEF OrderType
    <3>4. \A r \in Orders : order'[r].payStatus \in {order[r].payStatus, ps}
      BY <2>0, <3>1 DEF OrderType
    <3>. QED BY <2>0, <3>2, <3>3, <3>4 DEF SameHands
  <2>1. CASE ReconcileNothing(t) \/ FinalizeRefused(t) \/ FinalizeMovedOn(t) \/ FailRow(t)
             \/ RestoreStock(t) \/ PickRefund(t) \/ CreditWallet(t) \/ RefundCheck(t)
             \/ Crash(t)
    BY <2>1 DEF ReconcileNothing, FinalizeRefused, FinalizeMovedOn, FailRow, RestoreStock,
                PickRefund, CreditWallet, RefundCheck, Crash, SameHands
  <2>2. CASE FailOrder(t)
    <3>1. order' = [order EXCEPT ![o].payStatus = "FAILED"] BY <2>2 DEF FailOrder
    <3>. QED BY <3>1 DEF StateInv, TypeOK, OrderType, SameHands
  <2>3. CASE AdminWrite(t)
    <3>1. PICK r : order' = [order EXCEPT ![j.ord].status = j.seen, ![j.ord].rider = r]
      BY <2>3 DEF AdminWrite
    <3>2. order \in [Orders -> OrderType] BY DEF StateInv, TypeOK
    <3>. HIDE DEF j
    <3>3. \A q \in Orders : order'[q].received = order[q].received BY <3>1, <3>2 DEF OrderType
    <3>4. \A q \in Orders : order'[q].handed = order[q].handed BY <3>1, <3>2 DEF OrderType
    <3>5. \A q \in Orders : order'[q].payStatus = order[q].payStatus BY <3>1, <3>2 DEF OrderType
    <3>. QED BY <3>3, <3>4, <3>5 DEF SameHands
  <2>4. CASE CancelExpiredOrder(t)
    <3>1. \/ UNCHANGED order
          \/ order' = [order EXCEPT ![o].status = "CANCELLED", ![o].payStatus = "EXPIRED"]
      BY <2>4 DEF CancelExpiredOrder
    <3>2. CASE UNCHANGED order BY <3>2 DEF SameHands
    <3>3. CASE order' = [order EXCEPT ![o].status = "CANCELLED", ![o].payStatus = "EXPIRED"]
      BY <3>3, <2>0
    <3>. QED BY <3>1, <3>2, <3>3
  <2>5. CASE CommitCancel(t)
    <3>1. order' = [order EXCEPT ![j.ord].status = "CANCELLED", ![j.ord].payStatus = "FAILED"]
      BY <2>5 DEF CommitCancel
    <3>. QED BY <2>0, <3>1
  <2>6. CASE MarkOrderRefunded(t)
    <3>1. order' = [order EXCEPT ![o].status = "REFUNDED", ![o].payStatus = "REFUNDED"]
      BY <2>6 DEF MarkOrderRefunded
    <3>. QED BY <2>0, <3>1
  <2>. QED BY <2>1, <2>2, <2>3, <2>4, <2>5, <2>6
<1>5. \E job : GoTo(t, job) /\ Needless(job)
  <2>. DEFINE goes(at) == \/ GoTo(t, [j EXCEPT !.at = at])
                          \/ GoTo(t, [j EXCEPT !.at = at, !.seen = "none"])
              ats == {"expire", "failRow", "failOrder", "restore", "pickRefund", "credit",
                      "refundCheck", "refundCall", "refundOrder"}
  <2>1. CASE \E at \in ats : goes(at)
    BY <1>1, <2>1, NeedlessChange
  <2>2. CASE Done(t) BY <2>2, NeedlessJobs DEF Done
  <2>3. CASE \E o : GoTo(t, Job("adminWrite", o, NoPay, "none", "REFUNDED"))
    BY <2>3, NeedlessJobs
  <2>4. CASE ReconcileNothing(t)
    <3>1. GoTo(t, After(j, "expire")) \/ GoTo(t, After(j, "failRow")) \/ Done(t)
      BY <2>4 DEF ReconcileNothing
    <3>2. Needless(After(j, "expire")) /\ Needless(After(j, "failRow"))
      BY DEF Needless, After, Job
    <3>. QED BY <2>2, <3>1, <3>2
  <2>5. CASE FinalizeRefused(t) \/ FinalizeMovedOn(t) \/ FailOrder(t) \/ CommitCancel(t)
             \/ CancelExpiredOrder(t) \/ Crash(t)
    BY <2>2, <2>5 DEF FinalizeRefused, FinalizeMovedOn, FailOrder, CommitCancel,
                      CancelExpiredOrder, Crash
  <2>6. CASE FailRow(t)
    <3>1. goes("failOrder") BY <2>6 DEF FailRow
    <3>. QED BY <2>1, <3>1
  <2>7. CASE AdminWrite(t)
    <3>1. goes("restore") \/ Done(t) BY <2>7 DEF AdminWrite
    <3>. QED BY <2>1, <2>2, <3>1
  <2>8. CASE RestoreStock(t)
    <3>1. goes("pickRefund") \/ Done(t) BY <2>8 DEF RestoreStock
    <3>. QED BY <2>1, <2>2, <3>1
  <2>9. CASE PickRefund(t)
    <3>. DEFINE p == order[j.ord].latest
    <3>1. p \in Pays \cup {NoPay}
      <4>1. j.ord \in Orders BY <1>1, <2>9 DEF PickRefund, At, JobOK, OrderSteps
      <4>. QED BY <4>1 DEF StateInv, TypeOK, OrderType
    <3>2. GoTo(t, [j EXCEPT !.at = "refundCheck", !.pay = p]) \/ goes("credit") \/ Done(t)
      BY <2>9 DEF PickRefund
    <3>3. CASE GoTo(t, [j EXCEPT !.at = "refundCheck", !.pay = p])
      <4>1. "refundCheck" \in ats OBVIOUS
      <4>. HIDE DEF p, j
      <4>2. Needless([j EXCEPT !.at = "refundCheck", !.pay = p])
        BY <1>1, <3>1, <4>1, NeedlessChange
      <4>. QED BY <3>3, <4>2
    <3>. QED BY <2>1, <2>2, <3>2, <3>3
  <2>10. CASE CreditWallet(t) \/ MarkOrderRefunded(t)
    BY <2>2, <2>3, <2>10 DEF CreditWallet, MarkOrderRefunded
  <2>11. CASE RefundCheck(t)
    <3>1. goes("refundCall") \/ Done(t) BY <2>11 DEF RefundCheck
    <3>. QED BY <2>1, <2>2, <3>1
  <2>. QED BY <2>4, <2>5, <2>6, <2>7, <2>8, <2>9, <2>10, <2>11
<1>. QED BY <1>2, <1>3, <1>4, <1>5, QuietWrite

(* One task inserts a row: its order was opened for it, and for no other.  *)
LEMMA InsertReports ==
  ASSUME StateInv, StateInv', ReportInv, NEW t \in Tasks, InsertPaymentRow(t)
  PROVE  ReportInv'
<1>1. PICK p \in Pays, o \in Orders :
        /\ task[t].pay = p /\ task[t].ord = o
        /\ rzp[p].state = "open" /\ ~Inserted(p)
  BY DEF StateInv, ReportInv, JobOK, JobReports, InsertPaymentRow, At, OrderSteps
<1>2. /\ row' = [row EXCEPT ![p] = [ord |-> o, status |-> "PENDING", review |-> FALSE]]
      /\ order' = [order EXCEPT ![o].latest = p]
      /\ GoTo(t, Idle) /\ UNCHANGED <<rzp, debits>>
  BY <1>1 DEF InsertPaymentRow, Done, walletVars
<1>3. /\ row'[p].ord = o /\ row'[p].status = "PENDING"
      /\ \A q \in Pays : q # p => row'[q] = row[q]
      /\ \A q \in Orders : order'[q].payStatus = order[q].payStatus
      /\ SameHands
  BY <1>2 DEF StateInv, TypeOK, OrderType, SameHands
<1>4. Lasts BY <1>1, <1>2, <1>3 DEF Lasts, Reported
<1>5. NoNewRecord
  <2>1. \A q \in Pays : row'[q].status = "REFUNDED" => row[q].status = "REFUNDED" BY <1>3
  <2>. QED BY <1>2, <1>3, <2>1, SameHandsRecord
<1>6. \A u \in Tasks : u # t /\ At(u, "insertRow") =>
         task[u].pay \in Pays \ {p} /\ ~Inserted(task[u].pay)
  BY <1>1 DEF StateInv, ReportInv, OneInserts, JobOK, JobReports, At, InsertPaymentRow
<1>7. OthersInsert(t, Idle) BY <1>3, <1>6 DEF OthersInsert, Inserted, Idle, Job
<1>8. JobReports(Idle)' BY DEF JobReports, Idle, Job
<1>. QED BY <1>2, <1>4, <1>5, <1>7, <1>8, ReportFrame

(* A captured answer is evidence of the payment.                           *)
LEMMA CapturedReports ==
  ASSUME StateInv, StateInv', ReportInv, NEW t \in Tasks, ReconcileCaptured(t)
  PROVE  ReportInv'
<1>. PICK job : job = After(task[t], "finalize") OBVIOUS
<1>1. job.at = "finalize" /\ job.pay = task[t].pay BY DEF After, Job
<1>2. /\ GoTo(t, job) /\ UNCHANGED <<order, row, rzp, debits>>
      /\ rzp[task[t].pay].state = "captured"
  BY DEF ReconcileCaptured, walletVars
<1>3. JobReports(job) BY <1>1, <1>2 DEF JobReports, Reported
<1>. QED BY <1>1, <1>2, <1>3, StillReports

(* The finalizer confirms what was reported.                               *)
LEMMA ConfirmReports ==
  ASSUME StateInv, StateInv', ReportInv, NEW t \in Tasks, FinalizeConfirm(t)
  PROVE  ReportInv'
<1>1. PICK p \in Pays, o \in Orders : p = task[t].pay /\ o = row[p].ord /\ Reported(p)
  BY DEF StateInv, ReportInv, TypeOK, RowType, FinalizeConfirm, At, JobOK, JobReports,
         PaySteps, Inserted
<1>. PICK job : job = Job("claim", o, NoPay, "none", "none") OBVIOUS
<1>2. job.at = "claim" /\ job.ord = o BY DEF Job
<1>3. /\ row' = [row EXCEPT ![p].status = "PAID"]
      /\ order' = [order EXCEPT ![o].status = "CONFIRMED", ![o].payStatus = "PAID"]
      /\ GoTo(t, job) /\ UNCHANGED <<rzp, debits>>
  BY <1>1 DEF FinalizeConfirm, walletVars
<1>4. /\ \A q \in Pays : /\ row'[q].ord = row[q].ord
                         /\ row'[q].status = "REFUNDED" => row[q].status = "REFUNDED"
      /\ \A q \in Orders : q # o => order'[q] = order[q]
      /\ SameHands
  BY <1>3 DEF StateInv, TypeOK, RowType, OrderType, SameHands
<1>5. Lasts BY <1>3, <1>4 DEF Lasts, Reported
<1>6. HasReport(o)' BY <1>1, <1>5, ReportLasts DEF HasReport
<1>7. NoNewRecord BY <1>3, <1>4, <1>6, SameHandsRecord
<1>8. JobReports(job)' BY <1>2, <1>6 DEF JobReports, HasReport, Reported
<1>. QED BY <1>2, <1>3, <1>4, <1>5, <1>7, <1>8, WriteReports

(* The wallet slice is claimed and taken on the evidence of the finalizer. *)
LEMMA WalletReports ==
  ASSUME StateInv, StateInv', ReportInv, NEW t \in Tasks, ClaimWalletDebit(t) \/ SettleWallet(t)
  PROVE  ReportInv'
<1>1. PICK o \in Orders : o = task[t].ord /\ (Due[o] > 0 => HasReport(o))
  BY DEF StateInv, ReportInv, JobOK, JobReports, ClaimWalletDebit, SettleWallet, At, OrderSteps
<1>2. /\ UNCHANGED <<row, rzp>> /\ SameHands
      /\ \A q \in Orders : order'[q].payStatus = order[q].payStatus
      /\ \A q \in Orders : q # o => debits'[q] = debits[q]
  <2>1. CASE ClaimWalletDebit(t)
    <3>1. UNCHANGED order \/ order' = [order EXCEPT ![o].debited = TRUE]
      BY <1>1, <2>1 DEF ClaimWalletDebit
    <3>2. SameHands /\ \A q \in Orders : order'[q].payStatus = order[q].payStatus
      <4>1. CASE UNCHANGED order BY <4>1 DEF SameHands
      <4>2. CASE order' = [order EXCEPT ![o].debited = TRUE]
        BY <4>2 DEF StateInv, TypeOK, OrderType, SameHands
      <4>. QED BY <3>1, <4>1, <4>2
    <3>. QED BY <2>1, <3>2 DEF ClaimWalletDebit, walletVars
  <2>2. CASE SettleWallet(t)
    <3>1. UNCHANGED debits \/ debits' = [debits EXCEPT ![o] = @ + 1]
      BY <1>1, <2>2 DEF SettleWallet
    <3>2. \A q \in Orders : q # o => debits'[q] = debits[q]
      BY <3>1 DEF StateInv, TypeOK
    <3>. QED BY <2>2, <3>2 DEF SettleWallet, SameHands
  <2>. QED BY <2>1, <2>2
<1>3. Lasts BY <1>2 DEF Lasts, Reported
<1>4. Due[o] > 0 => HasReport(o)' BY <1>1, <1>3, ReportLasts
<1>5. NoNewRecord
  <2>1. \A q \in Orders : order[q].received \in Nat BY DEF StateInv, TypeOK, OrderType
  <2>. QED BY <1>2, <1>4, <2>1 DEF NoNewRecord, SameHands
<1>6. CASE GoTo(t, Idle)
  <2>1. JobReports(Idle)' /\ Idle.at # "insertRow" BY DEF JobReports, Idle, Job
  <2>. QED BY <1>2, <1>3, <1>5, <1>6, <2>1, WriteReports
<1>7. CASE GoTo(t, [task[t] EXCEPT !.at = "settle"])
  <2>. PICK job : job = [task[t] EXCEPT !.at = "settle"] OBVIOUS
  <2>1. job.at = "settle" /\ job.ord = o BY <1>1 DEF StateInv, TypeOK, JobType
  <2>2. JobReports(job)' BY <1>4, <2>1 DEF JobReports, HasReport, Reported
  <2>. QED BY <1>2, <1>3, <1>5, <1>7, <2>1, <2>2, WriteReports
<1>. QED BY <1>6, <1>7 DEF ClaimWalletDebit, SettleWallet, Done

(* An accepted refund is evidence of the refund.                           *)
LEMMA RefundCallReports ==
  ASSUME StateInv, StateInv', ReportInv, NEW t \in Tasks, RefundCall(t)
  PROVE  ReportInv'
<1>1. PICK p \in Pays : p = task[t].pay
  BY DEF StateInv, JobOK, RefundCall, At, PaySteps
<1>2. UNCHANGED <<order, row, debits>> BY DEF RefundCall, walletVars
<1>3. CASE rzp' = [rzp EXCEPT ![p].refunded = TRUE]
           /\ GoTo(t, [task[t] EXCEPT !.at = "refundRow"])
  <2>. PICK job : job = [task[t] EXCEPT !.at = "refundRow"] OBVIOUS
  <2>1. job.at = "refundRow" /\ job.pay = p BY <1>1 DEF StateInv, TypeOK, JobType
  <2>2. /\ rzp'[p].refunded /\ \A q \in Pays : rzp'[q].state = rzp[q].state
        /\ \A q \in Pays : rzp[q].refunded => rzp'[q].refunded
    BY <1>3 DEF StateInv, TypeOK, RzpType
  <2>3. Lasts BY <1>2, <2>2 DEF Lasts, Reported
  <2>4. NoNewRecord BY <1>2, SameHandsRecord DEF SameHands
  <2>5. JobReports(job)' BY <2>1, <2>2 DEF JobReports
  <2>. QED BY <1>2, <1>3, <2>1, <2>3, <2>4, <2>5, WriteReports
<1>4. CASE UNCHANGED rzp /\ GoTo(t, Idle)
  BY <1>2, <1>4, NeedlessJobs, QuietWrite DEF SameHands
<1>. QED BY <1>1, <1>3, <1>4 DEF RefundCall, Done

(* The refund is written down by who knows of it.                          *)
LEMMA RefundRowReports ==
  ASSUME StateInv, StateInv', ReportInv, NEW t \in Tasks, RefundRow(t)
  PROVE  ReportInv'
<1>1. PICK p \in Pays : p = task[t].pay /\ rzp[p].refunded
  BY DEF StateInv, ReportInv, JobOK, JobReports, RefundRow, At, PaySteps
<1>. PICK job : job = [task[t] EXCEPT !.at = "refundOrder"] OBVIOUS
<1>2. job.at = "refundOrder" BY DEF StateInv, TypeOK, JobType
<1>3. /\ row' = [row EXCEPT ![p].status = "REFUNDED"]
      /\ GoTo(t, job) /\ UNCHANGED <<order, rzp, debits>>
  BY <1>1 DEF RefundRow, walletVars
<1>4. /\ \A q \in Pays : row'[q].ord = row[q].ord
      /\ \A q \in Pays : q # p => row'[q] = row[q]
  BY <1>3 DEF StateInv, TypeOK, RowType
<1>5. Lasts BY <1>3, <1>4 DEF Lasts, Reported
<1>6. NoNewRecord
  <2>1. \A q \in Pays : row'[q].status = "REFUNDED" => row[q].status = "REFUNDED" \/ rzp'[q].refunded
    BY <1>1, <1>3, <1>4
  <2>. QED BY <1>3, <2>1, SameHandsRecord DEF SameHands
<1>7. JobReports(job)' BY <1>2 DEF JobReports
<1>. QED BY <1>2, <1>3, <1>4, <1>5, <1>6, <1>7, WriteReports

-----------------------------------------------------------------------------
(* Steps of no task.                                                       *)

(* What holds of the tasks lasts with the evidence.                        *)
LEMMA NobodyReports ==
  ASSUME StateInv, StateInv', ReportInv, Lasts, NoNewRecord, UNCHANGED task,
         \A p \in Pays : row'[p].ord = row[p].ord
  PROVE  ReportInv'
<1>1. \A u \in Tasks : JobReports(task[u])'
  <2>. TAKE u \in Tasks
  <2>1. At(u, "insertRow") => row'[task[u].pay].ord = NoOrder
    BY DEF StateInv, ReportInv, JobOK, JobReports, At, Inserted
  <2>. QED BY <2>1, KnowledgeLasts
<1>2. OneInserts' BY DEF OneInserts, ReportInv, At
<1>3. OpenedFirst' BY DEF ReportInv, OpenedFirst, Lasts, Inserted
<1>4. order' \in [Orders -> OrderType] BY DEF StateInv, TypeOK
<1>. QED BY <1>1, <1>2, <1>3, <1>4, RecordsLast DEF ReportInv

(* Only an order without money outstanding is born PAID and debited.       *)
LEMMA CheckoutReports ==
  ASSUME StateInv, StateInv', ReportInv, Checkout
  PROVE  ReportInv'
<1>1. PICK o \in Orders : PlaceOrder(o) \/ PlaceCoveredOrder(o) BY DEF Checkout
<1>2. UNCHANGED <<row, rzp, task>> BY <1>1 DEF PlaceOrder, PlaceCoveredOrder
<1>3. \A q \in Orders : Due[q] > 0 =>
         order'[q].payStatus = order[q].payStatus /\ debits'[q] = debits[q]
  <2>1. CASE PlaceOrder(o)
    BY <2>1 DEF PlaceOrder, StateInv, TypeOK, OrderType, walletVars
  <2>2. CASE PlaceCoveredOrder(o)
    <3>1. Due[o] = 0 BY <2>2 DEF PlaceCoveredOrder
    <3>2. \A q \in Orders : q # o => order'[q] = order[q]
      BY <2>2 DEF PlaceCoveredOrder, StateInv, TypeOK
    <3>3. \A q \in Orders : q # o => debits'[q] = debits[q]
      BY <2>2 DEF PlaceCoveredOrder, StateInv, TypeOK
    <3>. QED BY <3>1, <3>2, <3>3
  <2>. QED BY <1>1, <2>1, <2>2
<1>4. Lasts BY <1>2 DEF Lasts, Reported
<1>5. SameHands
  BY <1>1 DEF PlaceOrder, PlaceCoveredOrder, StateInv, TypeOK, OrderType, SameHands
<1>6. NoNewRecord
  <2>1. \A q \in Orders : order[q].received \in Nat BY DEF StateInv, TypeOK, OrderType
  <2>. QED BY <1>2, <1>3, <1>5, <2>1 DEF NoNewRecord, SameHands
<1>. QED BY <1>2, <1>4, <1>6, NobodyReports

(* Razorpay takes nothing back, and works only on payments with a row.     *)
LEMMA GatewayReports ==
  ASSUME StateInv, StateInv', ReportInv, Gateway
  PROVE  ReportInv'
<1>1. PICK p \in Pays : Authorize(p) \/ Capture(p) \/ Lapse(p) \/ Decline(p) BY DEF Gateway
<1>2. Inserted(p) /\ UNCHANGED <<order, row, debits, task>>
  BY <1>1 DEF Authorize, Capture, Lapse, Decline, Razorpay, walletVars
<1>3. /\ \A q \in Pays : rzp'[q].refunded = rzp[q].refunded
      /\ \A q \in Pays : q # p => rzp'[q] = rzp[q]
      /\ \/ rzp'[p].state = rzp[p].state
         \/ rzp'[p].state \in {"authorized", "captured", "lapsed"}
  BY <1>1 DEF Authorize, Capture, Lapse, Decline, Razorpay, StateInv, TypeOK, RzpType
<1>4. Lasts BY <1>2, <1>3 DEF Lasts, Reported
<1>5. NoNewRecord BY <1>2, SameHandsRecord DEF SameHands
<1>. QED BY <1>2, <1>4, <1>5, NobodyReports

(* A rider writes one order: PAID only when handing it over.               *)
LEMMA ShippingWrites ==
  ASSUME order \in [Orders -> OrderType], Shipping
  PROVE  \E o \in Orders, w \in OrderType :
           /\ order' = [order EXCEPT ![o] = w]
           /\ w.received = order[o].received /\ (order[o].handed => w.handed)
           /\ w.payStatus = order[o].payStatus \/ (w.handed /\ w.payStatus = "PAID")
<1>1. PICK o \in Orders : AcceptOrder(o) \/ MarkPickedUp(o) \/ MarkDelivered(o) \/ CancelDelivery(o)
  BY DEF Shipping
<1>. DEFINE Row(w) == order' = [order EXCEPT ![o] = w]
<1>2. \/ Row([order[o] EXCEPT !.rider = "ACCEPTED"])
      \/ Row([order[o] EXCEPT !.rider = "IN_TRANSIT", !.status = "OUT_FOR_DELIVERY"])
      \/ Row([order[o] EXCEPT !.rider = "none", !.handed = TRUE,
                              !.status = "DELIVERED", !.payStatus = "PAID"])
      \/ Row([order[o] EXCEPT !.rider = "none", !.status = "CANCELLED"])
  BY <1>1 DEF AcceptOrder, MarkPickedUp, MarkDelivered, CancelDelivery, Deliver
<1>3. ASSUME NEW w \in {[order[o] EXCEPT !.rider = "ACCEPTED"],
                        [order[o] EXCEPT !.rider = "IN_TRANSIT", !.status = "OUT_FOR_DELIVERY"],
                        [order[o] EXCEPT !.rider = "none", !.status = "CANCELLED"],
                        [order[o] EXCEPT !.rider = "none", !.handed = TRUE,
                                         !.status = "DELIVERED", !.payStatus = "PAID"]}
      PROVE  /\ w \in OrderType
             /\ w.received = order[o].received /\ (order[o].handed => w.handed)
             /\ w.payStatus = order[o].payStatus \/ (w.handed /\ w.payStatus = "PAID")
  <2>1. order[o] \in OrderType OBVIOUS
  <2>. QED BY <1>3, <2>1 DEF OrderType, OrderStatus, PayStatus
<1>. HIDE DEF Row
<1>4. \E w : w \in OrderType /\ Row(w)
             /\ w.received = order[o].received /\ (order[o].handed => w.handed)
             /\ (w.payStatus = order[o].payStatus \/ (w.handed /\ w.payStatus = "PAID"))
  BY <1>2, <1>3
<1>. QED BY <1>4 DEF Row

(* A rider who delivers hands the order over; an entry of the desk makes   *)
(* it PAID only with what was outstanding, and one taken back leaves less. *)
LEMMA DeskReports ==
  ASSUME StateInv, StateInv', ReportInv, Shipping \/ Desk
  PROVE  ReportInv'
<1>1. UNCHANGED <<row, rzp, debits, task>> BY DeskWrites DEF walletVars
<1>2. Lasts BY <1>1 DEF Lasts, Reported
<1>3. order \in [Orders -> OrderType] BY DEF StateInv, TypeOK
<1>4. \A q \in Orders :
        order[q].received \in Nat /\ Share[q] \in Nat /\ Due[q] \in Nat
  BY <1>3, ConstantsAssumption DEF OrderType
<1>5. CASE Shipping
  <2>1. PICK o \in Orders, w \in OrderType :
          /\ order' = [order EXCEPT ![o] = w]
          /\ w.received = order[o].received /\ (order[o].handed => w.handed)
          /\ w.payStatus = order[o].payStatus \/ (w.handed /\ w.payStatus = "PAID")
    BY <1>3, <1>5, ShippingWrites
  <2>2. \A q \in Orders : order'[q].received = order[q].received BY <1>3, <2>1
  <2>3. \A q \in Orders : order[q].handed => order'[q].handed BY <1>3, <2>1
  <2>4. \A q \in Orders : order'[q].payStatus = order[q].payStatus \/ order'[q].handed
    BY <1>3, <2>1
  <2>5. NoNewRecord
    <3>1. \A q \in Orders : order'[q].received <= order[q].received BY <1>4, <2>2
    <3>. QED BY <1>1, <2>2, <2>3, <2>4, <3>1 DEF NoNewRecord
  <2>. QED BY <1>1, <1>2, <2>5, NobodyReports
<1>6. CASE Desk
  <2>1. PICK o \in Orders : RecordSettlement(o) \/ ReverseSettlement(o) BY <1>6 DEF Desk
  <2>2. \A q \in Orders \ {o} : order'[q] = order[q]
    BY <1>3, <2>1 DEF RecordSettlement, ReverseSettlement
  <2>3. CASE RecordSettlement(o)
    <3>1. /\ order'[o].received = order[o].received + 1
          /\ order'[o].payStatus = Settled(o, order[o].received + 1)
          /\ order[o].received + Share[o] < Due[o]
      BY <1>3, <2>3 DEF RecordSettlement, OrderType
    <3>2. order'[o].received + Share[o] <= Due[o] BY <1>4, <3>1
    <3>3. order'[o].payStatus = "PAID" => SettledInFull(o)'
      <4>1. order[o].received + 1 > 0 BY <1>4
      <4>. QED BY <3>1, <4>1 DEF Settled, SettledInFull
    <3>4. NoNewRecord BY <1>1, <1>4, <2>2, <3>2, <3>3 DEF NoNewRecord
    <3>. QED BY <1>1, <1>2, <3>4, NobodyReports
  <2>4. CASE ReverseSettlement(o)
    <3>1. /\ order'[o].received = order[o].received - 1 /\ order[o].received > 0
          /\ order'[o].payStatus = Settled(o, order[o].received - 1)
      BY <1>3, <2>4 DEF ReverseSettlement, OrderType
    <3>2. order[o].received + Share[o] <= Due[o] BY <3>1 DEF ReportInv, SettledNoMore
    <3>3. order'[o].received <= order[o].received
          /\ ~(order[o].received - 1 + Share[o] >= Due[o])
      BY <1>4, <3>1, <3>2
    <3>4. order'[o].payStatus # "PAID" BY <3>1, <3>3 DEF Settled
    <3>5. NoNewRecord BY <1>1, <1>4, <2>2, <3>3, <3>4 DEF NoNewRecord
    <3>. QED BY <1>1, <1>2, <3>5, NobodyReports
  <2>. QED BY <2>1, <2>3, <2>4
<1>. QED BY <1>5, <1>6

-----------------------------------------------------------------------------
(* The theorems.                                                           *)

(* ReportInv holds in every state of every behaviour.                      *)
LEMMA ReportInvHolds == Spec => []ReportInv
<1>1. Init => ReportInv
  BY DEF Init, ReportInv, JobReports, OneInserts, OpenedFirst, SettledNoMore,
         PaidOrderWasPaid, WalletTakenAfterReport, RecordedRefundHappened, At, Inserted, Idle, Job,
         NoOrderRow, NoPayRow
<1>2. StateInv /\ StateInv' /\ ReportInv /\ [Next]_vars => ReportInv'
  <2>. SUFFICES ASSUME StateInv, StateInv', ReportInv, [Next]_vars PROVE ReportInv'
    OBVIOUS
  <2>1. CASE Checkout \/ Gateway BY <2>1, CheckoutReports, GatewayReports
  <2>2. ASSUME NEW t \in Tasks, PaymentRequest(t) \/ OrderRequest(t) PROVE ReportInv'
    BY <2>2, CreateReports, RequestReports
  <2>3. ASSUME NEW t \in Tasks, Step(t) \/ Crash(t) PROVE ReportInv'
    BY <2>3, InsertReports, CapturedReports, ConfirmReports, WalletReports,
       RefundCallReports, RefundRowReports, QuietReports DEF Step
  <2>4. CASE UNCHANGED vars
    <3>1. Lasts /\ NoNewRecord
      BY <2>4, SameHandsRecord DEF vars, Lasts, SameHands, Reported
    <3>. QED BY <2>4, <3>1, NobodyReports DEF vars
  <2>5. CASE Shipping \/ Desk BY <2>5, DeskReports
  <2>. QED BY <2>1, <2>2, <2>3, <2>4, <2>5 DEF Next
<1>. QED BY <1>1, <1>2, StateInvHolds, PTL DEF Spec

(* An order with money outstanding is PAID only after Razorpay reported a  *)
(* payment for that very order, the desk took all of it and took nothing   *)
(* back since, or a rider handed the order over.                           *)
THEOREM PaidOrderWasPaidHolds == Spec => []PaidOrderWasPaid
<1>1. ReportInv => PaidOrderWasPaid BY DEF ReportInv
<1>. QED BY <1>1, ReportInvHolds, PTL

(* The wallet slice of an order with money outstanding is taken only after *)
(* Razorpay reported the rest: an abandoned attempt costs nothing.         *)
THEOREM WalletTakenAfterReportHolds == Spec => []WalletTakenAfterReport
<1>1. ReportInv => WalletTakenAfterReport BY DEF ReportInv
<1>. QED BY <1>1, ReportInvHolds, PTL

(* A payments row that says REFUNDED was refunded by Razorpay, whichever   *)
(* of the refund, the lost race and the refund webhook wrote it.           *)
THEOREM RecordedRefundHappenedHolds == Spec => []RecordedRefundHappened
<1>1. ReportInv => RecordedRefundHappened BY DEF ReportInv
<1>. QED BY <1>1, ReportInvHolds, PTL
-----------------------------------------------------------------------------
(* The promise of the customer's cancel.  It holds for an order paid       *)
(* through one payments row, as long as no finalizer overlaps a cancel, or *)
(* a failed or refunded payment's second write, of the same order.         *)

(* No order has two payments rows.                                         *)
OneRowPerOrder ==
  \A p, q \in Pays : Inserted(p) /\ row[p].ord = row[q].ord => p = q

(* A task about to write over the payment status of an order, on what it   *)
(* read or wrote in an earlier transaction.                                *)
Overwrites(u, o) ==
  \/ At(u, "cancel") /\ task[u].ord = o
  \/ task[u].at \in {"failOrder", "refundOrder"} /\ row[task[u].pay].ord = o

(* No finalizer works on an order another task is about to overwrite.      *)
NoOverlap ==
  \A t, u \in Tasks : At(t, "finalize") => ~Overwrites(u, row[task[t].pay].ord)

(* A clean payment's order is PAID.  A task about to cancel read an order  *)
(* that no clean payment had confirmed, one about to write FAILED or       *)
(* REFUNDED made its payments row unclean, and it is so still.             *)
OrphanJob(j) ==
  /\ j.at = "cancel" => \A p \in Pays : Clean(p) => row[p].ord # j.ord
  /\ j.at \in {"failOrder", "refundOrder"} => ~Clean(j.pay)
OrphanInv ==
  /\ \A p \in Pays : Clean(p) => order[row[p].ord].payStatus = "PAID"
  /\ \A t \in Tasks : OrphanJob(task[t])

(* A step that makes no payment clean, keeps PAID the orders of those that *)
(* are, and leaves each task where OrphanInv wants it.                     *)
LEMMA OrphanFrame ==
  ASSUME StateInv, OrphanInv, NothingCleaner,
         \A p \in Pays : Clean(p)' => order'[row[p].ord].payStatus = order[row[p].ord].payStatus,
         \A t \in Tasks : task'[t] = task[t] \/ OrphanJob(task[t])'
  PROVE  OrphanInv'
<1>1. \A p \in Pays : Clean(p)' => order'[row'[p].ord].payStatus = "PAID"
  BY DEF NothingCleaner, OrphanInv
<1>2. ASSUME NEW t \in Tasks, task'[t] = task[t] PROVE OrphanJob(task[t])'
  <2>1. JobOK(task[t]) /\ OrphanJob(task[t]) BY DEF StateInv, OrphanInv
  <2>3. task[t].at \in {"failOrder", "refundOrder"} => task[t].pay \in Pays
    BY <2>1 DEF JobOK, PaySteps
  <2>5. task'[t].at = "cancel" => \A p \in Pays : Clean(p)' => row'[p].ord # task'[t].ord
    BY <1>2, <2>1 DEF OrphanJob, NothingCleaner
  <2>6. task'[t].at \in {"failOrder", "refundOrder"} => ~Clean(task[t].pay)'
    BY <1>2, <2>1, <2>3 DEF OrphanJob, NothingCleaner
  <2>. QED BY <2>5, <2>6 DEF OrphanJob
<1>. QED BY <1>1, <1>2 DEF OrphanInv

(* A task that goes on to any other step.                                  *)
LEMMA OrphanMove ==
  ASSUME StateInv, NEW t \in Tasks, NEW job, GoTo(t, job),
         job.at \notin {"cancel", "failOrder", "refundOrder"}
  PROVE  \A u \in Tasks : task'[u] = task[u] \/ OrphanJob(task[u])'
BY DEF GoTo, StateInv, TypeOK, OrphanJob

(* Requests write no row; a cancel starts on an order that is not PAID.    *)
LEMMA RequestOrphans ==
  ASSUME StateInv, OrphanInv, NEW t \in Tasks, PaymentRequest(t) \/ OrderRequest(t)
  PROVE  OrphanInv'
<1>1. UNCHANGED <<order, row>> /\ NothingCleaner
  BY RequestsLeave
  DEF PaymentRequest, OrderRequest, CreatePaymentOrder, AdminReconcile, VerifyPayment,
      VerifyMismatch, WebhookPaid, WebhookFailed, WebhookRefunded, ProcessExpired,
      RecoverFailed, RefundPayment, CancelOrder, UpdateStatus, AdminCancel, RefundOrder,
      Ask, ReportPaid
<1>2. SUFFICES \A u \in Tasks : task'[u] = task[u] \/ OrphanJob(task[u])'
  BY <1>1, OrphanFrame
<1>3. ASSUME NEW at, NEW o, NEW p, NEW src, NEW seen, NEW kind,
             Begin(t, kind, Job(at, o, p, src, seen)),
             at \notin {"cancel", "failOrder", "refundOrder"}
      PROVE  \A u \in Tasks : task'[u] = task[u] \/ OrphanJob(task[u])'
  <2>. PICK job : job = Job(at, o, p, src, seen) OBVIOUS
  <2>1. job.at = at BY DEF Job
  <2>2. GoTo(t, job) BY <1>3 DEF Begin, GoTo
  <2>. QED BY <1>3, <2>1, <2>2, OrphanMove
<1>4. CASE PaymentRequest(t)
  <2>1. ASSUME NEW p, NEW kind, NEW src, Ask(t, kind, p, src)
        PROVE \A u \in Tasks : task'[u] = task[u] \/ OrphanJob(task[u])'
    BY <1>3, <2>1 DEF Ask
  <2>2. ASSUME NEW p, NEW kind, ReportPaid(t, kind, p)
        PROVE \A u \in Tasks : task'[u] = task[u] \/ OrphanJob(task[u])'
    BY <1>3, <2>2 DEF ReportPaid
  <2>3. CASE \E o \in Orders, p \in Pays : CreatePaymentOrder(t, o, p)
    BY <1>3, <2>3 DEF CreatePaymentOrder
  <2>4. CASE \E p \in Pays : WebhookFailed(t, p) \/ WebhookRefunded(t, p) \/ RefundPayment(t, p)
    BY <1>3, <2>4 DEF WebhookFailed, WebhookRefunded, RefundPayment
  <2>5. CASE \E o \in Orders : AdminReconcile(t, o) BY <2>1, <2>5 DEF AdminReconcile
  <2>6. CASE \E p \in Pays : VerifyPayment(t, p) \/ WebhookPaid(t, p)
    BY <2>2, <2>6 DEF VerifyPayment, WebhookPaid
  <2>7. CASE \E p \in Pays : VerifyMismatch(t, p) \/ ProcessExpired(t, p) \/ RecoverFailed(t, p)
    BY <2>1, <2>7 DEF VerifyMismatch, ProcessExpired, RecoverFailed
  <2>. QED BY <1>4, <2>3, <2>4, <2>5, <2>6, <2>7 DEF PaymentRequest
<1>5. CASE OrderRequest(t)
  <2>1. PICK o \in Orders : \/ CancelOrder(t, o)
                            \/ \E to : UpdateStatus(t, o, to)
                            \/ \E src : AdminCancel(t, o, src) \/ RefundOrder(t, o, src)
    BY <1>5 DEF OrderRequest
  <2>2. CASE CancelOrder(t, o)
    <3>. PICK job : job = Job("cancel", o, NoPay, "none", "none") OBVIOUS
    <3>1. job.at = "cancel" /\ job.ord = o BY DEF Job
    <3>2. task' = [task EXCEPT ![t] = job] BY <2>2 DEF CancelOrder, Begin
    <3>3. \A p \in Pays : Clean(p)' => row'[p].ord # o
      BY <1>1, <2>2 DEF CancelOrder, OrphanInv, NothingCleaner
    <3>. QED BY <3>1, <3>2, <3>3 DEF StateInv, TypeOK, OrphanJob
  <2>3. CASE \E to : UpdateStatus(t, o, to) BY <1>3, <2>3 DEF UpdateStatus
  <2>4. CASE \E src : AdminCancel(t, o, src) BY <1>3, <2>4 DEF AdminCancel
  <2>5. CASE \E src : RefundOrder(t, o, src) BY <1>3, <2>5 DEF RefundOrder
  <2>. QED BY <2>1, <2>2, <2>3, <2>4, <2>5
<1>. QED BY <1>4, <1>5

(* The steps that change no payment status and no watched task.            *)
LEMMA CalmOrphans ==
  ASSUME StateInv, OrphanInv, NEW t \in Tasks,
         \/ InsertPaymentRow(t) \/ ReconcileCaptured(t) \/ ReconcileNothing(t)
         \/ FinalizeRefused(t) \/ FinalizeMovedOn(t) \/ ClaimWalletDebit(t) \/ SettleWallet(t)
         \/ AdminWrite(t) \/ RestoreStock(t) \/ PickRefund(t) \/ CreditWallet(t)
         \/ RefundCheck(t) \/ RefundCall(t) \/ Crash(t)
  PROVE  OrphanInv'
<1>. DEFINE j == task[t]
<1>1. JobOK(j) /\ j \in JobType BY DEF StateInv, JobOK
<1>2. NothingCleaner
  <2>1. CASE ClaimWalletDebit(t) \/ SettleWallet(t) \/ Crash(t)
    BY <2>1 DEF ClaimWalletDebit, SettleWallet, Crash, NothingCleaner, Clean, Inserted
  <2>2. CASE ~(ClaimWalletDebit(t) \/ SettleWallet(t) \/ Crash(t))
    <3>1. ~FinalizeConfirm(t)
      BY <2>2
      DEF FinalizeConfirm, InsertPaymentRow, ReconcileCaptured, ReconcileNothing,
          FinalizeRefused, FinalizeMovedOn, AdminWrite, RestoreStock, PickRefund,
          CreditWallet, RefundCheck, RefundCall, At
    <3>. QED BY <2>2, <3>1, OtherStepsLeave DEF Step
  <2>. QED BY <2>1, <2>2
<1>3. \A o \in Orders : order'[o].payStatus = order[o].payStatus
  <2>1. CASE InsertPaymentRow(t)
    <3>1. \E p : order' = [order EXCEPT ![j.ord].latest = p] BY <2>1 DEF InsertPaymentRow
    <3>. QED BY <3>1 DEF StateInv, TypeOK, OrderType
  <2>2. CASE ClaimWalletDebit(t)
    <3>1. UNCHANGED order \/ order' = [order EXCEPT ![j.ord].debited = TRUE]
      BY <2>2 DEF ClaimWalletDebit
    <3>. QED BY <3>1 DEF StateInv, TypeOK, OrderType
  <2>3. CASE AdminWrite(t)
    <3>1. \E r : order' = [order EXCEPT ![j.ord].status = j.seen, ![j.ord].rider = r]
      BY <2>3 DEF AdminWrite
    <3>. QED BY <3>1 DEF StateInv, TypeOK, OrderType
  <2>4. CASE \/ ReconcileCaptured(t) \/ ReconcileNothing(t) \/ FinalizeRefused(t)
             \/ FinalizeMovedOn(t) \/ SettleWallet(t) \/ RestoreStock(t) \/ PickRefund(t)
             \/ CreditWallet(t) \/ RefundCheck(t) \/ RefundCall(t) \/ Crash(t)
    BY <2>4 DEF ReconcileCaptured, ReconcileNothing, FinalizeRefused, FinalizeMovedOn,
                SettleWallet, RestoreStock, PickRefund, CreditWallet, RefundCheck,
                RefundCall, Crash
  <2>. QED BY <2>1, <2>2, <2>3, <2>4
<1>4. \E job : GoTo(t, job) /\ job.at \notin {"cancel", "failOrder", "refundOrder"}
  <2>. DEFINE goes(at) == \/ GoTo(t, [j EXCEPT !.at = at])
                          \/ GoTo(t, [j EXCEPT !.at = at, !.seen = "none"])
                          \/ \E p : GoTo(t, [j EXCEPT !.at = at, !.pay = p])
              ats == {"finalize", "expire", "failRow", "settle", "restore", "pickRefund",
                      "credit", "refundCheck", "refundCall", "refundRow"}
  <2>1. ASSUME NEW at \in ats, goes(at)
        PROVE  \E job : GoTo(t, job) /\ job.at \notin {"cancel", "failOrder", "refundOrder"}
    <3>1. /\ [j EXCEPT !.at = at].at = at
          /\ [j EXCEPT !.at = at, !.seen = "none"].at = at
          /\ \A p : [j EXCEPT !.at = at, !.pay = p].at = at
      BY <1>1 DEF JobType
    <3>. QED BY <2>1, <3>1
  <2>2. CASE Done(t) BY <2>2 DEF Done, Idle, Job
  <2>3. CASE ReconcileCaptured(t) \/ ReconcileNothing(t)
    <3>1. (\E at \in ats : GoTo(t, After(j, at))) \/ Done(t)
      BY <2>3 DEF ReconcileCaptured, ReconcileNothing
    <3>2. \A at \in ats : After(j, at).at = at BY DEF After, Job
    <3>. QED BY <2>2, <3>1, <3>2
  <2>4. CASE InsertPaymentRow(t) \/ FinalizeRefused(t) \/ FinalizeMovedOn(t) \/ SettleWallet(t)
             \/ Crash(t)
    BY <2>2, <2>4 DEF InsertPaymentRow, FinalizeRefused, FinalizeMovedOn, SettleWallet, Crash
  <2>5. CASE ClaimWalletDebit(t) \/ AdminWrite(t) \/ RestoreStock(t)
    <3>1. goes("settle") \/ goes("restore") \/ goes("pickRefund") \/ Done(t)
      BY <2>5 DEF ClaimWalletDebit, AdminWrite, RestoreStock
    <3>. QED BY <2>1, <2>2, <3>1
  <2>6. CASE PickRefund(t)
    <3>1. goes("refundCheck") \/ goes("credit") \/ Done(t) BY <2>6 DEF PickRefund
    <3>. QED BY <2>1, <2>2, <3>1
  <2>7. CASE CreditWallet(t)
    <3>1. GoTo(t, Job("adminWrite", j.ord, NoPay, "none", "REFUNDED")) \/ Done(t)
      BY <2>7 DEF CreditWallet
    <3>. QED BY <2>2, <3>1 DEF Job
  <2>8. CASE RefundCheck(t) \/ RefundCall(t)
    <3>1. goes("refundCall") \/ goes("refundRow") \/ Done(t)
      BY <2>8 DEF RefundCheck, RefundCall
    <3>. QED BY <2>1, <2>2, <3>1
  <2>. QED BY <2>3, <2>4, <2>5, <2>6, <2>7, <2>8
<1>5. \A p \in Pays : Clean(p) => row[p].ord \in Orders
  BY DEF Clean, Inserted, StateInv, TypeOK, RowType
<1>. QED BY <1>2, <1>3, <1>4, <1>5, OrphanMove, OrphanFrame DEF NothingCleaner

(* Checkout makes no placed order PAID, and a clean payment's order is     *)
(* PAID already.                                                           *)
LEMMA CheckoutOrphans ==
  ASSUME StateInv, OrphanInv, NEW o \in Orders, PlaceOrder(o) \/ PlaceCoveredOrder(o)
  PROVE  OrphanInv'
<1>1. ~Placed(o) /\ UNCHANGED <<row, task>>
  BY DEF PlaceOrder, PlaceCoveredOrder
<1>2. \A q \in Orders : q # o => order'[q] = order[q]
  BY DEF PlaceOrder, PlaceCoveredOrder, StateInv, TypeOK
<1>3. order'[o].payStatus \in {order[o].payStatus, "PAID"}
  BY DEF PlaceOrder, PlaceCoveredOrder, StateInv, TypeOK, OrderType
<1>4. \A p \in Pays : Clean(p) => row[p].ord \in Orders
  BY DEF Clean, Inserted, StateInv, TypeOK, RowType
<1>5. \A p \in Pays : Clean(p) => order'[row[p].ord].payStatus = "PAID"
  BY <1>2, <1>3, <1>4 DEF OrphanInv
<1>6. NothingCleaner BY <1>1 DEF NothingCleaner, Clean, Inserted
<1>. QED BY <1>1, <1>5, <1>6, OrphanFrame DEF NothingCleaner, OrphanInv

(* A confirmed payment's order becomes PAID: nobody is about to overwrite  *)
(* it, since finalizers do not overlap.                                    *)
LEMMA ConfirmOrphans ==
  ASSUME StateInv, OrphanInv, NoOverlap, NEW t \in Tasks, FinalizeConfirm(t)
  PROVE  OrphanInv'
<1>1. PICK p \in Pays, o \in Orders : p = task[t].pay /\ Inserted(p) /\ o = row[p].ord
  BY DEF StateInv, TypeOK, RowType, FinalizeConfirm, At, JobOK, PaySteps, Inserted
<1>2. /\ order'[o].payStatus = "PAID"
      /\ \A q \in Orders : q # o => order'[q] = order[q]
  BY <1>1 DEF FinalizeConfirm, StateInv, TypeOK, OrderType
<1>3. /\ \A q \in Pays : row'[q].ord = row[q].ord
      /\ \A q \in Pays : q # p => row'[q] = row[q]
  BY <1>1 DEF FinalizeConfirm, StateInv, TypeOK, RowType
<1>4. \A q \in Pays : Clean(q)' => row[q].ord \in Orders /\ (q = p \/ Clean(q))
  BY <1>3 DEF Clean, Inserted, StateInv, TypeOK, RowType
<1>5. \A q \in Pays : Clean(q)' => order'[row'[q].ord].payStatus = "PAID"
  BY <1>1, <1>2, <1>3, <1>4 DEF OrphanInv
<1>6. ASSUME NEW u \in Tasks, u # t PROVE OrphanJob(task[u])'
  <2>1. JobOK(task[u]) /\ OrphanJob(task[u]) /\ ~Overwrites(u, o)
    BY <1>1 DEF StateInv, OrphanInv, NoOverlap, FinalizeConfirm
  <2>2. task'[u] = task[u] BY <1>6 DEF FinalizeConfirm, GoTo, StateInv, TypeOK
  <2>3. task[u].at = "cancel" =>
          task[u].ord # o /\ \A q \in Pays : Clean(q) => row[q].ord # task[u].ord
    BY <2>1 DEF Overwrites, OrphanJob, At
  <2>4. task[u].at \in {"failOrder", "refundOrder"} =>
          task[u].pay \in Pays /\ task[u].pay # p /\ ~Clean(task[u].pay)
    BY <1>1, <2>1 DEF JobOK, PaySteps, Overwrites, OrphanJob
  <2>5. task[u].at = "cancel" => \A q \in Pays : Clean(q)' => row'[q].ord # task'[u].ord
    BY <1>1, <1>3, <1>4, <2>2, <2>3
  <2>6. task[u].at \in {"failOrder", "refundOrder"} => ~Clean(task[u].pay)'
    BY <1>3, <1>4, <2>2, <2>4
  <2>. QED BY <2>2, <2>5, <2>6 DEF OrphanJob
<1>7. OrphanJob(task[t])'
  BY DEF FinalizeConfirm, GoTo, Job, OrphanJob, StateInv, TypeOK
<1>. QED BY <1>5, <1>6, <1>7 DEF OrphanInv

(* The first write of a failed or refunded payment: its row is not PAID    *)
(* any more.                                                               *)
LEMMA FirstWriteOrphans ==
  ASSUME StateInv, OrphanInv, NEW t \in Tasks, FailRow(t) \/ RefundRow(t)
  PROVE  OrphanInv'
<1>1. PICK p \in Pays : p = task[t].pay
  BY DEF StateInv, JobOK, PaySteps, FailRow, RefundRow, At
<1>2. UNCHANGED order /\ row'[p].status \in {"FAILED", "REFUNDED"}
  BY <1>1 DEF FailRow, RefundRow, StateInv, TypeOK, RowType
<1>3. NothingCleaner
  <2>1. ~FinalizeConfirm(t) /\ ~ClaimWalletDebit(t) /\ ~SettleWallet(t)
    BY DEF FailRow, RefundRow, FinalizeConfirm, ClaimWalletDebit, SettleWallet, At
  <2>. QED BY <2>1, OtherStepsLeave DEF Step
<1>4. \/ task' = [task EXCEPT ![t] = [task[t] EXCEPT !.at = "failOrder"]]
      \/ task' = [task EXCEPT ![t] = [task[t] EXCEPT !.at = "refundOrder"]]
  BY DEF FailRow, RefundRow, GoTo
<1>5. /\ task'[t].pay = p /\ task'[t].at # "cancel"
      /\ \A u \in Tasks : u # t => task'[u] = task[u]
  BY <1>1, <1>4 DEF StateInv, TypeOK, JobType
<1>6. OrphanJob(task[t])' BY <1>2, <1>5 DEF OrphanJob, Clean
<1>. QED BY <1>2, <1>3, <1>5, <1>6, OrphanFrame

(* The writes over an order's payment status: no clean payment is of that  *)
(* order.                                                                  *)
LEMMA OverwriteOrphans ==
  ASSUME StateInv, OrphanInv, OneRowPerOrder, NEW t \in Tasks,
         FailOrder(t) \/ MarkOrderRefunded(t) \/ CommitCancel(t) \/ CancelExpiredOrder(t)
  PROVE  OrphanInv'
<1>. DEFINE j == task[t]
            o == IF CommitCancel(t) THEN j.ord ELSE row[j.pay].ord
<1>1. JobOK(j) /\ OrphanJob(j) BY DEF StateInv, OrphanInv
<1>2. o \in Orders
  BY <1>1 DEF FailOrder, MarkOrderRefunded, CommitCancel, CancelExpiredOrder, At, JobOK,
              OrderSteps, PaySteps, Inserted, StateInv, TypeOK, RowType
<1>3. NothingCleaner
  <2>1. ~FinalizeConfirm(t) /\ ~ClaimWalletDebit(t) /\ ~SettleWallet(t)
    BY DEF FailOrder, MarkOrderRefunded, CommitCancel, CancelExpiredOrder,
           FinalizeConfirm, ClaimWalletDebit, SettleWallet, At
  <2>. QED BY <2>1, OtherStepsLeave DEF Step
<1>4. \/ UNCHANGED order
      \/ \E s \in {"FAILED"} : order' = [order EXCEPT ![o].payStatus = s]
      \/ \E s \in {"REFUNDED", "CANCELLED"}, ps \in {"REFUNDED", "FAILED", "EXPIRED"} :
           order' = [order EXCEPT ![o].status = s, ![o].payStatus = ps]
  <2>1. CASE FailOrder(t)
    <3>1. ~CommitCancel(t) BY <2>1 DEF FailOrder, CommitCancel, At
    <3>. QED BY <2>1, <3>1 DEF FailOrder
  <2>2. CASE MarkOrderRefunded(t)
    <3>1. ~CommitCancel(t) BY <2>2 DEF MarkOrderRefunded, CommitCancel, At
    <3>. QED BY <2>2, <3>1 DEF MarkOrderRefunded
  <2>3. CASE CommitCancel(t) BY <2>3 DEF CommitCancel
  <2>4. CASE CancelExpiredOrder(t)
    <3>1. ~CommitCancel(t) BY <2>4 DEF CancelExpiredOrder, CommitCancel, At
    <3>. QED BY <2>4, <3>1 DEF CancelExpiredOrder
  <2>. QED BY <2>1, <2>2, <2>3, <2>4
<1>5. \A p \in Pays : Clean(p)' /\ row[p].ord = o => order'[o] = order[o]
  <2>. SUFFICES ASSUME NEW p \in Pays, Clean(p)', row[p].ord = o PROVE order'[o] = order[o]
    OBVIOUS
  <2>1. Clean(p) /\ order[o].payStatus = "PAID" BY <1>3 DEF NothingCleaner, OrphanInv
  <2>2. CASE FailOrder(t) \/ MarkOrderRefunded(t)
    <3>1. ~CommitCancel(t) BY <2>2 DEF FailOrder, MarkOrderRefunded, CommitCancel, At
    <3>2. j.pay \in Pays /\ Inserted(j.pay) /\ ~Clean(j.pay)
      BY <1>1, <2>2 DEF FailOrder, MarkOrderRefunded, At, JobOK, OrphanJob, PaySteps
    <3>3. p = j.pay BY <3>1, <3>2 DEF OneRowPerOrder
    <3>. QED BY <2>1, <3>2, <3>3
  <2>3. CASE CommitCancel(t)
    <3>1. o = j.ord BY <2>3
    <3>. QED BY <1>1, <2>1, <2>3, <3>1 DEF CommitCancel, At, OrphanJob
  <2>4. CASE CancelExpiredOrder(t)
    <3>1. ~CommitCancel(t) BY <2>4 DEF CancelExpiredOrder, CommitCancel, At
    <3>. QED BY <2>1, <2>4, <3>1 DEF CancelExpiredOrder
  <2>. QED BY <2>2, <2>3, <2>4
<1>. HIDE DEF o
<1>6. \A q \in Orders : q # o => order'[q] = order[q]
  BY <1>4 DEF StateInv, TypeOK
<1>7. \A p \in Pays : Clean(p) => row[p].ord \in Orders
  BY DEF Clean, Inserted, StateInv, TypeOK, RowType
<1>8. \A p \in Pays : Clean(p)' => order'[row[p].ord].payStatus = order[row[p].ord].payStatus
  BY <1>3, <1>5, <1>6, <1>7 DEF NothingCleaner
<1>9. \/ GoTo(t, Idle)
      \/ \E q : GoTo(t, Job("adminWrite", q, NoPay, "none", "REFUNDED"))
  BY DEF FailOrder, MarkOrderRefunded, CommitCancel, CancelExpiredOrder, Done
<1>10. \E job : GoTo(t, job) /\ job.at \notin {"cancel", "failOrder", "refundOrder"}
  <2>1. Idle.at = "idle" /\ \A q : Job("adminWrite", q, NoPay, "none", "REFUNDED").at = "adminWrite"
    BY DEF Idle, Job
  <2>. QED BY <1>9, <2>1
<1>. QED BY <1>3, <1>6, <1>8, <1>10, OrphanMove, OrphanFrame

(* A rider makes orders PAID, the desk those no clean payment confirmed.   *)
LEMMA DeskOrphans ==
  ASSUME StateInv, OrphanInv, "reverse" \notin Requests, Shipping \/ Desk
  PROVE  OrphanInv'
<1>1. UNCHANGED <<row, task>> BY DeskWrites
<1>2. order \in [Orders -> OrderType] /\ \A p \in Pays : Clean(p) => row[p].ord \in Orders
  BY DEF Clean, Inserted, StateInv, TypeOK, RowType
<1>3. \A q \in Orders : order[q].payStatus = "PAID" => order'[q].payStatus = "PAID"
  <2>1. CASE Shipping
    <3>2. PICK o \in Orders, w \in OrderType :
            /\ order' = [order EXCEPT ![o] = w]
            /\ w.payStatus = order[o].payStatus \/ (w.handed /\ w.payStatus = "PAID")
      BY <1>2, <2>1, ShippingWrites
    <3>. QED BY <1>2, <3>2
  <2>2. CASE Desk
    <3>1. PICK o \in Orders : RecordSettlement(o)
      BY <2>2 DEF Desk, ReverseSettlement
    <3>2. order[o].payStatus # "PAID" /\ \A q \in Orders : q # o => order'[q] = order[q]
      BY <1>2, <3>1 DEF RecordSettlement
    <3>. QED BY <3>2
  <2>. QED BY <2>1, <2>2
<1>4. NothingCleaner BY <1>1 DEF NothingCleaner, Clean, Inserted
<1>5. \A p \in Pays : Clean(p)' => order'[row[p].ord].payStatus = order[row[p].ord].payStatus
  BY <1>2, <1>3, <1>4 DEF NothingCleaner, OrphanInv
<1>. QED BY <1>1, <1>4, <1>5, OrphanFrame

(* OrphanInv holds as long as orders have one row and finalizers do not    *)
(* overlap: both hypotheses are about the state a step starts from.        *)
LEMMA OrphanInvKept ==
  ASSUME "reverse" \notin Requests
  PROVE  StateInv /\ OrphanInv /\ OneRowPerOrder /\ NoOverlap /\ [Next]_vars => OrphanInv'
<1>. SUFFICES ASSUME StateInv, OrphanInv, OneRowPerOrder, NoOverlap, [Next]_vars
              PROVE  OrphanInv'
  OBVIOUS
<1>1. CASE Checkout BY <1>1, CheckoutOrphans DEF Checkout
<1>2. CASE Gateway
  BY <1>2, OrphanFrame
  DEF Gateway, Authorize, Capture, Lapse, Decline, Razorpay, NothingCleaner, Clean,
      Inserted
<1>3. ASSUME NEW t \in Tasks, PaymentRequest(t) \/ OrderRequest(t) PROVE OrphanInv'
  BY <1>3, RequestOrphans
<1>4. ASSUME NEW t \in Tasks, Step(t) \/ Crash(t) PROVE OrphanInv'
  BY <1>4, CalmOrphans, ConfirmOrphans, FirstWriteOrphans, OverwriteOrphans DEF Step
<1>5. CASE UNCHANGED vars
  BY <1>5, OrphanFrame DEF vars, NothingCleaner, Clean, Inserted
<1>6. CASE Shipping \/ Desk BY <1>6, DeskOrphans
<1>. QED BY <1>1, <1>2, <1>3, <1>4, <1>5, <1>6 DEF Next

(* Cancelling never leaves a payment that confirmed the order on a         *)
(* cancelled order marked FAILED -- for orders paid through one payments   *)
(* row, while no finalizer overlaps a cancel or a second write of the same *)
(* order, and where the desk takes no settlement back (which writes        *)
(* PENDING over PAID, so that a cancel passes).                            *)
THEOREM CapturedNeverOrphanedHolds ==
  ASSUME "reverse" \notin Requests
  PROVE  Spec /\ []OneRowPerOrder /\ []NoOverlap => []CapturedNeverOrphaned
<1>1. Init => OrphanInv
  BY DEF Init, OrphanInv, OrphanJob, Clean, Inserted, NoPayRow, Idle, Job
<1>2. OrphanInv => CapturedNeverOrphaned
  BY DEF OrphanInv, CapturedNeverOrphaned
<1>3. StateInv /\ OrphanInv /\ OneRowPerOrder /\ NoOverlap /\ [Next]_vars => OrphanInv'
  BY OrphanInvKept
<1>. QED BY <1>1, <1>2, <1>3, StateInvHolds, PTL DEF Spec

(* Requests that are served one at a time, each order's payment included,  *)
(* never orphan a capture: any mix of requests, crashes and refunds, and   *)
(* any number of orders, of which one is paid.                             *)
THEOREM SerialNeverOrphans ==
  ASSUME "reverse" \notin Requests, NEW t, Tasks = {t}, NEW p, Pays = {p}
  PROVE  Spec => []CapturedNeverOrphaned
<1>1. OneRowPerOrder BY DEF OneRowPerOrder
<1>2. NoOverlap
  BY DEF NoOverlap, Overwrites, At
<1>3. []OneRowPerOrder /\ []NoOverlap
  <2>1. OneRowPerOrder /\ NoOverlap BY <1>1, <1>2
  <2>. QED BY <2>1, PTL
<1>4. Spec /\ []OneRowPerOrder /\ []NoOverlap => []CapturedNeverOrphaned
  BY CapturedNeverOrphanedHolds
<1>. QED BY <1>3, <1>4
=============================================================================

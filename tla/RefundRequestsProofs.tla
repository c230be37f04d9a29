------------------------ MODULE RefundRequestsProofs ------------------------
(***************************************************************************)
(* Safety of RefundRequests for any number of requests and handlers.       *)
(* StateInv says which handler is at which step; PayInv keeps the claim    *)
(* exclusive, so that money moves once per claim; MoneyInv ties what the   *)
(* rows say to the money that moved.                                       *)
(***************************************************************************)
EXTENDS RefundRequests, TLAPS

PayingSteps == {"check", "call", "row", "credit", "approve", "release"}

(* Which handler is at which step, and what it holds there.                *)
JobOK(j) ==
  /\ j \in JobType
  /\ j.at \in {"claim", "approve", "release"} => j.kind = "approve"
  /\ j.at \in {"check", "call", "credit"} => j.kind \in {"approve", "direct"}
  /\ j.at = "row" => j.kind \in {"approve", "direct", "webhook"}
  /\ j.at \in {"markOrder", "close", "insert", "finalize", "idle"} => j.kind # "approve"
  /\ j.at = "close" => j.kind = "direct"
  /\ j.at \in {"insert", "finalize"} \/ j.kind = "approve" => j.req \in Reqs
  /\ j.at = "finalize" => j.outcome \in {"REJECTED", "CANCELLED"}

StateInv == TypeOK /\ \A t \in Tasks : JobOK(task[t])

(* An approval that has not moved the money yet.                           *)
Unpaid(t, r) == Paying(t, r) /\ task[t].at \in {"check", "call", "credit", "release"}

(* A claimed request is in the hands of one approval, and unless an        *)
(* approval broke, it is not paid before that approval pays it.            *)
PayInv ==
  /\ \A t \in Tasks, r \in Reqs : Paying(t, r) => req[r].status \notin {"NONE", "PENDING"}
  /\ \A t, u \in Tasks, r \in Reqs : Paying(t, r) /\ Paying(u, r) => t = u
  /\ \A r \in Reqs \ broken :
       req[r].status \in {"NONE", "PENDING"} \/ (\E t \in Tasks : Unpaid(t, r)) => paid[r] = 0
  /\ ApprovePaysOnce

(* A handler that is about to record a refund has made one.                *)
MoneyInv ==
  /\ \A t \in Tasks : task[t].kind = "approve" /\ task[t].at \in {"row", "approve"}
                        => paid[task[t].req] > 0
  /\ \A t \in Tasks : task[t].kind = "direct" /\ task[t].at \in {"row", "markOrder", "flip", "close"}
                        => direct > 0
  /\ ApprovedWasPaid

-----------------------------------------------------------------------------
(* Jobs.                                                                   *)

(* The idle job is in order.                                               *)
LEMMA IdleOK == JobOK(Idle)
  BY DEF Idle, Job, JobOK, JobType, Destinations

(* A task that moves is the only one that moves.                           *)
LEMMA OneMoves ==
  ASSUME StateInv, NEW t \in Tasks, NEW job, JobOK(job),
         task' = [task EXCEPT ![t] = job]
  PROVE  /\ task' \in [Tasks -> JobType]
         /\ task'[t] = job
         /\ \A u \in Tasks : u # t => task'[u] = task[u]
         /\ \A u \in Tasks : JobOK(task'[u])
  BY DEF StateInv, TypeOK, JobOK

(* GoTo changes the step alone.                                            *)
LEMMA GoToMoves ==
  ASSUME StateInv, NEW t \in Tasks, NEW step, GoTo(t, step)
  PROVE  task' = [task EXCEPT ![t] = [task[t] EXCEPT !.at = step]]
  BY DEF GoTo, StateInv, TypeOK

(* A begun task has the job it was given, and was idle.                    *)
LEMMA BegunTask ==
  ASSUME StateInv, NEW t \in Tasks, NEW job, JobOK(job), Begin(t, job)
  PROVE  /\ task' \in [Tasks -> JobType]
         /\ task'[t] = job /\ task[t] = Idle
         /\ \A u \in Tasks : u # t => task'[u] = task[u]
         /\ \A u \in Tasks : JobOK(task'[u])
  BY OneMoves DEF Begin

(* A task that is done is idle.                                            *)
LEMMA DoneTask ==
  ASSUME StateInv, NEW t \in Tasks, Done(t)
  PROVE  /\ task' \in [Tasks -> JobType]
         /\ task'[t] = Idle
         /\ \A u \in Tasks : u # t => task'[u] = task[u]
         /\ \A u \in Tasks : JobOK(task'[u])
  BY OneMoves, IdleOK DEF Done

(* A task that goes on has a job in order if the step suits its handler.   *)
LEMMA GoneTask ==
  ASSUME StateInv, NEW t \in Tasks, NEW step, GoTo(t, step), JobOK([task[t] EXCEPT !.at = step])
  PROVE  /\ task' \in [Tasks -> JobType]
         /\ task'[t] = [task[t] EXCEPT !.at = step]
         /\ \A u \in Tasks : u # t => task'[u] = task[u]
         /\ \A u \in Tasks : JobOK(task'[u])
  BY OneMoves, GoToMoves

-----------------------------------------------------------------------------
(* Every action keeps every column in its type and every job in order.     *)

JobsOK == task \in [Tasks -> JobType] /\ \A u \in Tasks : JobOK(task[u])

(* A handler that begins has a job in order.                               *)
LEMMA HandlerJobs ==
  ASSUME StateInv, NEW t \in Tasks, Handler(t)
  PROVE  JobsOK'
<1>1. ASSUME NEW to \in Destinations, RefundOrder(t, to) PROVE JobsOK'
  <2>1. JobOK(Job(Pay(to), "direct", NoReq, to, "none"))
    BY ConstantsAssumption DEF Job, JobOK, JobType, Pay, Destinations
  <2>. QED BY <1>1, <2>1, BegunTask DEF RefundOrder, JobsOK
<1>2. ASSUME NEW to \in Destinations, NEW r \in Reqs, Approve(t, r, to) PROVE JobsOK'
  <2>1. JobOK(Job("claim", "approve", r, to, "none")) BY DEF Job, JobOK, JobType, Destinations
  <2>. QED BY <1>2, <2>1, BegunTask DEF Approve, JobsOK
<1>3. ASSUME NEW r \in Reqs, Create(t, r) PROVE JobsOK'
  <2>1. JobOK(Job("insert", "create", r, "WALLET", "none")) BY DEF Job, JobOK, JobType, Destinations
  <2>. QED BY <1>3, <2>1, BegunTask DEF Create, JobsOK
<1>4. ASSUME NEW r \in Reqs, NEW outcome \in {"REJECTED", "CANCELLED"}, Resolve(t, r, outcome)
      PROVE  JobsOK'
  <2>1. JobOK(Job("finalize", "resolve", r, "WALLET", outcome))
    BY DEF Job, JobOK, JobType, Destinations
  <2>. QED BY <1>4, <2>1, BegunTask DEF Resolve, JobsOK
<1>5. ASSUME WebhookRefunded(t) PROVE JobsOK'
  <2>1. JobOK(Job("row", "webhook", NoReq, "RAZORPAY", "none"))
    BY DEF Job, JobOK, JobType, Destinations
  <2>. QED BY <1>5, <2>1, BegunTask DEF WebhookRefunded, JobsOK
<1>. QED BY <1>1, <1>2, <1>3, <1>4, <1>5 DEF Handler

(* Where each step of a task leads.                                        *)
Leads(t, steps) == Done(t) \/ \E step \in steps : GoTo(t, step) /\ JobOK([task[t] EXCEPT !.at = step])

(* Steps that lead on in order keep the jobs in order.                     *)
LEMMA LeadsJobs ==
  ASSUME StateInv, NEW t \in Tasks, NEW steps, Leads(t, steps)
  PROVE  JobsOK'
  BY DoneTask, GoneTask DEF Leads, JobsOK

(* A step that is unlike any other keeps its job in order.                 *)
LEMMA StepJobs ==
  ASSUME StateInv, NEW t \in Tasks, Step(t) \/ Crash(t)
  PROVE  JobsOK'
<1>. DEFINE j == task[t]
<1>1. JobOK(j) BY DEF StateInv
<1>2. ASSUME FailToPay(t), At(t, "check") \/ At(t, "call") \/ At(t, "row") \/ At(t, "credit")
      PROVE Leads(t, {"release"})
  BY <1>1, <1>2 DEF FailToPay, Leads, At, JobOK, JobType
<1>3. CASE Insert(t) \/ Finalize(t) \/ ReleaseClaim(t) \/ ResolvePendingForOrder(t) \/ Crash(t)
  BY <1>3, LeadsJobs DEF Insert, Finalize, ReleaseClaim, ResolvePendingForOrder, Crash, Leads
<1>4. CASE Claim(t)
  <2>1. Leads(t, {"check", "credit"})
    BY <1>4, <1>1 DEF Claim, Leads, At, JobOK, JobType, Pay
  <2>. QED BY <2>1, LeadsJobs
<1>5. CASE RefundCheck(t)
  <2>1. CASE GoTo(t, "call")
    <3>1. Leads(t, {"call"}) BY <1>5, <1>1, <2>1 DEF RefundCheck, Leads, At, JobOK, JobType
    <3>. QED BY <3>1, LeadsJobs
  <2>. QED BY <1>2, <1>5, <2>1, LeadsJobs DEF RefundCheck
<1>6. CASE RefundCall(t)
  <2>1. CASE GoTo(t, "row")
    <3>1. Leads(t, {"row"}) BY <1>6, <1>1, <2>1 DEF RefundCall, Leads, At, JobOK, JobType
    <3>. QED BY <3>1, LeadsJobs
  <2>. QED BY <1>2, <1>6, <2>1, LeadsJobs DEF RefundCall
<1>7. CASE RefundRow(t)
  <2>1. Leads(t, {"approve", "markOrder"}) BY <1>7, <1>1 DEF RefundRow, Leads, At, JobOK, JobType
  <2>. QED BY <2>1, LeadsJobs
<1>8. CASE RefundRowFails(t) \/ CreditFails(t)
  BY <1>2, <1>8, LeadsJobs DEF RefundRowFails, CreditFails
<1>9. CASE CreditWallet(t)
  <2>1. Leads(t, {"approve", "flip"}) BY <1>9, <1>1 DEF CreditWallet, Leads, At, JobOK, JobType
  <2>. QED BY <2>1, LeadsJobs
<1>10. CASE FinalizeApproved(t) \/ FinalizeFails(t)
  <2>1. Leads(t, {"flip"})
    BY <1>10, <1>1 DEF FinalizeApproved, FinalizeFails, AfterRecord, Leads, At, JobOK, JobType
  <2>. QED BY <2>1, LeadsJobs
<1>11. CASE FlipOrder(t)
  <2>1. Leads(t, {"close"}) BY <1>11, <1>1 DEF FlipOrder, Leads, At, JobOK, JobType
  <2>. QED BY <2>1, LeadsJobs
<1>12. CASE MarkOrderRefunded(t)
  <2>1. Leads(t, {"flip"}) BY <1>12, <1>1 DEF MarkOrderRefunded, Leads, At, JobOK, JobType
  <2>. QED BY <2>1, LeadsJobs
<1>. QED BY <1>3, <1>4, <1>5, <1>6, <1>7, <1>8, <1>9, <1>10, <1>11, <1>12 DEF Step

(* Every action writes values its columns may hold.                        *)
RowsOK ==
  /\ order \in [status : {"DELIVERED", "REFUNDED"}, payStatus : {"PENDING", "PAID", "REFUNDED"}]
  /\ payment \in {"NONE", "PAID", "REFUNDED"}
  /\ gateway \in 0..Total
  /\ req \in [Reqs -> [status : ReqStatus, full : BOOLEAN]]
  /\ paid \in [Reqs -> Nat] /\ direct \in Nat
  /\ broken \subseteq Reqs

(* Beginning, cancelling and crashing write no column but the status.      *)
LEMMA HandlerRows ==
  ASSUME StateInv,
         (\E r \in Reqs : CancelByCustomer(r)) \/ (\E t \in Tasks : Handler(t) \/ Crash(t))
  PROVE  RowsOK'
<1>1. RowsOK BY DEF StateInv, TypeOK, RowsOK
<1>2. ASSUME NEW r \in Reqs, CancelByCustomer(r) PROVE RowsOK'
  BY <1>1, <1>2 DEF CancelByCustomer, RowsOK, ReqStatus, moneyVars
<1>3. ASSUME NEW t \in Tasks, Handler(t) PROVE RowsOK'
  BY <1>1, <1>3
  DEF Handler, RefundOrder, Approve, Create, Resolve, WebhookRefunded, RowsOK, moneyVars
<1>4. ASSUME NEW t \in Tasks, Crash(t) PROVE RowsOK'
  <2>1. JobOK(task[t]) BY DEF StateInv
  <2>. QED BY <1>1, <1>4, <2>1 DEF Crash, Break, RowsOK, moneyVars, JobOK
<1>. QED BY <1>2, <1>3, <1>4

(* So do the steps of a task.                                              *)
LEMMA StepRows ==
  ASSUME StateInv, NEW t \in Tasks, Step(t)
  PROVE  RowsOK'
<1>. USE DEF moneyVars
<1>1. RowsOK BY DEF StateInv, TypeOK, RowsOK
<1>2. JobOK(task[t]) BY DEF StateInv
<1>3. CASE Insert(t)
  <2>1. CASE req' = req BY <1>1, <1>3, <2>1 DEF Insert, RowsOK
  <2>2. ASSUME NEW full \in BOOLEAN,
               req' = [req EXCEPT ![task[t].req] = [status |-> "PENDING", full |-> full]]
        PROVE  RowsOK'
    BY <1>1, <1>3, <2>2 DEF Insert, RowsOK, ReqStatus
  <2>. QED BY <1>3, <2>1, <2>2 DEF Insert
<1>4. CASE Finalize(t)
  BY <1>1, <1>2, <1>4 DEF Finalize, Finalized, RowsOK, ReqStatus, JobOK, At
<1>5. CASE Claim(t) BY <1>1, <1>2, <1>5 DEF Claim, RowsOK, ReqStatus, JobOK, At
<1>6. CASE RefundCheck(t) BY <1>1, <1>6 DEF RefundCheck, RowsOK
<1>7. CASE RefundCall(t)
  <2>1. AmountOf(t) \in Nat BY ConstantsAssumption DEF AmountOf, Amount
  <2>2. gateway' \in 0..Total BY <1>1, <1>7, <2>1, ConstantsAssumption DEF RefundCall, RowsOK
  <2>3. paid' \in [Reqs -> Nat] /\ direct' \in Nat
    BY <1>1, <1>2, <1>7 DEF RefundCall, CountPaid, RowsOK
  <2>. QED BY <1>1, <1>7, <2>2, <2>3 DEF RefundCall, RowsOK
<1>8. CASE RefundRow(t) BY <1>1, <1>8 DEF RefundRow, RowsOK
<1>9. CASE RefundRowFails(t) BY <1>1, <1>2, <1>9 DEF RefundRowFails, Break, RowsOK, JobOK
<1>10. CASE CreditWallet(t) BY <1>1, <1>10 DEF CreditWallet, CountPaid, RowsOK
<1>11. CASE CreditFails(t) BY <1>1, <1>2, <1>11 DEF CreditFails, Break, RowsOK, JobOK
<1>12. CASE ReleaseClaim(t) BY <1>1, <1>12 DEF ReleaseClaim, RowsOK, ReqStatus
<1>13. CASE FinalizeApproved(t) BY <1>1, <1>13 DEF FinalizeApproved, Finalized, RowsOK, ReqStatus
<1>14. CASE FinalizeFails(t) BY <1>1, <1>2, <1>14 DEF FinalizeFails, Break, RowsOK, JobOK
<1>15. CASE FlipOrder(t) BY <1>1, <1>15 DEF FlipOrder, RowsOK
<1>16. CASE MarkOrderRefunded(t) BY <1>1, <1>16 DEF MarkOrderRefunded, RowsOK
<1>17. CASE ResolvePendingForOrder(t)
  BY <1>1, <1>17 DEF ResolvePendingForOrder, RowsOK, ReqStatus
<1>. QED
  BY <1>3, <1>4, <1>5, <1>6, <1>7, <1>8, <1>9, <1>10, <1>11, <1>12, <1>13, <1>14, <1>15,
     <1>16, <1>17
  DEF Step

(* StateInv is inductive.                                                  *)
LEMMA StateInvHolds == Spec => []StateInv
<1>1. Init => StateInv
  <2>. SUFFICES ASSUME Init PROVE StateInv OBVIOUS
  <2>1. \A t \in Tasks : JobOK(task[t]) BY IdleOK DEF Init
  <2>2. TypeOK
    BY <2>1, ConstantsAssumption DEF Init, TypeOK, JobOK, ReqStatus
  <2>. QED BY <2>1, <2>2 DEF StateInv
<1>2. StateInv /\ [Next]_vars => StateInv'
  <2>. SUFFICES ASSUME StateInv, [Next]_vars PROVE StateInv' OBVIOUS
  <2>1. CASE UNCHANGED vars BY <2>1 DEF vars, StateInv, TypeOK, JobOK, JobType
  <2>2. CASE \E r \in Reqs : CancelByCustomer(r)
    <3>1. JobsOK' BY <2>2 DEF CancelByCustomer, StateInv, TypeOK, JobsOK
    <3>. QED BY <2>2, <3>1, HandlerRows DEF JobsOK, RowsOK, StateInv, TypeOK
  <2>3. ASSUME NEW t \in Tasks, Handler(t) \/ Crash(t) PROVE StateInv'
    BY <2>3, HandlerJobs, StepJobs, HandlerRows DEF JobsOK, RowsOK, StateInv, TypeOK
  <2>4. ASSUME NEW t \in Tasks, Step(t) PROVE StateInv'
    BY <2>4, StepJobs, StepRows DEF JobsOK, RowsOK, StateInv, TypeOK
  <2>. QED BY <2>1, <2>2, <2>3, <2>4 DEF Next
<1>. QED BY <1>1, <1>2, PTL DEF Spec

(* TypeOK holds for any number of requests and handlers.                   *)
THEOREM TypeCorrect == Spec => []TypeOK
<1>1. StateInv => TypeOK BY DEF StateInv
<1>. QED BY <1>1, StateInvHolds, PTL

-----------------------------------------------------------------------------
(* The claim is exclusive, so that money moves once per claim.             *)

(* A task that moves leaves the others where they are.                     *)
LEMMA OnlyOneMoves ==
  ASSUME StateInv, NEW t \in Tasks, Handler(t) \/ Step(t) \/ Crash(t), NEW u \in Tasks, u # t
  PROVE  task'[u] = task[u]
  BY DEF StateInv, TypeOK, Handler, RefundOrder, Approve, Create, Resolve, WebhookRefunded, Begin,
     Crash, Step, Insert, Finalize, Claim, RefundCheck, RefundCall, RefundRow, RefundRowFails,
     CreditWallet, CreditFails, ReleaseClaim, FinalizeApproved, FinalizeFails, AfterRecord,
     FlipOrder, MarkOrderRefunded, ResolvePendingForOrder, FailToPay, GoTo, Done

(* A step that claims nothing, pays nothing and reopens nothing.           *)
LEMMA QuietStep ==
  ASSUME PayInv, paid' = paid, broken \subseteq broken',
         \A u \in Tasks, r \in Reqs : Paying(u, r)' => Paying(u, r),
         \A u \in Tasks, r \in Reqs \ broken' : Unpaid(u, r)' => Unpaid(u, r),
         \A r \in Reqs : req'[r].status \in {"NONE", "PENDING"} => req[r].status \in {"NONE", "PENDING"}
  PROVE  PayInv'
<1>1. \A t \in Tasks, r \in Reqs : Paying(t, r)' => req'[r].status \notin {"NONE", "PENDING"}
  BY DEF PayInv
<1>2. \A t, u \in Tasks, r \in Reqs : Paying(t, r)' /\ Paying(u, r)' => t = u
  BY DEF PayInv
<1>3. \A r \in Reqs \ broken' :
        req'[r].status \in {"NONE", "PENDING"} \/ (\E t \in Tasks : Unpaid(t, r)') => paid'[r] = 0
  BY DEF PayInv
<1>4. ApprovePaysOnce' BY DEF PayInv, ApprovePaysOnce
<1>. QED BY <1>1, <1>2, <1>3, <1>4 DEF PayInv

(* Handlers begin outside the paying section, and a crash leaves it.       *)
LEMMA PayHandler ==
  ASSUME StateInv, PayInv, NEW t \in Tasks, Handler(t) \/ Crash(t)
  PROVE  PayInv'
<1>1. \A u \in Tasks : u # t => task'[u] = task[u] BY OnlyOneMoves
<1>2. task'[t].kind # "approve" \/ task'[t].at = "claim"
  BY DEF Handler, RefundOrder, Approve, Create, Resolve, WebhookRefunded, Begin, Crash, Done,
     Idle, Job, StateInv, TypeOK
<1>3. paid' = paid /\ req' = req /\ broken \subseteq broken'
  BY DEF Handler, RefundOrder, Approve, Create, Resolve, WebhookRefunded, Crash, Break, moneyVars
<1>4. \A u \in Tasks, r \in Reqs : Paying(u, r)' => u # t BY <1>2 DEF Paying
<1>. QED BY <1>1, <1>3, <1>4, QuietStep DEF Paying, Unpaid

(* The customer's cancel leaves the tasks alone.                           *)
LEMMA PayCancel ==
  ASSUME StateInv, PayInv, NEW q \in Reqs, CancelByCustomer(q)
  PROVE  PayInv'
<1>1. \A r \in Reqs : req'[r].status \in {"NONE", "PENDING"} => req[r].status \in {"NONE", "PENDING"}
  BY DEF CancelByCustomer, StateInv, TypeOK
<1>. QED BY <1>1, QuietStep DEF CancelByCustomer, moneyVars, Paying, Unpaid

(* The claim is taken from PENDING, so nobody else holds it.               *)
LEMMA PayClaim ==
  ASSUME StateInv, PayInv, NEW t \in Tasks, Claim(t)
  PROVE  PayInv'
<1>. DEFINE q == task[t].req
<1>1. \A u \in Tasks : u # t => task'[u] = task[u] BY OnlyOneMoves DEF Step
<1>2. q \in Reqs /\ task[t].kind = "approve" BY DEF StateInv, JobOK, Claim, At
<1>3. paid' = paid /\ broken' = broken BY DEF Claim, moneyVars
<1>4. CASE req[q].status = "PENDING"
  <2>1. /\ req' = [req EXCEPT ![q].status = "PROCESSING"]
        /\ GoTo(t, Pay(task[t].to))
    BY <1>4 DEF Claim
  <2>2. req'[q].status = "PROCESSING" /\ \A r \in Reqs : r # q => req'[r] = req[r]
    BY <2>1, <1>2 DEF StateInv, TypeOK
  <2>3. task'[t].req = q /\ \A r \in Reqs : Paying(t, r)' => r = q
    BY <2>1 DEF GoTo, StateInv, TypeOK, JobType, Paying
  <2>4. \A u \in Tasks, r \in Reqs : u # t => (Paying(u, r)' <=> Paying(u, r)) /\ (Unpaid(u, r)' <=> Unpaid(u, r))
    BY <1>1 DEF Paying, Unpaid
  <2>5. \A u \in Tasks : ~Paying(u, q) BY <1>4, <1>2 DEF PayInv
  <2>6. q \notin broken => paid[q] = 0 BY <1>4, <1>2 DEF PayInv
  <2>7. \A u \in Tasks, r \in Reqs : Paying(u, r)' => req'[r].status \notin {"NONE", "PENDING"}
    BY <2>2, <2>3, <2>4 DEF PayInv
  <2>8. \A u, v \in Tasks, r \in Reqs : Paying(u, r)' /\ Paying(v, r)' => u = v
    BY <2>3, <2>4, <2>5 DEF PayInv
  <2>9. \A r \in Reqs \ broken' :
          req'[r].status \in {"NONE", "PENDING"} \/ (\E u \in Tasks : Unpaid(u, r)') => paid'[r] = 0
    BY <1>3, <2>2, <2>3, <2>4, <2>6 DEF PayInv, Unpaid
  <2>. QED BY <1>3, <2>7, <2>8, <2>9 DEF PayInv, ApprovePaysOnce
<1>5. CASE req[q].status # "PENDING"
  <2>1. req' = req /\ task'[t] = Idle BY <1>5 DEF Claim, Done, StateInv, TypeOK
  <2>2. \A r \in Reqs : ~Paying(t, r)' BY <2>1 DEF Paying, Idle, Job
  <2>. QED BY <1>1, <1>3, <2>1, <2>2, QuietStep DEF Paying, Unpaid
<1>. QED BY <1>4, <1>5

(* The money of an approval moves from the one task that holds the claim.  *)
LEMMA PayMoves ==
  ASSUME StateInv, PayInv, NEW t \in Tasks, CountPaid(t), UNCHANGED <<req, broken>>,
         At(t, "call") \/ At(t, "credit"),
         \E step \in {"row", "approve", "markOrder", "flip"} : GoTo(t, step),
         \A u \in Tasks : u # t => task'[u] = task[u]
  PROVE  PayInv'
<1>. PICK q : q = task[t].req OBVIOUS
<1>1. /\ task'[t].kind = task[t].kind /\ task'[t].req = q
      /\ task'[t].at \in {"row", "approve", "markOrder", "flip"}
  BY DEF GoTo, StateInv, TypeOK, JobType
<1>2. \A u \in Tasks, r \in Reqs : Paying(u, r)' => Paying(u, r)
  BY <1>1 DEF Paying, At
<1>3. \A u \in Tasks, r \in Reqs : Unpaid(u, r)' => u # t /\ Unpaid(u, r)
  BY <1>1 DEF Unpaid, Paying
<1>4. CASE task[t].kind # "approve"
  BY <1>2, <1>3, <1>4, QuietStep DEF CountPaid
<1>5. CASE task[t].kind = "approve"
  <2>1. q \in Reqs /\ Paying(t, q) /\ Unpaid(t, q)
    BY <1>5 DEF StateInv, JobOK, Paying, Unpaid, At
  <2>2. paid'[q] = paid[q] + 1 /\ \A r \in Reqs : r # q => paid'[r] = paid[r]
    BY <1>5, <2>1 DEF CountPaid, StateInv, TypeOK
  <2>3. q \notin broken => paid[q] = 0 BY <2>1 DEF PayInv
  <2>4. req[q].status \notin {"NONE", "PENDING"} BY <2>1 DEF PayInv
  <2>5. \A u \in Tasks : ~Unpaid(u, q)' BY <1>3, <2>1 DEF PayInv, Unpaid
  <2>6. \A r \in Reqs \ broken' :
          req'[r].status \in {"NONE", "PENDING"} \/ (\E u \in Tasks : Unpaid(u, r)') => paid'[r] = 0
    BY <1>3, <2>2, <2>4, <2>5 DEF PayInv
  <2>7. ApprovePaysOnce' BY <2>2, <2>3 DEF PayInv, ApprovePaysOnce
  <2>. QED BY <1>2, <2>6, <2>7 DEF PayInv
<1>. QED BY <1>4, <1>5

(* A failed payment leads to the release, or out of the paying section.    *)
LEMMA FailToPayStays ==
  ASSUME StateInv, NEW t \in Tasks, FailToPay(t),
         At(t, "check") \/ At(t, "call") \/ At(t, "row") \/ At(t, "credit")
  PROVE  /\ \A r \in Reqs : Paying(t, r)' => Paying(t, r)
         /\ \A r \in Reqs : Paying(t, r)' => task[t].kind = "approve" /\ task[t].req = r
         /\ \A r \in Reqs : ~At(t, "row") => (Unpaid(t, r)' => Unpaid(t, r))
<1>1. CASE GoTo(t, "release")
  <2>1. task'[t].kind = task[t].kind /\ task'[t].req = task[t].req /\ task'[t].at = "release"
    BY <1>1 DEF GoTo, StateInv, TypeOK, JobType
  <2>. QED BY <2>1 DEF Paying, Unpaid, At
<1>2. CASE Done(t)
  <2>1. task'[t] = Idle BY <1>2 DEF Done, StateInv, TypeOK
  <2>. QED BY <2>1 DEF Paying, Unpaid, Idle, Job
<1>. QED BY <1>1, <1>2 DEF FailToPay

(* A release gives the claim back unpaid, and only its holder releases it. *)
LEMMA PayRelease ==
  ASSUME StateInv, PayInv, NEW t \in Tasks, ReleaseClaim(t)
  PROVE  PayInv'
<1>. PICK q : q = task[t].req OBVIOUS
<1>1. \A u \in Tasks : u # t => task'[u] = task[u] BY OnlyOneMoves DEF Step
<1>2. q \in Reqs /\ Paying(t, q) /\ Unpaid(t, q)
  BY DEF StateInv, JobOK, ReleaseClaim, At, Paying, Unpaid
<1>3. paid' = paid /\ broken' = broken BY DEF ReleaseClaim, moneyVars
<1>4. \A r \in Reqs : ~Paying(t, r)'
  BY DEF ReleaseClaim, Done, StateInv, TypeOK, Paying, Idle, Job
<1>5. \A u \in Tasks : ~Paying(u, q)' BY <1>1, <1>2, <1>4 DEF PayInv, Paying
<1>6. \A r \in Reqs : r # q => req'[r] = req[r]
  BY <1>2 DEF ReleaseClaim, StateInv, TypeOK
<1>7. \A u \in Tasks, r \in Reqs : Paying(u, r)' => Paying(u, r) /\ r # q /\ u # t
  BY <1>1, <1>4, <1>5 DEF Paying
<1>8. \A u \in Tasks, r \in Reqs : Unpaid(u, r)' => Unpaid(u, r) /\ r # q
  BY <1>1, <1>7 DEF Unpaid
<1>9. q \notin broken => paid[q] = 0 BY <1>2 DEF PayInv
<1>10. \A u \in Tasks, r \in Reqs : Paying(u, r)' => req'[r].status \notin {"NONE", "PENDING"}
  BY <1>6, <1>7 DEF PayInv
<1>11. \A u, v \in Tasks, r \in Reqs : Paying(u, r)' /\ Paying(v, r)' => u = v
  BY <1>7 DEF PayInv
<1>12. \A r \in Reqs \ broken' :
         req'[r].status \in {"NONE", "PENDING"} \/ (\E u \in Tasks : Unpaid(u, r)') => paid'[r] = 0
  BY <1>3, <1>6, <1>8, <1>9 DEF PayInv
<1>. QED BY <1>3, <1>10, <1>11, <1>12 DEF PayInv, ApprovePaysOnce

(* What is left neither claims, nor pays, nor reopens.                     *)
LEMMA PayStep ==
  ASSUME StateInv, PayInv, NEW t \in Tasks, Step(t)
  PROVE  PayInv'
<1>1. \A u \in Tasks : u # t => task'[u] = task[u] BY OnlyOneMoves
<1>2. ASSUME \A r \in Reqs : Paying(t, r)' => Paying(t, r),
             \A r \in Reqs \ broken' : Unpaid(t, r)' => Unpaid(t, r),
             \A r \in Reqs : req'[r].status \in {"NONE", "PENDING"} => req[r].status \in {"NONE", "PENDING"},
             paid' = paid, broken \subseteq broken'
      PROVE PayInv'
  BY <1>1, <1>2, QuietStep DEF Paying, Unpaid
<1>3. ASSUME Done(t) PROVE \A r \in Reqs : ~Paying(t, r)'
  BY <1>3 DEF Done, StateInv, TypeOK, Paying, Idle, Job
<1>4. ASSUME NEW step, GoTo(t, step)
      PROVE  task'[t].kind = task[t].kind /\ task'[t].req = task[t].req /\ task'[t].at = step
  BY <1>4 DEF GoTo, StateInv, TypeOK, JobType
<1>5. JobOK(task[t]) BY DEF StateInv
<1>6. CASE Insert(t)
  <2>1. \A r \in Reqs : req'[r].status \in {"NONE", "PENDING"} => req[r].status \in {"NONE", "PENDING"}
    <3>1. CASE req' = req BY <3>1
    <3>2. CASE req[task[t].req].status = "NONE"
      BY <1>6, <3>2 DEF Insert, StateInv, TypeOK
    <3>. QED BY <1>6, <3>1, <3>2 DEF Insert
  <2>. QED BY <1>2, <1>3, <1>6, <2>1 DEF Insert, moneyVars, Unpaid
<1>7. CASE Finalize(t)
  <2>1. \A r \in Reqs : req'[r].status \in {"NONE", "PENDING"} => req[r].status \in {"NONE", "PENDING"}
    BY <1>5, <1>7 DEF Finalize, Finalized, JobOK, At, StateInv, TypeOK
  <2>. QED BY <1>2, <1>3, <1>7, <2>1 DEF Finalize, moneyVars, Unpaid
<1>8. CASE Claim(t) BY <1>8, PayClaim
<1>9. CASE RefundCheck(t)
  <2>1. CASE GoTo(t, "call")
    BY <1>2, <1>4, <1>9, <2>1 DEF RefundCheck, moneyVars, Paying, Unpaid, At
  <2>2. CASE FailToPay(t)
    BY <1>2, <1>9, <2>2, FailToPayStays DEF RefundCheck, moneyVars, At
  <2>. QED BY <1>9, <2>1, <2>2 DEF RefundCheck
<1>10. CASE RefundCall(t)
  <2>1. CASE CountPaid(t) /\ GoTo(t, "row")
    BY <1>1, <1>10, <2>1, PayMoves DEF RefundCall
  <2>2. CASE UNCHANGED paid /\ FailToPay(t)
    BY <1>2, <1>10, <2>2, FailToPayStays DEF RefundCall, At
  <2>. QED BY <1>10, <2>1, <2>2 DEF RefundCall
<1>11. CASE RefundRow(t)
  <2>1. /\ task'[t].kind = task[t].kind /\ task'[t].req = task[t].req
        /\ task'[t].at \in {"approve", "markOrder"}
    BY <1>4, <1>11 DEF RefundRow
  <2>. QED BY <1>2, <1>11, <2>1 DEF RefundRow, Paying, Unpaid, At
<1>12. CASE RefundRowFails(t)
  <2>1. \A r \in Reqs \ broken' : ~Paying(t, r)'
    BY <1>12, FailToPayStays DEF RefundRowFails, Break, At
  <2>. QED BY <1>2, <1>12, <2>1, FailToPayStays DEF RefundRowFails, Break, moneyVars, Unpaid, At
<1>13. CASE CreditWallet(t)
  <2>1. \E step \in {"row", "approve", "markOrder", "flip"} : GoTo(t, step)
    BY <1>13 DEF CreditWallet
  <2>. QED BY <1>1, <1>13, <2>1, PayMoves DEF CreditWallet
<1>14. CASE CreditFails(t)
  BY <1>2, <1>14, FailToPayStays DEF CreditFails, Break, moneyVars, At
<1>15. CASE ReleaseClaim(t) BY <1>15, PayRelease
<1>16. ASSUME AfterRecord(t) PROVE \A r \in Reqs : ~Paying(t, r)'
  BY <1>3, <1>4, <1>16 DEF AfterRecord, Paying
<1>17. CASE FinalizeApproved(t)
  <2>1. \A r \in Reqs : req'[r].status \in {"NONE", "PENDING"} => req[r].status \in {"NONE", "PENDING"}
    BY <1>17 DEF FinalizeApproved, Finalized, StateInv, TypeOK
  <2>. QED BY <1>2, <1>16, <1>17, <2>1 DEF FinalizeApproved, moneyVars, Unpaid
<1>18. CASE FinalizeFails(t)
  BY <1>2, <1>16, <1>18 DEF FinalizeFails, Break, moneyVars, Unpaid
<1>19. CASE FlipOrder(t)
  BY <1>2, <1>3, <1>4, <1>19 DEF FlipOrder, moneyVars, Paying, Unpaid
<1>20. CASE MarkOrderRefunded(t)
  BY <1>2, <1>3, <1>4, <1>20 DEF MarkOrderRefunded, moneyVars, Paying, Unpaid
<1>21. CASE ResolvePendingForOrder(t)
  <2>1. \A r \in Reqs : req'[r].status \in {"NONE", "PENDING"} => req[r].status \in {"NONE", "PENDING"}
    BY <1>21 DEF ResolvePendingForOrder, StateInv, TypeOK
  <2>. QED BY <1>2, <1>3, <1>21, <2>1 DEF ResolvePendingForOrder, moneyVars, Unpaid
<1>. QED
  BY <1>6, <1>7, <1>8, <1>9, <1>10, <1>11, <1>12, <1>13, <1>14, <1>15, <1>17, <1>18, <1>19,
     <1>20, <1>21
  DEF Step

(* PayInv is inductive relative to StateInv.                               *)
LEMMA PayInvHolds == Spec => []PayInv
<1>1. Init => PayInv
  BY DEF Init, PayInv, Paying, Unpaid, Idle, Job, ApprovePaysOnce
<1>2. StateInv /\ PayInv /\ [Next]_vars => PayInv'
  <2>. SUFFICES ASSUME StateInv, PayInv, [Next]_vars PROVE PayInv' OBVIOUS
  <2>1. CASE UNCHANGED vars BY <2>1 DEF vars, PayInv, Paying, Unpaid, ApprovePaysOnce
  <2>. QED BY <2>1, PayCancel, PayHandler, PayStep DEF Next
<1>. QED BY <1>1, <1>2, StateInvHolds, PTL DEF Spec

(* However many handlers race over however many requests, an approval that *)
(* does not break pays its request at most once.                           *)
LEMMA ApprovePaysOnceHolds == Spec => []ApprovePaysOnce
<1>1. PayInv => ApprovePaysOnce BY DEF PayInv
<1>. QED BY <1>1, PayInvHolds, PTL

-----------------------------------------------------------------------------
(* A resolved request stays resolved: every write of a status starts from  *)
(* NONE, PENDING or PROCESSING.                                            *)
LEMMA ResolvedStays ==
  ASSUME StateInv, [Next]_vars, NEW r \in Reqs, req[r].status \in Final
  PROVE  req'[r].status = req[r].status
<1>. USE DEF Final, moneyVars
<1>1. CASE UNCHANGED vars BY <1>1 DEF vars
<1>2. ASSUME NEW q \in Reqs, CancelByCustomer(q) PROVE req'[r].status = req[r].status
  BY <1>2 DEF CancelByCustomer, StateInv, TypeOK
<1>3. ASSUME NEW t \in Tasks, Handler(t) \/ Crash(t) PROVE req'[r].status = req[r].status
  BY <1>3 DEF Handler, RefundOrder, Approve, Create, Resolve, WebhookRefunded, Crash
<1>4. ASSUME NEW t \in Tasks, Step(t) PROVE req'[r].status = req[r].status
  <2>1. CASE Insert(t)
    <3>1. CASE req' = req BY <3>1
    <3>2. CASE req[task[t].req].status = "NONE" BY <2>1, <3>2 DEF Insert, StateInv, TypeOK
    <3>. QED BY <2>1, <3>1, <3>2 DEF Insert
  <2>2. CASE Finalize(t) \/ FinalizeApproved(t)
    BY <2>2 DEF Finalize, FinalizeApproved, Finalized, Unresolved, StateInv, TypeOK
  <2>3. CASE Claim(t) \/ ReleaseClaim(t)
    BY <2>3 DEF Claim, ReleaseClaim, StateInv, TypeOK
  <2>4. CASE ResolvePendingForOrder(t)
    BY <2>4 DEF ResolvePendingForOrder, Unresolved, StateInv, TypeOK
  <2>5. CASE \/ RefundCheck(t) \/ RefundCall(t) \/ RefundRow(t) \/ RefundRowFails(t)
             \/ CreditWallet(t) \/ CreditFails(t) \/ FinalizeFails(t)
             \/ FlipOrder(t) \/ MarkOrderRefunded(t)
    BY <2>5 DEF RefundCheck, RefundCall, RefundRow, RefundRowFails, CreditWallet, CreditFails,
       FinalizeFails, FlipOrder, MarkOrderRefunded
  <2>. QED BY <1>4, <2>1, <2>2, <2>3, <2>4, <2>5 DEF Step
<1>. QED BY <1>1, <1>2, <1>3, <1>4 DEF Next

(* No handler, however late, reopens or re-resolves a resolved request.    *)
THEOREM ResolutionSticksHolds == Spec => ResolutionSticks
<1>1. StateInv /\ [Next]_vars => [\A r \in Reqs : req[r].status \in Final => req'[r].status = req[r].status]_vars
  BY ResolvedStays
<1>. QED BY <1>1, StateInvHolds, PTL DEF Spec, ResolutionSticks

-----------------------------------------------------------------------------
(* What the rows say is backed by money that moved.                        *)

(* The money counters never fall.                                          *)
LEMMA MoneyGrows ==
  ASSUME StateInv, [Next]_vars
  PROVE  direct' >= direct /\ \A r \in Reqs : paid'[r] >= paid[r]
<1>. USE DEF moneyVars
<1>1. direct \in Nat /\ paid \in [Reqs -> Nat] BY DEF StateInv, TypeOK
<1>2. ASSUME UNCHANGED <<paid, direct>> PROVE direct' >= direct /\ \A r \in Reqs : paid'[r] >= paid[r]
  BY <1>1, <1>2
<1>3. ASSUME NEW t \in Tasks, CountPaid(t) PROVE direct' >= direct /\ \A r \in Reqs : paid'[r] >= paid[r]
  BY <1>1, <1>3 DEF CountPaid
<1>4. CASE UNCHANGED vars BY <1>2, <1>4 DEF vars
<1>5. ASSUME NEW q \in Reqs, CancelByCustomer(q) PROVE UNCHANGED <<paid, direct>>
  BY <1>5 DEF CancelByCustomer
<1>6. ASSUME NEW t \in Tasks, Handler(t) \/ Crash(t) PROVE UNCHANGED <<paid, direct>>
  BY <1>6 DEF Handler, RefundOrder, Approve, Create, Resolve, WebhookRefunded, Crash
<1>7. ASSUME NEW t \in Tasks, Step(t) PROVE UNCHANGED <<paid, direct>> \/ CountPaid(t)
  BY <1>7 DEF Step, Insert, Finalize, Claim, RefundCheck, RefundCall, RefundRow, RefundRowFails,
     CreditWallet, CreditFails, ReleaseClaim, FinalizeApproved, FinalizeFails, FlipOrder,
     MarkOrderRefunded, ResolvePendingForOrder
<1>. QED BY <1>2, <1>3, <1>4, <1>5, <1>6, <1>7 DEF Next

(* A task reaches a step that needs backing only backed.                   *)
LEMMA StaysBacked ==
  ASSUME StateInv, MoneyInv, NEW t \in Tasks, Handler(t) \/ Step(t) \/ Crash(t)
  PROVE  /\ task'[t].kind = "approve" /\ task'[t].at \in {"row", "approve"} => paid'[task'[t].req] > 0
         /\ task'[t].kind = "direct" /\ task'[t].at \in {"row", "markOrder", "flip", "close"}
              => direct' > 0
<1>. DEFINE Goal ==
       /\ task'[t].kind = "approve" /\ task'[t].at \in {"row", "approve"} => paid'[task'[t].req] > 0
       /\ task'[t].kind = "direct" /\ task'[t].at \in {"row", "markOrder", "flip", "close"}
            => direct' > 0
<1>1. JobOK(task[t]) /\ direct \in Nat /\ paid \in [Reqs -> Nat] BY DEF StateInv, TypeOK
<1>2. ASSUME Done(t) PROVE Goal
  BY <1>2 DEF Done, StateInv, TypeOK, Idle, Job
<1>3. ASSUME NEW step, GoTo(t, step)
      PROVE  task'[t].kind = task[t].kind /\ task'[t].req = task[t].req /\ task'[t].at = step
  BY <1>3 DEF GoTo, StateInv, TypeOK, JobType
<1>4. ASSUME FailToPay(t) PROVE Goal BY <1>2, <1>3, <1>4 DEF FailToPay
<1>5. ASSUME AfterRecord(t), At(t, "approve") PROVE Goal
  BY <1>1, <1>2, <1>3, <1>5 DEF AfterRecord, JobOK, At
<1>6. CASE Handler(t)
  BY <1>6 DEF Handler, RefundOrder, Approve, Create, Resolve, WebhookRefunded, Begin, Job, Pay,
     StateInv, TypeOK
<1>7. CASE RefundCall(t) \/ CreditWallet(t)
  <2>1. CASE CountPaid(t) /\ \E step \in {"row", "approve", "flip"} : GoTo(t, step)
    BY <1>1, <1>3, <2>1 DEF CountPaid, JobOK
  <2>. QED BY <1>4, <1>7, <2>1 DEF RefundCall, CreditWallet
<1>8. CASE RefundRow(t)
  BY <1>1, <1>3, <1>8 DEF RefundRow, MoneyInv, At, JobOK
<1>9. CASE FlipOrder(t) \/ MarkOrderRefunded(t)
  BY <1>1, <1>2, <1>3, <1>9 DEF FlipOrder, MarkOrderRefunded, moneyVars, MoneyInv, At, JobOK
<1>10. CASE Claim(t)
  BY <1>1, <1>2, <1>3, <1>10 DEF Claim, Pay
<1>11. CASE RefundCheck(t)
  BY <1>2, <1>3, <1>4, <1>11 DEF RefundCheck
<1>. QED
  BY <1>2, <1>4, <1>5, <1>6, <1>7, <1>8, <1>9, <1>10, <1>11
  DEF Step, Crash, Insert, Finalize, ReleaseClaim, RefundRowFails, CreditFails, FinalizeApproved,
      FinalizeFails, ResolvePendingForOrder

(* A request becomes APPROVED only at the hands of a backed task.          *)
LEMMA ApprovedBacked ==
  ASSUME StateInv, MoneyInv, [Next]_vars, NEW r \in Reqs,
         req'[r].status = "APPROVED", req[r].status # "APPROVED"
  PROVE  paid[r] > 0 \/ direct > 0
<1>. USE DEF moneyVars
<1>1. ASSUME NEW q \in Reqs, CancelByCustomer(q) PROVE FALSE
  BY <1>1 DEF CancelByCustomer, StateInv, TypeOK
<1>2. ASSUME NEW t \in Tasks, Handler(t) \/ Crash(t) PROVE FALSE
  BY <1>2 DEF Handler, RefundOrder, Approve, Create, Resolve, WebhookRefunded, Crash
<1>3. ASSUME NEW t \in Tasks, Step(t) PROVE paid[r] > 0 \/ direct > 0
  <2>1. JobOK(task[t]) BY DEF StateInv
  <2>2. CASE Insert(t)
    <3>1. CASE req' = req BY <3>1
    <3>2. ASSUME NEW full, req' = [req EXCEPT ![task[t].req] = [status |-> "PENDING", full |-> full]]
          PROVE  FALSE
      BY <3>2 DEF StateInv, TypeOK
    <3>. QED BY <2>2, <3>1, <3>2 DEF Insert
  <2>3. CASE Finalize(t)
    BY <2>1, <2>3 DEF Finalize, Finalized, JobOK, At, StateInv, TypeOK
  <2>4. CASE FinalizeApproved(t)
    BY <2>1, <2>4 DEF FinalizeApproved, Finalized, JobOK, At, StateInv, TypeOK, MoneyInv
  <2>5. CASE Claim(t) \/ ReleaseClaim(t)
    BY <2>5 DEF Claim, ReleaseClaim, StateInv, TypeOK
  <2>6. CASE ResolvePendingForOrder(t)
    BY <2>1, <2>6 DEF ResolvePendingForOrder, JobOK, At, MoneyInv
  <2>7. CASE \/ RefundCheck(t) \/ RefundCall(t) \/ RefundRow(t) \/ RefundRowFails(t)
             \/ CreditWallet(t) \/ CreditFails(t) \/ FinalizeFails(t)
             \/ FlipOrder(t) \/ MarkOrderRefunded(t)
    BY <2>7 DEF RefundCheck, RefundCall, RefundRow, RefundRowFails, CreditWallet, CreditFails,
       FinalizeFails, FlipOrder, MarkOrderRefunded
  <2>. QED BY <1>3, <2>2, <2>3, <2>4, <2>5, <2>6, <2>7 DEF Step
<1>. QED BY <1>1, <1>2, <1>3 DEF Next, vars

(* MoneyInv is inductive relative to StateInv.                             *)
LEMMA MoneyInvHolds == Spec => []MoneyInv
<1>1. Init => MoneyInv
  BY DEF Init, MoneyInv, Idle, Job, ApprovedWasPaid
<1>2. StateInv /\ StateInv' /\ MoneyInv /\ [Next]_vars => MoneyInv'
  <2>. SUFFICES ASSUME StateInv, StateInv', MoneyInv, [Next]_vars PROVE MoneyInv' OBVIOUS
  <2>1. /\ direct \in Nat /\ direct' \in Nat /\ direct' >= direct
        /\ \A r \in Reqs : paid[r] \in Nat /\ paid'[r] \in Nat /\ paid'[r] >= paid[r]
    BY MoneyGrows DEF StateInv, TypeOK
  <2>2. ASSUME NEW t \in Tasks, task'[t] = task[t]
        PROVE  /\ task'[t].kind = "approve" /\ task'[t].at \in {"row", "approve"} => paid'[task'[t].req] > 0
               /\ task'[t].kind = "direct" /\ task'[t].at \in {"row", "markOrder", "flip", "close"}
                    => direct' > 0
    BY <2>1, <2>2 DEF MoneyInv, StateInv, JobOK
  <2>3. ASSUME NEW t \in Tasks
        PROVE  /\ task'[t].kind = "approve" /\ task'[t].at \in {"row", "approve"} => paid'[task'[t].req] > 0
               /\ task'[t].kind = "direct" /\ task'[t].at \in {"row", "markOrder", "flip", "close"}
                    => direct' > 0
    <3>1. CASE UNCHANGED vars \/ \E q \in Reqs : CancelByCustomer(q)
      BY <2>2, <3>1 DEF vars, CancelByCustomer
    <3>2. ASSUME NEW u \in Tasks, Handler(u) \/ Step(u) \/ Crash(u), u # t PROVE task'[t] = task[t]
      BY <3>2, OnlyOneMoves
    <3>. QED BY <2>2, <3>1, <3>2, StaysBacked DEF Next
  <2>4. ApprovedWasPaid' BY <2>1, ApprovedBacked DEF MoneyInv, ApprovedWasPaid
  <2>. QED BY <2>3, <2>4 DEF MoneyInv
<1>. QED BY <1>1, <1>2, StateInvHolds, PTL DEF Spec

(* A request that says APPROVED was paid, by its own approval or by a      *)
(* direct refund, for any number of handlers and with faults.              *)
LEMMA ApprovedWasPaidHolds == Spec => []ApprovedWasPaid
<1>1. MoneyInv => ApprovedWasPaid BY DEF MoneyInv
<1>. QED BY <1>1, MoneyInvHolds, PTL

(* Approving pays once, and what says APPROVED was paid.                   *)
THEOREM ApprovedPaidOnceHolds == Spec => []ApprovedPaidOnce
<1>1. ApprovePaysOnce /\ ApprovedWasPaid => ApprovedPaidOnce BY DEF ApprovedPaidOnce
<1>. QED BY <1>1, ApprovePaysOnceHolds, ApprovedWasPaidHolds, PTL

-----------------------------------------------------------------------------
(* A claim has an owner.                                                   *)

(* The owner of a claim keeps at it, gives it up, records it or breaks.    *)
LEMMA OwnerMoves ==
  ASSUME StateInv, NEW t \in Tasks, Handler(t) \/ Step(t) \/ Crash(t), NEW r \in Reqs,
         Paying(t, r)
  PROVE  Paying(t, r)' \/ req'[r].status # "PROCESSING" \/ r \in broken'
<1>1. /\ task[t].kind = "approve" /\ task[t].req = r
      /\ task[t].at \in {"check", "call", "row", "credit", "approve", "release"}
  BY DEF Paying
<1>2. ASSUME NEW step, GoTo(t, step)
      PROVE  task'[t].kind = task[t].kind /\ task'[t].req = task[t].req /\ task'[t].at = step
  BY <1>2 DEF GoTo, StateInv, TypeOK, JobType
<1>3. ASSUME FailToPay(t) PROVE Paying(t, r)'
  BY <1>1, <1>2, <1>3 DEF FailToPay, Paying
<1>4. CASE Handler(t)
  BY <1>1, <1>4 DEF Handler, RefundOrder, Approve, Create, Resolve, WebhookRefunded, Begin, Idle, Job
<1>5. CASE Crash(t) \/ RefundRowFails(t) \/ CreditFails(t) \/ FinalizeFails(t)
  BY <1>1, <1>5 DEF Crash, RefundRowFails, CreditFails, FinalizeFails, Break
<1>6. CASE RefundCheck(t) \/ RefundCall(t)
  BY <1>1, <1>2, <1>3, <1>6 DEF RefundCheck, RefundCall, Paying
<1>7. CASE RefundRow(t) \/ CreditWallet(t)
  BY <1>1, <1>2, <1>7 DEF RefundRow, CreditWallet, Paying
<1>8. CASE ReleaseClaim(t)
  BY <1>1, <1>8 DEF ReleaseClaim, StateInv, TypeOK
<1>9. CASE FinalizeApproved(t)
  BY <1>1, <1>9 DEF FinalizeApproved, Finalized, Unresolved, StateInv, TypeOK
<1>10. CASE \/ Insert(t) \/ Finalize(t) \/ Claim(t) \/ FlipOrder(t) \/ MarkOrderRefunded(t)
            \/ ResolvePendingForOrder(t)
  BY <1>1, <1>10 DEF Insert, Finalize, Claim, FlipOrder, MarkOrderRefunded, ResolvePendingForOrder, At
<1>. QED BY <1>4, <1>5, <1>6, <1>7, <1>8, <1>9, <1>10 DEF Step

(* Only a claim makes a request PROCESSING, and its task owns it.          *)
LEMMA ClaimsOwned ==
  ASSUME StateInv, [Next]_vars, NEW r \in Reqs,
         req[r].status # "PROCESSING", req'[r].status = "PROCESSING"
  PROVE  \E t \in Tasks : Paying(t, r)'
<1>. USE DEF moneyVars
<1>1. ASSUME NEW q \in Reqs, CancelByCustomer(q) PROVE FALSE
  BY <1>1 DEF CancelByCustomer, StateInv, TypeOK
<1>2. ASSUME NEW t \in Tasks, Handler(t) \/ Crash(t) PROVE FALSE
  BY <1>2 DEF Handler, RefundOrder, Approve, Create, Resolve, WebhookRefunded, Crash
<1>3. ASSUME NEW t \in Tasks, Step(t) PROVE Paying(t, r)'
  <2>1. JobOK(task[t]) BY DEF StateInv
  <2>2. CASE Insert(t)
    <3>1. CASE req' = req BY <3>1
    <3>2. ASSUME NEW full, req' = [req EXCEPT ![task[t].req] = [status |-> "PENDING", full |-> full]]
          PROVE  FALSE
      BY <3>2 DEF StateInv, TypeOK
    <3>. QED BY <2>2, <3>1, <3>2 DEF Insert
  <2>3. CASE Finalize(t)
    BY <2>1, <2>3 DEF Finalize, Finalized, JobOK, At, StateInv, TypeOK
  <2>7. CASE FinalizeApproved(t) BY <2>7 DEF FinalizeApproved, Finalized, StateInv, TypeOK
  <2>8. CASE ReleaseClaim(t) BY <2>8 DEF ReleaseClaim, StateInv, TypeOK
  <2>4. CASE Claim(t)
    <3>1. task[t].req = r /\ task[t].kind = "approve" /\ GoTo(t, Pay(task[t].to))
      BY <2>1, <2>4 DEF Claim, JobOK, At, StateInv, TypeOK
    <3>2. task'[t].kind = task[t].kind /\ task'[t].req = task[t].req /\ task'[t].at \in {"check", "credit"}
      BY <3>1 DEF GoTo, Pay, StateInv, TypeOK, JobType
    <3>. QED BY <3>1, <3>2 DEF Paying
  <2>5. CASE ResolvePendingForOrder(t)
    BY <2>5 DEF ResolvePendingForOrder, StateInv, TypeOK
  <2>6. CASE \/ RefundCheck(t) \/ RefundCall(t) \/ RefundRow(t) \/ RefundRowFails(t)
             \/ CreditWallet(t) \/ CreditFails(t) \/ FinalizeFails(t)
             \/ FlipOrder(t) \/ MarkOrderRefunded(t)
    BY <2>6 DEF RefundCheck, RefundCall, RefundRow, RefundRowFails, CreditWallet, CreditFails,
       FinalizeFails, FlipOrder, MarkOrderRefunded
  <2>. QED BY <1>3, <2>2, <2>3, <2>4, <2>5, <2>6, <2>7, <2>8 DEF Step
<1>. QED BY <1>1, <1>2, <1>3 DEF Next, vars

(* A request that broke stays broken.                                      *)
LEMMA BrokenGrows == [Next]_vars => broken \subseteq broken'
  BY DEF Next, vars, CancelByCustomer, Handler, RefundOrder, Approve, Create, Resolve,
     WebhookRefunded, Crash, Break, Step, Insert, Finalize, Claim, RefundCheck, RefundCall, RefundRow,
     RefundRowFails, CreditWallet, CreditFails, ReleaseClaim, FinalizeApproved, FinalizeFails,
     FlipOrder, MarkOrderRefunded, ResolvePendingForOrder

(* While a request says PROCESSING, an approval is at work on it, unless   *)
(* one of its approvals broke: no legal sequence of calls strands a claim. *)
THEOREM ClaimHasOwnerHolds == Spec => []ClaimHasOwner
<1>1. Init => ClaimHasOwner BY DEF Init, ClaimHasOwner
<1>2. StateInv /\ ClaimHasOwner /\ [Next]_vars => ClaimHasOwner'
  <2>. SUFFICES ASSUME StateInv, ClaimHasOwner, [Next]_vars,
                       NEW r \in Reqs \ broken', req'[r].status = "PROCESSING"
                PROVE  \E t \in Tasks : Paying(t, r)'
    BY DEF ClaimHasOwner
  <2>1. CASE req[r].status # "PROCESSING" BY <2>1, ClaimsOwned
  <2>2. CASE req[r].status = "PROCESSING"
    <3>1. PICK u \in Tasks : Paying(u, r) BY <2>2, BrokenGrows DEF ClaimHasOwner
    <3>2. CASE UNCHANGED vars \/ \E q \in Reqs : CancelByCustomer(q)
      BY <3>1, <3>2 DEF vars, CancelByCustomer, Paying
    <3>3. ASSUME NEW t \in Tasks, Handler(t) \/ Step(t) \/ Crash(t) PROVE Paying(u, r)'
      <4>1. CASE t = u BY <3>1, <3>3, <4>1, OwnerMoves
      <4>2. CASE t # u BY <3>1, <3>3, <4>2, OnlyOneMoves DEF Paying
      <4>. QED BY <4>1, <4>2
    <3>. QED BY <3>2, <3>3 DEF Next
  <2>. QED BY <2>1, <2>2
<1>. QED BY <1>1, <1>2, StateInvHolds, PTL DEF Spec
=============================================================================

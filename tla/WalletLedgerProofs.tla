------------------------- MODULE WalletLedgerProofs -------------------------
(***************************************************************************)
(* Safety of WalletLedger for any number of users, top-ups, orders and     *)
(* requests.  StateInv says what a task holds at each step, LockInv that   *)
(* a transfer's wallet is its own and still covers it, TopUpInv follows a  *)
(* top-up from its row to its credit, PayInv an order to its debit.        *)
(***************************************************************************)
EXTENDS WalletLedger, FiniteSetTheorems, TLAPS

(* What a job holds at each step.                                          *)
JobOK(t, j) ==
  /\ j \in JobType
  /\ j.at \in {"insertTopUp", "recipient", "debit", "markPaid"} => t \in Tasks
  /\ j.at \in {"insertTopUp", "complete", "abandon"} => j.topup \in TopUps
  /\ j.at = "recipient" => /\ j.user \in Users /\ j.other \in Users /\ j.user # j.other
                           /\ j.amount \in Amounts
  /\ j.at = "debit" => j.user \in Users /\ j.amount = Price
  /\ j.order # NoOrder <=> j.at \in {"debit", "markPaid"}

StateInv == TypeOK /\ \A t \in Workers : JobOK(t, task[t])

(* A transfer alone holds its sender's wallet, which covers it.            *)
LockInv ==
  /\ \A s, t \in Workers, u \in Users : Holds(s, u) /\ Holds(t, u) => s = t
  /\ \A t \in Workers : At(t, "recipient") => balance[task[t].user] >= task[t].amount

(* A row is inserted once, when Razorpay made its order; only a task that  *)
(* saw a payment completes it.                                             *)
TopUpInv ==
  /\ \A k \in TopUps : topup[k] = "NONE" <=> gateway[k] = "none"
  /\ \A t \in Workers : At(t, "insertTopUp") => topup[task[t].topup] = "NONE"
  /\ \A s, t \in Workers : At(s, "insertTopUp") /\ At(t, "insertTopUp")
                             /\ task[s].topup = task[t].topup => s = t
  /\ \A t \in Workers : At(t, "complete") => Paid(task[t].topup)
  /\ \A t \in Workers : At(t, "abandon") => topup[task[t].topup] # "NONE"
  /\ CreditedOnce
  /\ CreditedWasPaid

(* An order nothing disturbed has one payment in progress, and none once   *)
(* it is paid.                                                             *)
PayInv ==
  \A o \in Orders \ doubtful :
    /\ \A s, t \in Tasks : task[s].order = o /\ task[t].order = o => s = t
    /\ order[o].paid => \A t \in Tasks : task[t].order # o
    /\ debits[o] = IF order[o].paid \/ \E t \in Tasks : task[t].order = o /\ At(t, "markPaid")
                     THEN 1 ELSE 0

-----------------------------------------------------------------------------
(* Jobs.                                                                   *)

(* The idle job is in order.                                               *)
LEMMA IdleOK == \A t : JobOK(t, Idle)
  BY DEF Idle, Job, JobOK, JobType

(* A task that moves is the only one that moves.                           *)
LEMMA OneMoves ==
  ASSUME StateInv, NEW t \in Workers, NEW job, JobOK(t, job),
         task' = [task EXCEPT ![t] = job]
  PROVE  /\ task' \in [Workers -> JobType]
         /\ task'[t] = job
         /\ \A s \in Workers : s # t => task'[s] = task[s]
         /\ \A s \in Workers : JobOK(s, task'[s])
  BY DEF StateInv, TypeOK, JobOK

(* A task that is done is idle.                                            *)
LEMMA DoneTask ==
  ASSUME StateInv, NEW t \in Workers, Done(t)
  PROVE  /\ task' \in [Workers -> JobType]
         /\ task'[t] = Idle
         /\ \A s \in Workers : s # t => task'[s] = task[s]
         /\ \A s \in Workers : JobOK(s, task'[s])
  BY OneMoves, IdleOK DEF Done

JobsOK == task \in [Workers -> JobType] /\ \A t \in Workers : JobOK(t, task[t])

(* The job each request begins with, and the one of a debit that went on.  *)
LEMMA FirstJobs ==
  /\ \A t \in Tasks, k \in TopUps :
       JobOK(t, Job("insertTopUp", Owner[k], NoUser, TopUpAmount, k, NoOrder))
  /\ \A t \in Workers, k \in TopUps : /\ JobOK(t, Completion(k))
                                      /\ JobOK(t, [Completion(k) EXCEPT !.at = "complete"])
                                      /\ JobOK(t, [Completion(k) EXCEPT !.at = "abandon"])
  /\ \A t \in Tasks, u, v \in Users, a \in Amounts :
       u # v => JobOK(t, Job("recipient", u, v, a, NoTopUp, NoOrder))
  /\ \A t \in Tasks, o \in Orders : JobOK(t, Job("debit", Payer[o], NoUser, Price, NoTopUp, o))
<1>1. ASSUME NEW t \in Tasks, NEW k \in TopUps
      PROVE  JobOK(t, Job("insertTopUp", Owner[k], NoUser, TopUpAmount, k, NoOrder))
  BY ConstantsAssumption DEF Job, JobOK, JobType
<1>2. ASSUME NEW t \in Workers, NEW k \in TopUps
      PROVE  /\ JobOK(t, Completion(k))
             /\ JobOK(t, [Completion(k) EXCEPT !.at = "complete"])
             /\ JobOK(t, [Completion(k) EXCEPT !.at = "abandon"])
  BY ConstantsAssumption DEF Job, JobOK, JobType, Completion
<1>3. ASSUME NEW t \in Tasks, NEW u \in Users, NEW v \in Users, NEW a \in Amounts, u # v
      PROVE  JobOK(t, Job("recipient", u, v, a, NoTopUp, NoOrder))
  BY <1>3, ConstantsAssumption DEF Job, JobOK, JobType
<1>4. ASSUME NEW t \in Tasks, NEW o \in Orders
      PROVE  JobOK(t, Job("debit", Payer[o], NoUser, Price, NoTopUp, o))
  BY ConstantsAssumption DEF Job, JobOK, JobType
<1>. QED BY <1>1, <1>2, <1>3, <1>4

-----------------------------------------------------------------------------
(* A step leaves the balances in Nat, the locks exclusive, the jobs in     *)
(* order: one lemma for each group of actions.                             *)

Base == StateInv /\ LockInv

(* A wallet that no transfer holds may change without harm.                *)
LEMMA FreeWallet ==
  ASSUME LockInv, NEW u \in Users, ~Locked(u), NEW t \in Workers, At(t, "recipient")
  PROVE  task[t].user # u
  BY DEF Locked, Holds

(* A step that leaves the tasks alone and changes only a free wallet.      *)
LEMMA OneWallet ==
  ASSUME Base, NEW u \in Users, ~Locked(u), NEW n \in Nat,
         balance' = [balance EXCEPT ![u] = n],
         NEW t \in Workers, NEW job, JobOK(t, job), job.at # "recipient",
         task' = [task EXCEPT ![t] = job] \/ task' = task
  PROVE  LockInv' /\ balance' \in [Users -> Nat] /\ JobsOK'
<1>1. JobsOK' /\ (\A s \in Workers : s # t => task'[s] = task[s])
              /\ task'[t] \in {job, task[t]}
  BY OneMoves DEF JobsOK, Base, StateInv, TypeOK
<1>2. balance' \in [Users -> Nat] BY DEF Base, StateInv, TypeOK
<1>3. ASSUME NEW s \in Workers, task'[s].at = "recipient"
      PROVE  task'[s] = task[s] /\ task[s].user # u /\ task[s].user \in Users
  BY <1>1, <1>3, FreeWallet DEF Base, At, StateInv, JobOK
<1>4. \A s \in Workers : task'[s].at = "recipient" => balance'[task'[s].user] >= task'[s].amount
  BY <1>3 DEF Base, LockInv, At, StateInv, TypeOK
<1>5. \A r, s \in Workers, v \in Users : Holds(r, v)' /\ Holds(s, v)' => r = s
  BY <1>3 DEF Base, LockInv, At, Holds
<1>. QED BY <1>1, <1>2, <1>4, <1>5 DEF LockInv, At

(* A step that leaves the balances alone and takes no lock.                *)
LEMMA NoWallet ==
  ASSUME Base, balance' = balance,
         NEW t \in Workers, NEW job, JobOK(t, job), job.at # "recipient",
         task' = [task EXCEPT ![t] = job] \/ task' = task
  PROVE  LockInv' /\ balance' \in [Users -> Nat] /\ JobsOK'
<1>1. JobsOK' /\ (\A s \in Workers : s # t => task'[s] = task[s])
              /\ task'[t] \in {job, task[t]}
  BY OneMoves DEF JobsOK, Base, StateInv, TypeOK
<1>2. ASSUME NEW s \in Workers, task'[s].at = "recipient" PROVE task'[s] = task[s]
  BY <1>1, <1>2
<1>3. \A s \in Workers : task'[s].at = "recipient" => balance'[task'[s].user] >= task'[s].amount
  BY <1>2 DEF Base, LockInv, At
<1>4. \A r, s \in Workers, v \in Users : Holds(r, v)' /\ Holds(s, v)' => r = s
  BY <1>2 DEF Base, LockInv, At, Holds
<1>. QED BY <1>1, <1>3, <1>4 DEF LockInv, At, Base, StateInv, TypeOK

(* The types of the columns that are no balance.                           *)
TypesOK ==
  /\ topup \in [TopUps -> {"NONE", "PENDING", "COMPLETED", "FAILED"}]
  /\ credited \in [TopUps -> Nat]
  /\ gateway \in [TopUps -> {"none", "open", "authorized", "captured", "lapsed"}]
  /\ old \subseteq TopUps
  /\ recorded \subseteq Events
  /\ order \in [Orders -> [status : OrderStatus, paid : BOOLEAN]]
  /\ debits \in [Orders -> Nat]
  /\ adjusted \in Int
  /\ returned \in [Users -> Nat]
  /\ doubtful \subseteq Orders

(* A top-up's credit is a natural number more on its owner's wallet.       *)
LEMMA Applied ==
  ASSUME StateInv, NEW k \in TopUps, ApplyPendingTopUp(k)
  PROVE  \E n \in Nat : balance' = [balance EXCEPT ![Owner[k]] = n]
<1>1. balance[Owner[k]] + TopUpAmount \in Nat
  BY ConstantsAssumption DEF StateInv, TypeOK
<1>. QED BY <1>1 DEF ApplyPendingTopUp

(* Topping up.                                                             *)
LEMMA ToppingUpBase ==
  ASSUME Base, ToppingUp
  PROVE  LockInv' /\ balance' \in [Users -> Nat] /\ JobsOK'
<1>. USE DEF topupVars, orderVars
<1>1. ASSUME NEW t \in Tasks, NEW k \in TopUps, CreateTopUp(t, k)
      PROVE  LockInv' /\ balance' \in [Users -> Nat] /\ JobsOK'
  <2>. DEFINE job == Job("insertTopUp", Owner[k], NoUser, TopUpAmount, k, NoOrder)
  <2>1. JobOK(t, job) /\ job.at # "recipient" /\ t \in Workers BY FirstJobs DEF Job, Workers
  <2>2. task' = [task EXCEPT ![t] = job] /\ balance' = balance BY <1>1 DEF CreateTopUp, Begin
  <2>. QED BY <2>1, <2>2, NoWallet
<1>2. ASSUME NEW t \in Tasks, InsertTopUp(t)
      PROVE  LockInv' /\ balance' \in [Users -> Nat] /\ JobsOK'
  BY <1>2, NoWallet, IdleOK DEF InsertTopUp, Done, Idle, Job, Workers
<1>3. ASSUME NEW k \in TopUps,
             CustomerPays(k) \/ Capture(k) \/ Lapse(k) \/ DayPasses(k) \/ VerifyBadSignature(k)
      PROVE  LockInv' /\ balance' \in [Users -> Nat] /\ JobsOK'
  BY <1>3 DEF CustomerPays, Capture, Lapse, Progress, DayPasses, VerifyBadSignature, JobsOK,
     Base, StateInv, TypeOK, LockInv, At, Holds
<1>4. ASSUME NEW k \in TopUps, VerifyTopUp(k)
      PROVE  LockInv' /\ balance' \in [Users -> Nat] /\ JobsOK'
  <2>1. PICK n \in Nat : balance' = [balance EXCEPT ![Owner[k]] = n]
    BY <1>4, Applied DEF VerifyTopUp, Base
  <2>2. Owner[k] \in Users /\ ~Locked(Owner[k]) /\ task' = task
    BY <1>4, ConstantsAssumption DEF VerifyTopUp
  <2>3. CASE Workers = {}
    BY <2>1, <2>2, <2>3 DEF Base, StateInv, TypeOK, LockInv, JobsOK
  <2>4. CASE Workers # {}
    <3>1. PICK t \in Workers : TRUE BY <2>4
    <3>2. JobOK(t, Idle) /\ Idle.at # "recipient" BY IdleOK DEF Idle, Job
    <3>. QED BY <2>1, <2>2, <3>1, <3>2, OneWallet
  <2>. QED BY <2>3, <2>4
<1>5. ASSUME NEW t \in Tasks, NEW e \in Events, Webhook(t, e) \/ WebhookUnrecorded(t, e)
      PROVE  LockInv' /\ balance' \in [Users -> Nat] /\ JobsOK'
  <2>1. e[1] \in TopUps /\ t \in Workers BY DEF Events, Workers
  <2>2. JobOK(t, Completion(e[1])) /\ Completion(e[1]).at # "recipient"
    BY <2>1, FirstJobs DEF Completion, Job
  <2>3. task' = [task EXCEPT ![t] = Completion(e[1])] /\ balance' = balance
    BY <1>5 DEF Webhook, WebhookUnrecorded, Begin
  <2>. QED BY <2>1, <2>2, <2>3, NoWallet
<1>6. ASSUME NEW t \in Workers, CompleteTopUp(t)
      PROVE  LockInv' /\ balance' \in [Users -> Nat] /\ JobsOK'
  <2>. DEFINE k == task[t].topup
  <2>1. k \in TopUps /\ Owner[k] \in Users /\ ~Locked(Owner[k])
    BY <1>6, ConstantsAssumption DEF CompleteTopUp, At, Base, StateInv, JobOK
  <2>2. task' = [task EXCEPT ![t] = Idle] /\ JobOK(t, Idle) /\ Idle.at # "recipient"
    BY <1>6, IdleOK DEF CompleteTopUp, Done, Idle, Job
  <2>3. CASE topup[k] = "PENDING"
    <3>1. PICK n \in Nat : balance' = [balance EXCEPT ![Owner[k]] = n]
      BY <1>6, <2>1, <2>3, Applied DEF CompleteTopUp, Base
    <3>. QED BY <2>1, <2>2, <3>1, OneWallet
  <2>4. CASE topup[k] # "PENDING"
    BY <1>6, <2>2, <2>4, NoWallet DEF CompleteTopUp
  <2>. QED BY <2>3, <2>4
<1>7. ASSUME NEW p \in Polls, NEW k \in TopUps, AskCaptured(p, k) \/ AskAbandoned(p, k)
      PROVE  LockInv' /\ balance' \in [Users -> Nat] /\ JobsOK'
  <2>1. PICK step \in {"complete", "abandon"} : Ask(p, k, step)
    BY <1>7 DEF AskCaptured, AskAbandoned
  <2>. DEFINE job == [Completion(k) EXCEPT !.at = step]
  <2>2. JobOK(p, job) /\ job.at # "recipient" /\ p \in Workers
    BY FirstJobs DEF Completion, Job, Workers
  <2>3. task' = [task EXCEPT ![p] = job] /\ balance' = balance BY <2>1 DEF Ask
  <2>. QED BY <2>2, <2>3, NoWallet
<1>8. ASSUME NEW p \in Polls, MarkStalePendingAsFailed(p)
      PROVE  LockInv' /\ balance' \in [Users -> Nat] /\ JobsOK'
  BY <1>8, NoWallet, IdleOK DEF MarkStalePendingAsFailed, Done, Idle, Job, Workers
<1>. QED BY <1>1, <1>2, <1>3, <1>4, <1>5, <1>6, <1>7, <1>8 DEF ToppingUp

(* Credits, debits and transfers.                                          *)
LEMMA MovingBase ==
  ASSUME Base, Moving
  PROVE  LockInv' /\ balance' \in [Users -> Nat] /\ JobsOK'
<1>. USE DEF topupVars, orderVars
<1>1. ASSUME NEW u \in Users, NEW a \in Amounts, AdminCredit(u, a) \/ AdminDebit(u, a) \/ CreditWallet(u, a)
      PROVE  LockInv' /\ balance' \in [Users -> Nat] /\ JobsOK'
  <2>1. balance[u] + a \in Nat /\ (DebitFits(u, a) => balance[u] - a \in Nat)
    BY ConstantsAssumption DEF DebitFits, Base, StateInv, TypeOK
  <2>2. PICK n \in Nat : balance' = [balance EXCEPT ![u] = n]
    BY <1>1, <2>1 DEF AdminCredit, AdminDebit, CreditWallet
  <2>3. ~Locked(u) /\ task' = task BY <1>1 DEF AdminCredit, AdminDebit, CreditWallet
  <2>4. CASE Workers = {}
    BY <2>2, <2>3, <2>4 DEF Base, StateInv, TypeOK, LockInv, JobsOK
  <2>5. CASE Workers # {}
    <3>1. PICK t \in Workers : TRUE BY <2>5
    <3>2. JobOK(t, Idle) /\ Idle.at # "recipient" BY IdleOK DEF Idle, Job
    <3>. QED BY <2>2, <2>3, <3>1, <3>2, OneWallet
  <2>. QED BY <2>4, <2>5
<1>2. ASSUME NEW t \in Tasks, NEW u \in Users, NEW v \in Users, NEW a \in Amounts, Transfer(t, u, v, a)
      PROVE  LockInv' /\ balance' \in [Users -> Nat] /\ JobsOK'
  <2>. DEFINE job == Job("recipient", u, v, a, NoTopUp, NoOrder)
  <2>1. JobOK(t, job) /\ t \in Workers BY <1>2, FirstJobs DEF Transfer, Workers
  <2>2. task' = [task EXCEPT ![t] = job] /\ balance' = balance /\ ~Locked(u) /\ balance[u] >= a
    BY <1>2 DEF Transfer, Begin, DebitFits
  <2>3. /\ JobsOK' /\ task'[t] = job
        /\ \A s \in Workers : s # t => task'[s] = task[s]
    BY <2>1, <2>2, OneMoves DEF Base, JobsOK
  <2>4. job.user = u /\ job.amount = a /\ job.at = "recipient" BY DEF Job
  <2>5. \A s \in Workers : task'[s].at = "recipient" => balance'[task'[s].user] >= task'[s].amount
    BY <2>2, <2>3, <2>4 DEF Base, LockInv, At
  <2>6. \A r, s \in Workers, w \in Users : Holds(r, w)' /\ Holds(s, w)' => r = s
    BY <2>2, <2>3, <2>4 DEF Base, LockInv, At, Holds, Locked
  <2>. QED BY <2>2, <2>3, <2>5, <2>6 DEF LockInv, At, Base, StateInv, TypeOK
<1>3. ASSUME NEW t \in Tasks, FinishTransfer(t)
      PROVE  LockInv' /\ balance' \in [Users -> Nat] /\ JobsOK'
  <2>. DEFINE j == task[t]  u == j.user  v == j.other  a == j.amount
  <2>1. /\ t \in Workers /\ At(t, "recipient") /\ ~Locked(v)
        /\ u \in Users /\ v \in Users /\ u # v /\ a \in Nat
    BY <1>3, ConstantsAssumption DEF FinishTransfer, At, Workers, Base, StateInv, JobOK
  <2>2. balance[u] >= a BY <2>1 DEF Base, LockInv
  <2>3. /\ JobsOK' /\ task'[t] = Idle
        /\ \A s \in Workers : s # t => task'[s] = task[s]
    BY <1>3, <2>1, DoneTask DEF FinishTransfer, Base, JobsOK
  <2>4. balance' \in [Users -> Nat] /\ \A w \in Users \ {u, v} : balance'[w] = balance[w]
    BY <1>3, <2>1, <2>2 DEF FinishTransfer, Base, StateInv, TypeOK
  <2>5. ASSUME NEW s \in Workers, task'[s].at = "recipient"
        PROVE  task'[s] = task[s] /\ task[s].user \in Users \ {u, v}
    <3>1. s # t /\ task'[s] = task[s] /\ task[s].user \in Users
      BY <2>3, <2>5 DEF Idle, Job, Base, StateInv, JobOK
    <3>2. task[s].user # v BY <2>1, <2>5, <3>1, FreeWallet DEF At, Base
    <3>3. task[s].user # u BY <2>1, <2>5, <3>1 DEF Base, LockInv, Holds, At
    <3>. QED BY <3>1, <3>2, <3>3
  <2>6. \A s \in Workers : task'[s].at = "recipient" => balance'[task'[s].user] >= task'[s].amount
    BY <2>4, <2>5 DEF Base, LockInv, At
  <2>7. \A r, s \in Workers, w \in Users : Holds(r, w)' /\ Holds(s, w)' => r = s
    BY <2>5 DEF Base, LockInv, At, Holds
  <2>. QED BY <2>3, <2>4, <2>6, <2>7 DEF LockInv, At
<1>4. ASSUME NEW t \in Tasks, DeadlockVictim(t)
      PROVE  LockInv' /\ balance' \in [Users -> Nat] /\ JobsOK'
  BY <1>4, NoWallet, IdleOK DEF DeadlockVictim, Done, Idle, Job, Workers
<1>. QED BY <1>1, <1>2, <1>3, <1>4 DEF Moving

(* Orders paid from the balance.                                           *)
LEMMA PayingBase ==
  ASSUME Base, PayingOrders
  PROVE  LockInv' /\ balance' \in [Users -> Nat] /\ JobsOK'
<1>. USE DEF topupVars
<1>1. ASSUME NEW t \in Tasks, NEW o \in Orders, PayFromWallet(t, o)
      PROVE  LockInv' /\ balance' \in [Users -> Nat] /\ JobsOK'
  <2>. DEFINE job == Job("debit", Payer[o], NoUser, Price, NoTopUp, o)
  <2>1. JobOK(t, job) /\ job.at # "recipient" /\ t \in Workers BY FirstJobs DEF Job, Workers
  <2>2. task' = [task EXCEPT ![t] = job] /\ balance' = balance BY <1>1 DEF PayFromWallet, Begin
  <2>. QED BY <2>1, <2>2, NoWallet
<1>2. ASSUME NEW t \in Tasks, Debit(t)
      PROVE  LockInv' /\ balance' \in [Users -> Nat] /\ JobsOK'
  <2>. DEFINE j == task[t]  u == j.user
  <2>1. /\ t \in Workers /\ u \in Users /\ ~Locked(u) /\ j.amount = Price /\ JobOK(t, j)
        /\ j.at = "debit"
    BY <1>2 DEF Debit, At, Workers, Base, StateInv, JobOK
  <2>2. CASE DebitFits(u, j.amount)
    <3>. DEFINE job == [task[t] EXCEPT !.at = "markPaid"]
    <3>1. JobOK(t, job) /\ job.at # "recipient" BY <2>1 DEF JobOK, JobType
    <3>2. task' = [task EXCEPT ![t] = job]
      BY <1>2, <2>1, <2>2 DEF Debit, Base, StateInv, TypeOK
    <3>3. balance[u] - j.amount \in Nat
      BY <2>1, <2>2, ConstantsAssumption DEF DebitFits, Base, StateInv, TypeOK
    <3>4. balance' = [balance EXCEPT ![u] = balance[u] - j.amount] BY <1>2, <2>2 DEF Debit
    <3>. QED BY <2>1, <3>1, <3>2, <3>3, <3>4, OneWallet
  <2>3. CASE ~DebitFits(u, j.amount)
    BY <1>2, <2>1, <2>3, NoWallet, IdleOK DEF Debit, Done, Idle, Job
  <2>. QED BY <2>2, <2>3
<1>3. ASSUME NEW t \in Tasks, MarkPaid(t)
      PROVE  LockInv' /\ balance' \in [Users -> Nat] /\ JobsOK'
  BY <1>3, NoWallet, IdleOK DEF MarkPaid, Done, Idle, Job, Workers
<1>4. ASSUME NEW o \in Orders, CancelOrder(o)
      PROVE  LockInv' /\ balance' \in [Users -> Nat] /\ JobsOK'
  BY <1>4 DEF CancelOrder, JobsOK, Base, StateInv, TypeOK, LockInv, At, Holds
<1>. QED BY <1>1, <1>2, <1>3, <1>4 DEF PayingOrders

(* The columns keep their types.                                           *)
LEMMA TypesKept ==
  ASSUME Base, [Next]_vars
  PROVE  TypesOK'
<1>. USE DEF topupVars, orderVars, Base, StateInv, TypeOK, TypesOK
<1>1. CASE ToppingUp
  <2>1. ASSUME NEW t \in Workers, NEW k \in TopUps, CreateTopUp(t, k) PROVE TypesOK'
    BY <2>1 DEF CreateTopUp
  <2>2. ASSUME NEW t \in Workers, InsertTopUp(t) PROVE TypesOK'
    BY <2>2 DEF InsertTopUp
  <2>3. ASSUME NEW k \in TopUps, CustomerPays(k) \/ Capture(k) \/ Lapse(k) PROVE TypesOK'
    BY <2>3 DEF CustomerPays, Capture, Lapse, Progress
  <2>4. ASSUME NEW k \in TopUps, DayPasses(k) \/ VerifyBadSignature(k) PROVE TypesOK'
    BY <2>4 DEF DayPasses, VerifyBadSignature
  <2>5. ASSUME NEW k \in TopUps, VerifyTopUp(k) PROVE TypesOK'
    BY <2>5 DEF VerifyTopUp, ApplyPendingTopUp
  <2>6. ASSUME NEW t \in Tasks, NEW e \in Events, Webhook(t, e) \/ WebhookUnrecorded(t, e)
        PROVE  TypesOK'
    BY <2>6 DEF Webhook, WebhookUnrecorded
  <2>7. ASSUME NEW t \in Workers, CompleteTopUp(t) PROVE TypesOK'
    <3>1. task[t].topup \in TopUps BY <2>7 DEF CompleteTopUp, At, JobOK
    <3>. QED BY <2>7, <3>1 DEF CompleteTopUp, ApplyPendingTopUp
  <2>8. ASSUME NEW p \in Polls, NEW k \in TopUps, AskCaptured(p, k) \/ AskAbandoned(p, k)
        PROVE  TypesOK'
    BY <2>8 DEF AskCaptured, AskAbandoned, Ask
  <2>9. ASSUME NEW p \in Polls, MarkStalePendingAsFailed(p) PROVE TypesOK'
    BY <2>9 DEF MarkStalePendingAsFailed
  <2>. QED BY <1>1, <2>1, <2>2, <2>3, <2>4, <2>5, <2>6, <2>7, <2>8, <2>9 DEF ToppingUp, Workers
<1>2. CASE Moving
  <2>1. ASSUME NEW u \in Users, NEW a \in Amounts, AdminCredit(u, a) \/ AdminDebit(u, a) \/ CreditWallet(u, a)
        PROVE  TypesOK'
    BY <2>1, ConstantsAssumption DEF AdminCredit, AdminDebit, CreditWallet
  <2>2. ASSUME NEW t \in Tasks, NEW u \in Users, NEW v \in Users, NEW a \in Amounts,
               Transfer(t, u, v, a) \/ FinishTransfer(t) \/ DeadlockVictim(t)
        PROVE  TypesOK'
    BY <2>2 DEF Transfer, FinishTransfer, DeadlockVictim
  <2>3. ASSUME NEW t \in Tasks, FinishTransfer(t) \/ DeadlockVictim(t) PROVE TypesOK'
    BY <2>3 DEF FinishTransfer, DeadlockVictim
  <2>. QED BY <1>2, <2>1, <2>2, <2>3 DEF Moving
<1>3. CASE PayingOrders
  <2>1. ASSUME NEW t \in Tasks, NEW o \in Orders, PayFromWallet(t, o) PROVE TypesOK'
    BY <2>1 DEF PayFromWallet
  <2>2. ASSUME NEW t \in Tasks, Debit(t) PROVE TypesOK'
    BY <2>2 DEF Debit
  <2>3. ASSUME NEW t \in Tasks, MarkPaid(t) PROVE TypesOK'
    BY <2>3 DEF MarkPaid, OrderStatus
  <2>4. ASSUME NEW o \in Orders, CancelOrder(o) PROVE TypesOK'
    BY <2>4 DEF CancelOrder, OrderStatus
  <2>. QED BY <1>3, <2>1, <2>2, <2>3, <2>4 DEF PayingOrders
<1>4. CASE \E t \in Workers : Crash(t)
  <2>1. PICK t \in Workers : Crash(t) BY <1>4
  <2>2. task[t].order \in Orders \cup {NoOrder} BY DEF JobOK, JobType
  <2>. QED BY <2>1, <2>2 DEF Crash
<1>5. CASE UNCHANGED vars BY <1>5 DEF vars
<1>. QED BY <1>1, <1>2, <1>3, <1>4, <1>5 DEF Next

(* Types, jobs and locks hold in every state.                              *)
LEMMA BaseHolds == Spec => []Base
<1>1. Init => Base
  <2>. SUFFICES ASSUME Init PROVE Base OBVIOUS
  <2>1. \A t \in Workers : task[t] = Idle /\ Idle.at = "idle" /\ JobOK(t, task[t])
    BY IdleOK DEF Init, Idle, Job
  <2>2. TypeOK
    <3>1. balance \in [Users -> Nat] BY ConstantsAssumption DEF Init
    <3>2. task \in [Workers -> JobType] BY IdleOK DEF Init, JobOK
    <3>3. order \in [Orders -> [status : OrderStatus, paid : BOOLEAN]] BY DEF Init, OrderStatus
    <3>. QED BY <3>1, <3>2, <3>3 DEF Init, TypeOK
  <2>. QED BY <2>1, <2>2 DEF Base, StateInv, LockInv, At, Holds
<1>2. Base /\ [Next]_vars => Base'
  <2>. SUFFICES ASSUME Base, [Next]_vars PROVE Base' OBVIOUS
  <2>1. TypesOK' BY TypesKept
  <2>2. LockInv' /\ balance' \in [Users -> Nat] /\ JobsOK'
    <3>1. CASE \E t \in Workers : Crash(t)
      <4>1. PICK t \in Workers : Crash(t) BY <3>1
      <4>. QED BY <4>1, NoWallet, IdleOK DEF Crash, Done, Idle, Job
    <3>2. CASE UNCHANGED vars
      BY <3>2 DEF vars, JobsOK, Base, StateInv, TypeOK, LockInv, At, Holds
    <3>. QED BY <3>1, <3>2, ToppingUpBase, MovingBase, PayingBase DEF Next
  <2>. QED BY <2>1, <2>2 DEF Base, StateInv, TypeOK, TypesOK, JobsOK
<1>. QED BY <1>1, <1>2, PTL DEF Spec

(* Every column keeps its type and no wallet is ever overdrawn, whatever   *)
(* transfers, debits and credits interleave.                               *)
THEOREM TypeCorrect == Spec => []TypeOK
  BY BaseHolds, PTL DEF Base, StateInv

-----------------------------------------------------------------------------
(* Top-ups.                                                                *)

(* Nothing is topped up at first.                                          *)
LEMMA TopUpInvInit == Init => TopUpInv
<1>. SUFFICES ASSUME Init PROVE TopUpInv OBVIOUS
<1>1. \A t \in Workers : task[t].at = "idle" BY DEF Init, Idle, Job
<1>2. \A k \in TopUps : topup[k] = "NONE" /\ gateway[k] = "none" /\ credited[k] = 0 BY DEF Init
<1>. QED BY <1>1, <1>2 DEF TopUpInv, At, CreditedOnce, CreditedWasPaid

(* What TopUpInv asks of the task t.                                       *)
TaskOK(t) ==
  /\ At(t, "insertTopUp") => topup[task[t].topup] = "NONE"
  /\ At(t, "complete") => Paid(task[t].topup)
  /\ At(t, "abandon") => topup[task[t].topup] # "NONE"
Alone(t) ==
  \A s \in Workers : At(s, "insertTopUp") /\ At(t, "insertTopUp")
                        /\ task[s].topup = task[t].topup => s = t
RowOK(k) ==
  /\ topup[k] = "NONE" <=> gateway[k] = "none"
  /\ credited[k] = IF topup[k] = "COMPLETED" THEN 1 ELSE 0
  /\ topup[k] = "COMPLETED" => Paid(k)

(* TopUpInv, row by row and task by task.                                  *)
LEMMA TopUpInvParts ==
  TopUpInv <=> (\A k \in TopUps : RowOK(k)) /\ \A t \in Workers : TaskOK(t) /\ Alone(t)
  BY DEF TopUpInv, TaskOK, Alone, RowOK, CreditedOnce, CreditedWasPaid

(* A row whose status and payment only go on keeps every other task's      *)
(* promise; the task t that moved has to keep its own.                     *)
LEMMA TasksKept ==
  ASSUME StateInv, TopUpInv, NEW t \in Workers,
         \A s \in Workers : s # t => task'[s] = task[s],
         \A k \in TopUps : topup'[k] = "NONE" <=> topup[k] = "NONE",
         \A k \in TopUps : Paid(k) => Paid(k)',
         TaskOK(t)', task'[t].at # "insertTopUp"
  PROVE  \A s \in Workers : TaskOK(s)' /\ Alone(s)'
<1>1. ASSUME NEW s \in Workers, s # t PROVE TaskOK(s)' /\ Alone(s)'
  <2>1. task'[s] = task[s] /\ TaskOK(s) /\ Alone(s) /\ JobOK(s, task[s])
    BY <1>1, TopUpInvParts DEF StateInv
  <2>2. TaskOK(s)' BY <2>1 DEF TaskOK, At, JobOK
  <2>3. Alone(s)' BY <2>1 DEF Alone, At
  <2>. QED BY <2>2, <2>3
<1>2. Alone(t)' BY DEF Alone, At
<1>. QED BY <1>1, <1>2

(* A step that leaves the rows and Razorpay alone.                         *)
LEMMA RowsSame ==
  ASSUME StateInv, TopUpInv, NEW t \in Workers, topup' = topup, credited' = credited,
         gateway' = gateway,
         \A s \in Workers : s # t => task'[s] = task[s],
         TaskOK(t)', task'[t].at # "insertTopUp"
  PROVE  TopUpInv'
<1>1. \A k \in TopUps : RowOK(k)' BY TopUpInvParts DEF RowOK, Paid
<1>2. \A s \in Workers : TaskOK(s)' /\ Alone(s)' BY TasksKept DEF Paid
<1>3. TopUpInv' <=> (\A k \in TopUps : RowOK(k)') /\ \A s \in Workers : TaskOK(s)' /\ Alone(s)'
  BY DEF TopUpInv, TaskOK, Alone, RowOK, CreditedOnce, CreditedWasPaid
<1>. QED BY <1>1, <1>2, <1>3

(* The same of the next state.                                             *)
LEMMA TopUpInvPartsNext ==
  TopUpInv' <=> (\A k \in TopUps : RowOK(k)') /\ \A s \in Workers : TaskOK(s)' /\ Alone(s)'
  BY DEF TopUpInv, TaskOK, Alone, RowOK, CreditedOnce, CreditedWasPaid

(* The idle task promises nothing.                                         *)
LEMMA DonePromise ==
  ASSUME StateInv, NEW t \in Workers, Done(t)
  PROVE  /\ TaskOK(t)' /\ task'[t].at # "insertTopUp"
         /\ \A s \in Workers : s # t => task'[s] = task[s]
  BY DoneTask DEF TaskOK, At, Idle, Job

(* Topping up keeps the promises of rows and tasks.                        *)
LEMMA TopUpInvStep ==
  ASSUME StateInv, TopUpInv, ToppingUp
  PROVE  TopUpInv'
<1>. USE DEF topupVars, orderVars
<1>1. ASSUME NEW t \in Tasks, NEW k \in TopUps, CreateTopUp(t, k) PROVE TopUpInv'
  <2>. DEFINE job == Job("insertTopUp", Owner[k], NoUser, TopUpAmount, k, NoOrder)
  <2>1. JobOK(t, job) /\ t \in Workers BY FirstJobs DEF Workers
  <2>2. task' = [task EXCEPT ![t] = job] BY <1>1 DEF CreateTopUp, Begin
  <2>3. task'[t] = job /\ \A s \in Workers : s # t => task'[s] = task[s]
    BY <2>1, <2>2, OneMoves
  <2>4. job.at = "insertTopUp" /\ job.topup = k BY DEF Job
  <2>5. topup[k] = "NONE" /\ topup' = topup /\ credited' = credited /\ gateway' = gateway
        /\ \A s \in Tasks : task[s].topup # k
    BY <1>1 DEF CreateTopUp
  <2>6. \A i \in TopUps : RowOK(i)' BY <2>5, TopUpInvParts DEF RowOK, Paid
  <2>7. ASSUME NEW s \in Workers PROVE TaskOK(s)' /\ Alone(s)'
    <3>1. ASSUME NEW r \in Workers, At(r, "insertTopUp"), r # t PROVE task[r].topup # k
      BY <2>5, <3>1 DEF StateInv, JobOK, At
    <3>2. TaskOK(s)'
      <4>1. CASE s = t BY <2>3, <2>4, <2>5, <4>1 DEF TaskOK, At
      <4>2. CASE s # t BY <2>3, <2>5, <4>2, TopUpInvParts DEF TaskOK, At, Paid
      <4>. QED BY <4>1, <4>2
    <3>3. Alone(s)' BY <2>3, <2>4, <3>1, TopUpInvParts DEF Alone, At
    <3>. QED BY <3>2, <3>3
  <2>. QED BY <2>6, <2>7, TopUpInvPartsNext
<1>2. ASSUME NEW t \in Tasks, InsertTopUp(t) PROVE TopUpInv'
  <2>. DEFINE k == task[t].topup
  <2>1. t \in Workers /\ At(t, "insertTopUp") /\ k \in TopUps
    BY <1>2 DEF InsertTopUp, Workers, StateInv, JobOK, At
  <2>2. topup[k] = "NONE" BY <2>1 DEF TopUpInv
  <2>3. /\ topup' = [topup EXCEPT ![k] = "PENDING"] /\ gateway' = [gateway EXCEPT ![k] = "open"]
        /\ credited' = credited /\ Done(t)
    BY <1>2 DEF InsertTopUp
  <2>4. gateway[k] = "none" /\ credited[k] = 0 /\ ~Paid(k)
    BY <2>1, <2>2 DEF TopUpInv, CreditedOnce, Paid
  <2>5. \A i \in TopUps : RowOK(i)'
    BY <2>1, <2>2, <2>3, <2>4, TopUpInvParts DEF RowOK, Paid, StateInv, TypeOK
  <2>6. ASSUME NEW s \in Workers PROVE TaskOK(s)' /\ Alone(s)'
    <3>1. CASE s = t BY <2>3, <3>1, DonePromise DEF Alone, At
    <3>2. CASE s # t
      <4>1. task'[s] = task[s] /\ JobOK(s, task[s]) /\ TaskOK(s)
        BY <2>1, <2>3, <3>2, DoneTask, TopUpInvParts DEF StateInv
      <4>2. At(s, "insertTopUp") => task[s].topup # k
        BY <2>1, <3>2 DEF TopUpInv
      <4>3. TaskOK(s)'
        BY <2>1, <2>3, <2>4, <4>1, <4>2 DEF TaskOK, At, Paid, JobOK, StateInv, TypeOK
      <4>4. Alone(s)' BY <2>1, <2>3, <4>1, DonePromise, TopUpInvParts DEF Alone, At
      <4>. QED BY <4>3, <4>4
    <3>. QED BY <3>1, <3>2
  <2>. QED BY <2>5, <2>6, TopUpInvPartsNext
<1>3. ASSUME NEW k \in TopUps, CustomerPays(k) \/ Capture(k) \/ Lapse(k) PROVE TopUpInv'
  <2>1. PICK from, to : /\ <<from, to>> \in {<<"open", "authorized">>, <<"authorized", "captured">>,
                                              <<"authorized", "lapsed">>}
                        /\ Progress(k, from, to)
    BY <1>3 DEF CustomerPays, Capture, Lapse
  <2>2. gateway[k] # "none" /\ to \in {"authorized", "captured", "lapsed"} BY <2>1 DEF Progress
  <2>3. gateway' = [gateway EXCEPT ![k] = to] /\ topup' = topup /\ credited' = credited /\ task' = task
    BY <2>1 DEF Progress
  <2>4. \A i \in TopUps : RowOK(i)'
    BY <2>2, <2>3, TopUpInvParts DEF RowOK, Paid, StateInv, TypeOK
  <2>5. \A s \in Workers : TaskOK(s)' /\ Alone(s)'
    BY <2>2, <2>3, TopUpInvParts DEF TaskOK, Alone, At, Paid, StateInv, TypeOK, JobOK
  <2>. QED BY <2>4, <2>5, TopUpInvPartsNext
<1>4. ASSUME NEW k \in TopUps, DayPasses(k) PROVE TopUpInv'
  BY <1>4 DEF DayPasses, TopUpInv, At, Paid, CreditedOnce, CreditedWasPaid
<1>5. ASSUME NEW k \in TopUps, VerifyBadSignature(k) PROVE TopUpInv'
  <2>1. topup[k] = "PENDING" /\ topup' = [topup EXCEPT ![k] = "FAILED"] /\ task' = task
        /\ gateway' = gateway /\ credited' = credited
    BY <1>5 DEF VerifyBadSignature
  <2>2. \A i \in TopUps : RowOK(i)'
    BY <2>1, TopUpInvParts DEF RowOK, Paid, StateInv, TypeOK
  <2>3. \A s \in Workers : TaskOK(s)' /\ Alone(s)'
    BY <2>1, TopUpInvParts DEF TaskOK, Alone, At, Paid, StateInv, TypeOK, JobOK
  <2>. QED BY <2>2, <2>3, TopUpInvPartsNext
<1>6. ASSUME NEW k \in TopUps, VerifyTopUp(k) PROVE TopUpInv'
  <2>1. topup[k] = "PENDING" /\ Paid(k) /\ task' = task /\ gateway' = gateway
        /\ topup' = [topup EXCEPT ![k] = "COMPLETED"]
        /\ credited' = [credited EXCEPT ![k] = @ + 1]
    BY <1>6 DEF VerifyTopUp, ApplyPendingTopUp
  <2>2. \A i \in TopUps : RowOK(i)'
    BY <2>1, TopUpInvParts DEF RowOK, Paid, StateInv, TypeOK
  <2>3. \A s \in Workers : TaskOK(s)' /\ Alone(s)'
    BY <2>1, TopUpInvParts DEF TaskOK, Alone, At, Paid, StateInv, TypeOK, JobOK
  <2>. QED BY <2>2, <2>3, TopUpInvPartsNext
<1>7. ASSUME NEW t \in Tasks, NEW e \in Events, Webhook(t, e) \/ WebhookUnrecorded(t, e)
      PROVE  TopUpInv'
  <2>1. e[1] \in TopUps /\ t \in Workers BY DEF Events, Workers
  <2>2. Paid(e[1]) BY <1>7 DEF Webhook, WebhookUnrecorded, Sent, Paid
  <2>3. task' = [task EXCEPT ![t] = Completion(e[1])] /\ topup' = topup /\ credited' = credited
        /\ gateway' = gateway
    BY <1>7 DEF Webhook, WebhookUnrecorded, Begin
  <2>4. task'[t] = Completion(e[1]) /\ \A s \in Workers : s # t => task'[s] = task[s]
    BY <2>1, <2>3, FirstJobs, OneMoves
  <2>5. TaskOK(t)' /\ task'[t].at # "insertTopUp"
    BY <2>2, <2>3, <2>4 DEF TaskOK, At, Completion, Job, Paid
  <2>. QED BY <2>1, <2>3, <2>4, <2>5, RowsSame
<1>8. ASSUME NEW t \in Workers, CompleteTopUp(t) PROVE TopUpInv'
  <2>. DEFINE k == task[t].topup
  <2>1. k \in TopUps /\ Paid(k) /\ Done(t) /\ gateway' = gateway
    BY <1>8 DEF CompleteTopUp, At, StateInv, JobOK, TopUpInv
  <2>2. CASE topup[k] = "PENDING"
    <3>1. /\ topup' = [topup EXCEPT ![k] = "COMPLETED"]
          /\ credited' = [credited EXCEPT ![k] = @ + 1]
      BY <1>8, <2>2 DEF CompleteTopUp, ApplyPendingTopUp
    <3>2. \A i \in TopUps : RowOK(i)'
      BY <2>1, <2>2, <3>1, TopUpInvParts DEF RowOK, Paid, StateInv, TypeOK
    <3>3. \A i \in TopUps : (topup'[i] = "NONE" <=> topup[i] = "NONE") /\ (Paid(i) => Paid(i)')
      BY <2>1, <2>2, <3>1 DEF Paid, StateInv, TypeOK
    <3>4. \A s \in Workers : TaskOK(s)' /\ Alone(s)' BY <2>1, <3>3, DonePromise, TasksKept
    <3>. QED BY <3>2, <3>4, TopUpInvPartsNext
  <2>3. CASE topup[k] # "PENDING"
    BY <1>8, <2>1, <2>3, DonePromise, RowsSame DEF CompleteTopUp
  <2>. QED BY <2>2, <2>3
<1>9. ASSUME NEW p \in Polls, NEW k \in TopUps, AskCaptured(p, k) PROVE TopUpInv'
  <2>. DEFINE job == [Completion(k) EXCEPT !.at = "complete"]
  <2>1. JobOK(p, job) /\ p \in Workers BY FirstJobs DEF Workers
  <2>2. task' = [task EXCEPT ![p] = job] /\ topup' = topup /\ credited' = credited
        /\ gateway' = gateway /\ gateway[k] = "captured"
    BY <1>9 DEF AskCaptured, Ask
  <2>3. task'[p] = job /\ \A s \in Workers : s # p => task'[s] = task[s]
    BY <2>1, <2>2, OneMoves
  <2>4. TaskOK(p)' /\ task'[p].at # "insertTopUp"
    BY <2>2, <2>3 DEF TaskOK, At, Completion, Job, Paid
  <2>. QED BY <2>1, <2>2, <2>3, <2>4, RowsSame
<1>10. ASSUME NEW p \in Polls, NEW k \in TopUps, AskAbandoned(p, k) PROVE TopUpInv'
  <2>. DEFINE job == [Completion(k) EXCEPT !.at = "abandon"]
  <2>1. JobOK(p, job) /\ p \in Workers BY FirstJobs DEF Workers
  <2>2. task' = [task EXCEPT ![p] = job] /\ topup' = topup /\ credited' = credited
        /\ gateway' = gateway /\ topup[k] = "PENDING"
    BY <1>10 DEF AskAbandoned, Ask
  <2>3. task'[p] = job /\ \A s \in Workers : s # p => task'[s] = task[s]
    BY <2>1, <2>2, OneMoves
  <2>4. TaskOK(p)' /\ task'[p].at # "insertTopUp"
    BY <2>2, <2>3 DEF TaskOK, At, Completion, Job, Paid
  <2>. QED BY <2>1, <2>2, <2>3, <2>4, RowsSame
<1>11. ASSUME NEW p \in Polls, MarkStalePendingAsFailed(p) PROVE TopUpInv'
  <2>. DEFINE k == task[p].topup
  <2>1. k \in TopUps /\ Done(p) /\ p \in Workers /\ gateway' = gateway /\ credited' = credited
        /\ topup' = IF topup[k] = "PENDING" THEN [topup EXCEPT ![k] = "FAILED"] ELSE topup
    BY <1>11 DEF MarkStalePendingAsFailed, At, StateInv, JobOK, Workers
  <2>2. \A i \in TopUps : RowOK(i)'
    BY <2>1, TopUpInvParts DEF RowOK, Paid, StateInv, TypeOK
  <2>3. \A i \in TopUps : (topup'[i] = "NONE" <=> topup[i] = "NONE") /\ (Paid(i) => Paid(i)')
    BY <2>1 DEF Paid, StateInv, TypeOK
  <2>4. \A s \in Workers : TaskOK(s)' /\ Alone(s)' BY <2>1, <2>3, DonePromise, TasksKept
  <2>. QED BY <2>2, <2>4, TopUpInvPartsNext
<1>. QED BY <1>1, <1>2, <1>3, <1>4, <1>5, <1>6, <1>7, <1>8, <1>9, <1>10, <1>11 DEF ToppingUp

(* Nothing else touches a top-up.                                          *)
LEMMA TopUpInvOthers ==
  ASSUME StateInv, TopUpInv, [Next]_vars, ~ToppingUp
  PROVE  TopUpInv'
<1>. USE DEF topupVars
<1>1. ASSUME NEW u \in Users, NEW a \in Amounts, AdminCredit(u, a) \/ AdminDebit(u, a) \/ CreditWallet(u, a)
      PROVE  TopUpInv'
  BY <1>1 DEF AdminCredit, AdminDebit, CreditWallet, TopUpInv, At, Paid, CreditedOnce, CreditedWasPaid
<1>2. ASSUME NEW t \in Tasks, NEW u \in Users, NEW v \in Users, NEW a \in Amounts, Transfer(t, u, v, a)
      PROVE  TopUpInv'
  <2>. DEFINE job == Job("recipient", u, v, a, NoTopUp, NoOrder)
  <2>1. JobOK(t, job) /\ t \in Workers BY <1>2, FirstJobs DEF Transfer, Workers
  <2>2. task' = [task EXCEPT ![t] = job] BY <1>2 DEF Transfer, Begin
  <2>3. task'[t] = job /\ \A s \in Workers : s # t => task'[s] = task[s]
    BY <2>1, <2>2, OneMoves
  <2>4. TaskOK(t)' /\ task'[t].at # "insertTopUp" BY <2>3 DEF TaskOK, At, Job
  <2>. QED BY <1>2, <2>1, <2>3, <2>4, RowsSame DEF Transfer
<1>3. ASSUME NEW t \in Workers, FinishTransfer(t) \/ DeadlockVictim(t) \/ MarkPaid(t) \/ Crash(t)
      PROVE  TopUpInv'
  <2>1. Done(t) /\ topup' = topup /\ credited' = credited /\ gateway' = gateway
    BY <1>3 DEF FinishTransfer, DeadlockVictim, MarkPaid, Crash
  <2>. QED BY <2>1, DonePromise, RowsSame
<1>4. ASSUME NEW t \in Tasks, NEW o \in Orders, PayFromWallet(t, o) PROVE TopUpInv'
  <2>. DEFINE job == Job("debit", Payer[o], NoUser, Price, NoTopUp, o)
  <2>1. JobOK(t, job) /\ t \in Workers BY FirstJobs DEF Workers
  <2>2. task' = [task EXCEPT ![t] = job] BY <1>4 DEF PayFromWallet, Begin
  <2>3. task'[t] = job /\ \A s \in Workers : s # t => task'[s] = task[s]
    BY <2>1, <2>2, OneMoves
  <2>4. TaskOK(t)' /\ task'[t].at # "insertTopUp" BY <2>3 DEF TaskOK, At, Job
  <2>. QED BY <1>4, <2>1, <2>3, <2>4, RowsSame DEF PayFromWallet
<1>5. ASSUME NEW t \in Tasks, Debit(t) PROVE TopUpInv'
  <2>1. t \in Workers /\ topup' = topup /\ credited' = credited /\ gateway' = gateway
    BY <1>5 DEF Debit, Workers
  <2>2. /\ TaskOK(t)' /\ task'[t].at # "insertTopUp"
        /\ \A s \in Workers : s # t => task'[s] = task[s]
    <3>1. CASE Done(t) BY <2>1, <3>1, DonePromise
    <3>2. CASE task' = [task EXCEPT ![t].at = "markPaid"]
      BY <2>1, <3>2 DEF TaskOK, At, StateInv, TypeOK, JobType
    <3>. QED BY <1>5, <3>1, <3>2 DEF Debit
  <2>. QED BY <2>1, <2>2, RowsSame
<1>6. ASSUME (\E o \in Orders : CancelOrder(o)) \/ UNCHANGED vars PROVE TopUpInv'
  BY <1>6 DEF CancelOrder, vars, TopUpInv, At, Paid, CreditedOnce, CreditedWasPaid
<1>. QED BY <1>1, <1>2, <1>3, <1>4, <1>5, <1>6 DEF Next, Moving, PayingOrders, Workers

(* TopUpInv holds in every state.                                          *)
LEMMA TopUpInvHolds == Spec => []TopUpInv
<1>1. Base /\ TopUpInv /\ [Next]_vars => TopUpInv'
  BY TopUpInvStep, TopUpInvOthers DEF Base
<1>. QED BY <1>1, TopUpInvInit, BaseHolds, PTL DEF Spec

(* However many of the client, the webhooks and the worker complete one    *)
(* top-up, it is credited once, exactly when its row is COMPLETED, and not *)
(* before the customer paid.                                               *)
THEOREM PaidIsCreditedOnceHolds == Spec => []PaidIsCreditedOnce
<1>1. TopUpInv => PaidIsCreditedOnce BY DEF TopUpInv, PaidIsCreditedOnce
<1>. QED BY <1>1, TopUpInvHolds, PTL

(* A top-up that was credited, or given up, is never credited or given up  *)
(* again: every write tests the row it locked.                             *)
THEOREM SettledIsFinalHolds == Spec => SettledIsFinal
<1>. DEFINE A == \A k \in TopUps : topup[k] \in {"COMPLETED", "FAILED"} => topup'[k] = topup[k]
<1>1. ASSUME StateInv, TopUpInv, [Next]_vars PROVE A
  <2>. USE <1>1 DEF topupVars, StateInv, TypeOK
  <2>1. CASE ToppingUp
    <3>1. ASSUME NEW t \in Tasks, InsertTopUp(t) PROVE A
      <4>1. topup[task[t].topup] = "NONE" BY <3>1 DEF InsertTopUp, TopUpInv, Workers
      <4>. QED BY <3>1, <4>1 DEF InsertTopUp
    <3>2. ASSUME NEW k \in TopUps,
                 \/ CustomerPays(k) \/ Capture(k) \/ Lapse(k) \/ DayPasses(k)
                 \/ VerifyTopUp(k) \/ VerifyBadSignature(k)
          PROVE  A
      BY <3>2 DEF CustomerPays, Capture, Lapse, Progress, DayPasses, VerifyTopUp,
         VerifyBadSignature, ApplyPendingTopUp
    <3>3. ASSUME NEW t \in Workers, CompleteTopUp(t) PROVE A
      BY <3>3 DEF CompleteTopUp, ApplyPendingTopUp
    <3>4. ASSUME NEW p \in Polls, MarkStalePendingAsFailed(p) PROVE A
      BY <3>4 DEF MarkStalePendingAsFailed
    <3>5. CASE UNCHANGED topup BY <3>5
    <3>. QED BY <2>1, <3>1, <3>2, <3>3, <3>4, <3>5
         DEF ToppingUp, CreateTopUp, Webhook, WebhookUnrecorded, AskCaptured, AskAbandoned, Ask
  <2>2. CASE ~ToppingUp
    BY <2>2 DEF Next, Moving, PayingOrders, AdminCredit, AdminDebit, CreditWallet, Transfer, FinishTransfer,
       DeadlockVictim, PayFromWallet, Debit, MarkPaid, CancelOrder, Crash, vars
  <2>. QED BY <2>1, <2>2
<1>2. StateInv /\ TopUpInv /\ [Next]_vars => A BY <1>1
<1>3. A /\ [Next]_vars => [A]_vars OBVIOUS
<1>. QED BY <1>2, TopUpInvHolds, BaseHolds, PTL DEF Spec, SettledIsFinal, Base

-----------------------------------------------------------------------------
(* Orders paid from the balance.                                           *)

(* PayInv, of one order.                                                   *)
OrderOK(o) ==
  /\ \A s, t \in Tasks : task[s].order = o /\ task[t].order = o => s = t
  /\ order[o].paid => \A t \in Tasks : task[t].order # o
  /\ debits[o] = IF order[o].paid \/ \E t \in Tasks : task[t].order = o /\ At(t, "markPaid")
                   THEN 1 ELSE 0

(* A step that moves no order and no task at work on one.                  *)
LEMMA OrdersSame ==
  ASSUME PayInv, \A o \in Orders : order'[o].paid = order[o].paid, debits' = debits, doubtful' = doubtful,
         \A t \in Tasks : task'[t] = task[t] \/ (task[t].order = NoOrder /\ task'[t].order = NoOrder)
  PROVE  PayInv'
<1>1. ASSUME NEW o \in Orders \ doubtful PROVE OrderOK(o)'
  <2>1. OrderOK(o) /\ o # NoOrder BY ConstantsAssumption DEF PayInv, OrderOK
  <2>2. \A t \in Tasks : task'[t].order = o <=> task[t].order = o BY <2>1
  <2>3. \A t \in Tasks : task[t].order = o => task'[t] = task[t] BY <2>1
  <2>4. (\E t \in Tasks : task[t].order = o /\ At(t, "markPaid"))
          <=> (\E t \in Tasks : task[t].order = o /\ At(t, "markPaid"))'
    BY <2>2, <2>3 DEF At
  <2>. QED BY <2>1, <2>2, <2>4 DEF OrderOK
<1>. QED BY <1>1 DEF PayInv, OrderOK

(* A task that begins or ends without an order leaves the orders alone.    *)
LEMMA TaskWithoutOrder ==
  ASSUME StateInv, PayInv, order' = order, debits' = debits, doubtful' = doubtful,
         NEW t \in Workers, task[t].order = NoOrder,
         NEW job, job.order = NoOrder, task' = [task EXCEPT ![t] = job]
  PROVE  PayInv'
<1>1. \A s \in Workers : task'[s] = IF s = t THEN job ELSE task[s] BY DEF StateInv, TypeOK
<1>2. \A s \in Tasks : task'[s] = task[s] \/ (task[s].order = NoOrder /\ task'[s].order = NoOrder)
  BY <1>1 DEF Workers
<1>. QED BY <1>2, OrdersSame

(* A payment's start, its debit and its last statement; a crash.           *)
LEMMA PayInvStep ==
  ASSUME StateInv, PayInv, PayingOrders \/ \E t \in Workers : Crash(t)
  PROVE  PayInv'
<1>1. ASSUME NEW t \in Tasks, NEW o \in Orders, PayFromWallet(t, o) PROVE PayInv'
  <2>. DEFINE job == Job("debit", Payer[o], NoUser, Price, NoTopUp, o)
  <2>1. JobOK(t, job) /\ t \in Workers BY FirstJobs DEF Workers
  <2>2. /\ task' = [task EXCEPT ![t] = job] /\ order' = order /\ debits' = debits /\ task[t] = Idle
        /\ ~order[o].paid
        /\ doubtful' = IF Paying(o) = {} THEN doubtful ELSE doubtful \cup {o}
    BY <1>1 DEF PayFromWallet, Begin
  <2>5. job.order = o /\ job.at = "debit" BY DEF Job
  <2>6. task[t].order = NoOrder BY <2>2 DEF Idle, Job
  <2>. HIDE DEF job
  <2>3. task'[t] = job /\ job.order = o /\ job.at = "debit" /\ task[t].order = NoOrder
        /\ \A s \in Tasks : s # t => task'[s] = task[s]
    BY <2>1, <2>2, <2>5, <2>6, OneMoves DEF Workers
  <2>4. ASSUME NEW i \in Orders \ doubtful' PROVE OrderOK(i)'
    <3>1. OrderOK(i) /\ i # NoOrder BY <2>2, ConstantsAssumption DEF PayInv, OrderOK
    <3>2. CASE i = o
      <4>1. \A s \in Tasks : task[s].order # o BY <2>2, <2>4, <3>2 DEF Paying
      <4>. QED BY <2>2, <2>3, <3>1, <3>2, <4>1 DEF OrderOK, At
    <3>3. CASE i # o
      <4>1. \A s \in Tasks : (task'[s].order = i <=> task[s].order = i)
                              /\ (task[s].order = i => task'[s] = task[s])
        BY <2>3, <3>1, <3>3
      <4>2. (\E s \in Tasks : task[s].order = i /\ At(s, "markPaid"))
              <=> (\E s \in Tasks : task[s].order = i /\ At(s, "markPaid"))'
        BY <4>1 DEF At
      <4>. QED BY <2>2, <3>1, <4>1, <4>2 DEF OrderOK
    <3>. QED BY <3>2, <3>3
  <2>. QED BY <2>4 DEF PayInv, OrderOK
<1>2. ASSUME NEW t \in Tasks, Debit(t) PROVE PayInv'
  <2>. DEFINE o == task[t].order
  <2>1. /\ t \in Workers /\ At(t, "debit") /\ order' = order /\ doubtful' = doubtful
        /\ JobOK(t, task[t]) /\ task[t] \in JobType
    BY <1>2 DEF Debit, Workers, StateInv, JobOK
  <2>2. o \in Orders BY <2>1 DEF JobOK, JobType, At
  <2>3. CASE DebitFits(task[t].user, task[t].amount)
    <3>1. /\ debits' = [debits EXCEPT ![o] = @ + 1]
          /\ task' = [task EXCEPT ![t].at = "markPaid"]
      BY <1>2, <2>3 DEF Debit
    <3>2. task'[t].order = o /\ task'[t].at = "markPaid"
          /\ \A s \in Tasks : s # t => task'[s] = task[s]
      BY <2>1, <3>1 DEF StateInv, TypeOK, JobType, Workers
    <3>3. ASSUME NEW i \in Orders \ doubtful PROVE OrderOK(i)'
      <4>1. OrderOK(i) BY DEF PayInv, OrderOK
      <4>2. CASE i = o
        <5>1. ~order[i].paid /\ \A s \in Tasks : task[s].order = i => s = t
          BY <4>1, <4>2 DEF OrderOK
        <5>2. debits[i] = 0 BY <2>1, <4>1, <5>1 DEF OrderOK, At
        <5>3. debits'[i] = 1 BY <2>2, <3>1, <4>2, <5>2 DEF StateInv, TypeOK
        <5>. QED BY <2>1, <3>2, <4>2, <5>1, <5>3 DEF OrderOK, At
      <4>3. CASE i # o
        <5>1. \A s \in Tasks : (task'[s].order = i <=> task[s].order = i)
                                /\ (task[s].order = i => task'[s] = task[s])
          BY <3>2, <4>3
        <5>2. (\E s \in Tasks : task[s].order = i /\ At(s, "markPaid"))
                <=> (\E s \in Tasks : task[s].order = i /\ At(s, "markPaid"))'
          BY <5>1 DEF At
        <5>3. debits'[i] = debits[i] BY <2>2, <3>1, <4>3 DEF StateInv, TypeOK
        <5>. QED BY <2>1, <4>1, <5>1, <5>2, <5>3 DEF OrderOK
      <4>. QED BY <4>2, <4>3
    <3>. QED BY <2>1, <3>3 DEF PayInv, OrderOK
  <2>4. CASE ~DebitFits(task[t].user, task[t].amount)
    <3>1. debits' = debits /\ Done(t) BY <1>2, <2>4 DEF Debit
    <3>2. task'[t] = Idle /\ Idle.order = NoOrder /\ Idle.at = "idle"
          /\ \A s \in Tasks : s # t => task'[s] = task[s]
      BY <2>1, <3>1, DoneTask DEF Idle, Job, Workers
    <3>3. ASSUME NEW i \in Orders \ doubtful PROVE OrderOK(i)'
      <4>1. OrderOK(i) /\ i # NoOrder BY ConstantsAssumption DEF PayInv, OrderOK
      <4>2. (\E s \in Tasks : task[s].order = i /\ At(s, "markPaid"))
              <=> (\E s \in Tasks : task[s].order = i /\ At(s, "markPaid"))'
        BY <2>1, <3>2, <4>1 DEF At
      <4>. QED BY <2>1, <3>1, <3>2, <4>1, <4>2 DEF OrderOK
    <3>. QED BY <2>1, <3>3 DEF PayInv, OrderOK
  <2>. QED BY <2>3, <2>4
<1>3. ASSUME NEW t \in Tasks, MarkPaid(t) PROVE PayInv'
  <2>. DEFINE o == task[t].order
  <2>1. /\ t \in Workers /\ At(t, "markPaid") /\ debits' = debits /\ doubtful' = doubtful /\ Done(t)
        /\ order' = [order EXCEPT ![o] = [status |-> "CONFIRMED", paid |-> TRUE]]
    BY <1>3 DEF MarkPaid, Workers
  <2>2. o \in Orders BY <2>1 DEF StateInv, JobOK, JobType, At
  <2>3. task'[t] = Idle /\ Idle.order = NoOrder /\ Idle.at = "idle"
        /\ \A s \in Tasks : s # t => task'[s] = task[s]
    BY <2>1, DoneTask DEF Idle, Job, Workers
  <2>4. ASSUME NEW i \in Orders \ doubtful PROVE OrderOK(i)'
    <3>1. OrderOK(i) /\ i # NoOrder BY ConstantsAssumption DEF PayInv, OrderOK
    <3>2. CASE i = o
      <4>1. debits[i] = 1 /\ \A s \in Tasks : task[s].order = i => s = t
        BY <2>1, <3>1, <3>2 DEF OrderOK
      <4>2. order'[i].paid BY <2>1, <2>2, <3>2 DEF StateInv, TypeOK
      <4>. QED BY <2>1, <2>3, <3>1, <4>1, <4>2 DEF OrderOK
    <3>3. CASE i # o
      <4>1. \A s \in Tasks : (task'[s].order = i <=> task[s].order = i)
                              /\ (task[s].order = i => task'[s] = task[s])
        BY <2>3, <3>1, <3>3
      <4>2. (\E s \in Tasks : task[s].order = i /\ At(s, "markPaid"))
              <=> (\E s \in Tasks : task[s].order = i /\ At(s, "markPaid"))'
        BY <4>1 DEF At
      <4>3. order'[i] = order[i] BY <2>1, <2>2, <3>3 DEF StateInv, TypeOK
      <4>. QED BY <2>1, <3>1, <4>1, <4>2, <4>3 DEF OrderOK
    <3>. QED BY <3>2, <3>3
  <2>. QED BY <2>1, <2>4 DEF PayInv, OrderOK
<1>4. ASSUME NEW o \in Orders, CancelOrder(o) PROVE PayInv'
  <2>1. \A i \in Orders : order'[i].paid = order[i].paid
    BY <1>4 DEF CancelOrder, StateInv, TypeOK
  <2>. QED BY <1>4, <2>1, OrdersSame DEF CancelOrder
<1>5. ASSUME NEW t \in Workers, Crash(t) PROVE PayInv'
  <2>1. order' = order /\ debits' = debits /\ Done(t)
        /\ doubtful' = IF task[t].order = NoOrder THEN doubtful ELSE doubtful \cup {task[t].order}
    BY <1>5 DEF Crash, orderVars
  <2>2. task'[t] = Idle /\ Idle.order = NoOrder /\ Idle.at = "idle"
        /\ \A s \in Tasks : s # t => task'[s] = task[s]
    BY <2>1, DoneTask DEF Idle, Job, Workers
  <2>3. ASSUME NEW i \in Orders \ doubtful' PROVE OrderOK(i)'
    <3>1. OrderOK(i) /\ i # NoOrder /\ task[t].order # i
      BY <2>1, ConstantsAssumption DEF PayInv, OrderOK
    <3>2. \A s \in Tasks : (task'[s].order = i <=> task[s].order = i)
                            /\ (task[s].order = i => task'[s] = task[s])
      BY <2>2, <3>1
    <3>3. (\E s \in Tasks : task[s].order = i /\ At(s, "markPaid"))
            <=> (\E s \in Tasks : task[s].order = i /\ At(s, "markPaid"))'
      BY <3>2 DEF At
    <3>. QED BY <2>1, <3>1, <3>2, <3>3 DEF OrderOK
  <2>. QED BY <2>3 DEF PayInv, OrderOK
<1>. QED BY <1>1, <1>2, <1>3, <1>4, <1>5 DEF PayingOrders

(* Top-ups and transfers leave the orders alone.                           *)
LEMMA PayInvOthers ==
  ASSUME StateInv, PayInv, ToppingUp \/ Moving \/ UNCHANGED vars
  PROVE  PayInv'
<1>. USE DEF orderVars
<1>1. ASSUME NEW t \in Workers, Done(t), task[t].order = NoOrder, UNCHANGED orderVars
      PROVE  PayInv'
  <2>1. task' = [task EXCEPT ![t] = Idle] /\ Idle.order = NoOrder BY <1>1 DEF Done, Idle, Job
  <2>. QED BY <1>1, <2>1, TaskWithoutOrder
<1>2. ASSUME NEW t \in Workers, NEW job, job.order = NoOrder, task[t] = Idle,
             task' = [task EXCEPT ![t] = job], UNCHANGED orderVars
      PROVE  PayInv'
  <2>1. task[t].order = NoOrder BY <1>2 DEF Idle, Job
  <2>. QED BY <1>2, <2>1, TaskWithoutOrder
<1>3. ASSUME UNCHANGED <<orderVars, task>> PROVE PayInv'
  BY <1>3, OrdersSame
<1>4. CASE ToppingUp
  <2>1. ASSUME NEW t \in Tasks, NEW k \in TopUps, CreateTopUp(t, k) PROVE PayInv'
    BY <2>1, <1>2 DEF CreateTopUp, Begin, Job, Workers
  <2>2. ASSUME NEW t \in Tasks, InsertTopUp(t) PROVE PayInv'
    <3>1. task[t].order = NoOrder /\ t \in Workers
      BY <2>2 DEF InsertTopUp, At, StateInv, JobOK, Workers
    <3>. QED BY <1>1, <2>2, <3>1 DEF InsertTopUp
  <2>3. ASSUME NEW k \in TopUps,
               \/ CustomerPays(k) \/ Capture(k) \/ Lapse(k) \/ DayPasses(k)
               \/ VerifyTopUp(k) \/ VerifyBadSignature(k)
        PROVE  PayInv'
    BY <2>3, <1>3 DEF CustomerPays, Capture, Lapse, Progress, DayPasses, VerifyTopUp, VerifyBadSignature
  <2>4. ASSUME NEW t \in Tasks, NEW e \in Events, Webhook(t, e) \/ WebhookUnrecorded(t, e)
        PROVE  PayInv'
    BY <2>4, <1>2 DEF Webhook, WebhookUnrecorded, Begin, Completion, Job, Workers
  <2>5. ASSUME NEW t \in Workers, CompleteTopUp(t) PROVE PayInv'
    <3>1. task[t].order = NoOrder BY <2>5 DEF CompleteTopUp, At, StateInv, JobOK
    <3>. QED BY <1>1, <2>5, <3>1 DEF CompleteTopUp
  <2>6. ASSUME NEW p \in Polls, NEW k \in TopUps, AskCaptured(p, k) \/ AskAbandoned(p, k)
        PROVE  PayInv'
    <3>1. PICK step \in {"complete", "abandon"} : Ask(p, k, step)
      BY <2>6 DEF AskCaptured, AskAbandoned
    <3>2. [Completion(k) EXCEPT !.at = step].order = NoOrder BY DEF Completion, Job
    <3>. QED BY <1>2, <3>1, <3>2 DEF Ask, Workers
  <2>7. ASSUME NEW p \in Polls, MarkStalePendingAsFailed(p) PROVE PayInv'
    <3>1. task[p].order = NoOrder /\ p \in Workers
      BY <2>7 DEF MarkStalePendingAsFailed, At, StateInv, JobOK, Workers
    <3>. QED BY <1>1, <2>7, <3>1 DEF MarkStalePendingAsFailed
  <2>. QED BY <1>4, <2>1, <2>2, <2>3, <2>4, <2>5, <2>6, <2>7 DEF ToppingUp
<1>5. CASE Moving
  <2>1. ASSUME NEW u \in Users, NEW a \in Amounts, AdminCredit(u, a) \/ AdminDebit(u, a) \/ CreditWallet(u, a)
        PROVE  PayInv'
    BY <2>1, <1>3 DEF AdminCredit, AdminDebit, CreditWallet
  <2>2. ASSUME NEW t \in Tasks, NEW u \in Users, NEW v \in Users, NEW a \in Amounts,
               Transfer(t, u, v, a)
        PROVE  PayInv'
    BY <2>2, <1>2 DEF Transfer, Begin, Job, Workers
  <2>3. ASSUME NEW t \in Tasks, FinishTransfer(t) \/ DeadlockVictim(t) PROVE PayInv'
    <3>1. /\ At(t, "recipient") /\ Done(t) /\ UNCHANGED orderVars
      <4>1. CASE FinishTransfer(t) BY <4>1 DEF FinishTransfer
      <4>2. CASE DeadlockVictim(t)
        <5>1. PICK S \in SUBSET Tasks : t \in S /\ \A s \in S : \E r \in S : WaitsFor(s, r)
          BY <4>2 DEF DeadlockVictim, Deadlocked
        <5>. QED BY <4>2, <5>1 DEF DeadlockVictim, WaitsFor
      <4>. QED BY <2>3, <4>1, <4>2
    <3>2. task[t].order = NoOrder /\ t \in Workers BY <3>1 DEF At, StateInv, JobOK, Workers
    <3>. QED BY <1>1, <3>1, <3>2
  <2>. QED BY <1>5, <2>1, <2>2, <2>3 DEF Moving
<1>6. CASE UNCHANGED vars BY <1>3, <1>6 DEF vars
<1>. QED BY <1>4, <1>5, <1>6

(* An order none of whose payments died or overlapped another is debited   *)
(* once if it is paid, and if it is not, only while a payment is at work.  *)
THEOREM DebitedOnceHolds == Spec => []DebitedOnce
<1>1. Init => PayInv
  <2>. SUFFICES ASSUME Init, NEW o \in Orders PROVE OrderOK(o) BY DEF PayInv, OrderOK
  <2>1. \A t \in Tasks : task[t].order = NoOrder BY DEF Init, Idle, Job, Workers
  <2>. QED BY <2>1, ConstantsAssumption DEF Init, OrderOK
<1>2. Base /\ PayInv /\ [Next]_vars => PayInv'
  BY PayInvStep, PayInvOthers DEF Base, Next
<1>3. PayInv => DebitedOnce BY DEF PayInv, DebitedOnce, Paying
<1>. QED BY <1>1, <1>2, <1>3, BaseHolds, PTL DEF Spec

-----------------------------------------------------------------------------
(* The cap.                                                                *)

Settled(u) == {k \in TopUps : Owner[k] = u /\ topup[k] = "COMPLETED"}
Room(u) == Cap + TopUpAmount * Cardinality(Settled(u))

(* What a wallet may hold is a number, no less than the cap.               *)
LEMMA RoomType == \A u : Cardinality(Settled(u)) \in Nat /\ Room(u) \in Nat /\ Room(u) >= Cap
<1>. TAKE u
<1>1. Settled(u) \in SUBSET TopUps BY DEF Settled
<1>2. IsFiniteSet(Settled(u)) BY <1>1, FS_Subset, ConstantsAssumption
<1>3. Cardinality(Settled(u)) \in Nat BY <1>2, FS_CardinalityType
<1>4. \A m, n \in Nat : m * n \in Nat OBVIOUS
<1>5. TopUpAmount * Cardinality(Settled(u)) \in Nat BY <1>3, <1>4, ConstantsAssumption
<1>. QED BY <1>3, <1>5, ConstantsAssumption DEF Room

(* Completing a top-up makes room for what it credits.                     *)
LEMMA Completed ==
  ASSUME StateInv, NEW k \in TopUps, topup[k] = "PENDING",
         topup' = [topup EXCEPT ![k] = "COMPLETED"]
  PROVE  \A u : Room(u)' = IF u = Owner[k] THEN Room(u) + TopUpAmount ELSE Room(u)
<1>. TAKE u
<1>1. CASE u = Owner[k]
  <2>1. Settled(u)' = Settled(u) \cup {k} /\ k \notin Settled(u)
    BY <1>1 DEF Settled, StateInv, TypeOK
  <2>2. IsFiniteSet(Settled(u))
    <3>1. Settled(u) \in SUBSET TopUps BY DEF Settled
    <3>. QED BY <3>1, FS_Subset, ConstantsAssumption
  <2>3. Cardinality(Settled(u) \cup {k}) = Cardinality(Settled(u)) + 1
    BY <2>1, <2>2, FS_AddElement
  <2>4. Cardinality(Settled(u)') = Cardinality(Settled(u)) + 1 BY <2>1, <2>3
  <2>5. \A a, n \in Nat : a * (n + 1) = a * n + a OBVIOUS
  <2>6. TopUpAmount * (Cardinality(Settled(u)) + 1) = TopUpAmount * Cardinality(Settled(u)) + TopUpAmount
    BY <2>5, RoomType, ConstantsAssumption
  <2>7. \A m, n \in Nat : m * n \in Nat OBVIOUS
  <2>8. TopUpAmount * Cardinality(Settled(u)) \in Nat BY <2>7, RoomType, ConstantsAssumption
  <2>. QED BY <1>1, <2>4, <2>6, <2>8, ConstantsAssumption DEF Room
<1>2. CASE u # Owner[k]
  <2>1. Settled(u)' = Settled(u) BY <1>2 DEF Settled, StateInv, TypeOK
  <2>. QED BY <1>2, <2>1 DEF Room
<1>. QED BY <1>1, <1>2

(* A step that completes no top-up leaves the room it has.                 *)
LEMMA RoomSame ==
  ASSUME \A k \in TopUps : topup'[k] = "COMPLETED" <=> topup[k] = "COMPLETED"
  PROVE  \A u : Room(u)' = Room(u)
<1>1. \A u : Settled(u)' = Settled(u) BY DEF Settled
<1>. QED BY <1>1 DEF Room

InRoom == \A u \in Users : balance[u] <= Room(u) + returned[u]

(* A credited top-up stays within the room it made.                        *)
LEMMA AppliedInRoom ==
  ASSUME StateInv, InRoom, NEW k \in TopUps, topup[k] = "PENDING", ApplyPendingTopUp(k),
         returned' = returned
  PROVE  InRoom'
<1>1. \A u : Room(u)' = IF u = Owner[k] THEN Room(u) + TopUpAmount ELSE Room(u)
  BY Completed DEF ApplyPendingTopUp
<1>2. balance' = [balance EXCEPT ![Owner[k]] = @ + TopUpAmount] BY DEF ApplyPendingTopUp
<1>. HIDE DEF Room
<1>. QED BY <1>1, <1>2, RoomType, ConstantsAssumption DEF InRoom, StateInv, TypeOK

(* Only top-ups and refunds take a balance over the cap, and by no more    *)
(* than they came to: every other credit tests it under the lock of the    *)
(* wallet it changes.                                                      *)
THEOREM CapHoldsHolds == Spec => []CapHolds
<1>1. Init => InRoom
  <2>. HIDE DEF Room
  <2>. QED BY RoomType, ConstantsAssumption DEF Init, InRoom
<1>2. ASSUME Base, TopUpInv, InRoom, [Next]_vars PROVE InRoom'
  <2>. USE <1>2 DEF topupVars, orderVars
  <2>. HIDE DEF Room
  <2>1. CASE ToppingUp
    <3>1. ASSUME NEW k \in TopUps, VerifyTopUp(k) PROVE InRoom'
      BY <3>1, AppliedInRoom DEF VerifyTopUp, Base
    <3>2. ASSUME NEW t \in Workers, CompleteTopUp(t) PROVE InRoom'
      <4>1. task[t].topup \in TopUps BY <3>2 DEF CompleteTopUp, At, Base, StateInv, JobOK
      <4>2. CASE topup[task[t].topup] = "PENDING"
        BY <3>2, <4>1, <4>2, AppliedInRoom DEF CompleteTopUp, Base
      <4>3. CASE topup[task[t].topup] # "PENDING"
        BY <3>2, <4>3, RoomSame DEF CompleteTopUp, InRoom
      <4>. QED BY <4>2, <4>3
    <3>3. ASSUME NEW t \in Tasks, InsertTopUp(t) PROVE InRoom'
      <4>1. topup[task[t].topup] # "COMPLETED" BY <3>3 DEF InsertTopUp, TopUpInv, Workers
      <4>2. \A i \in TopUps : topup'[i] = "COMPLETED" <=> topup[i] = "COMPLETED"
        BY <3>3, <4>1 DEF InsertTopUp, Base, StateInv, TypeOK
      <4>. QED BY <3>3, <4>2, RoomSame DEF InsertTopUp, InRoom
    <3>4. ASSUME NEW k \in TopUps, VerifyBadSignature(k) PROVE InRoom'
      <4>1. \A i \in TopUps : topup'[i] = "COMPLETED" <=> topup[i] = "COMPLETED"
        BY <3>4 DEF VerifyBadSignature, Base, StateInv, TypeOK
      <4>. QED BY <3>4, <4>1, RoomSame DEF VerifyBadSignature, InRoom
    <3>5. ASSUME NEW p \in Polls, MarkStalePendingAsFailed(p) PROVE InRoom'
      <4>1. \A i \in TopUps : topup'[i] = "COMPLETED" <=> topup[i] = "COMPLETED"
        BY <3>5 DEF MarkStalePendingAsFailed, Base, StateInv, TypeOK
      <4>. QED BY <3>5, <4>1, RoomSame DEF MarkStalePendingAsFailed, InRoom
    <3>6. CASE UNCHANGED <<balance, topup, returned>> BY <3>6, RoomSame DEF InRoom
    <3>. QED BY <2>1, <3>1, <3>2, <3>3, <3>4, <3>5, <3>6
         DEF ToppingUp, CreateTopUp, Webhook, WebhookUnrecorded, AskCaptured, AskAbandoned, Ask,
             CustomerPays, Capture, Lapse, Progress, DayPasses
  <2>2. CASE Moving
    <3>1. \A u \in Users : balance[u] \in Nat /\ Room(u) \in Nat /\ Room(u) >= Cap
      BY RoomType DEF Base, StateInv, TypeOK
    <3>2. ASSUME NEW u \in Users, NEW a \in Amounts, AdminCredit(u, a) \/ AdminDebit(u, a) \/ CreditWallet(u, a)
          PROVE  InRoom'
      <4>1. \A w : Room(w)' = Room(w) BY <3>2, RoomSame DEF AdminCredit, AdminDebit, CreditWallet
      <4>. QED BY <3>1, <3>2, <4>1, ConstantsAssumption
           DEF AdminCredit, AdminDebit, CreditWallet, CreditFits, DebitFits, InRoom, Base, StateInv, TypeOK
    <3>3. ASSUME NEW t \in Tasks, FinishTransfer(t) PROVE InRoom'
      <4>1. \A w : Room(w)' = Room(w) BY <3>3, RoomSame DEF FinishTransfer
      <4>2. /\ task[t].user \in Users /\ task[t].other \in Users /\ task[t].amount \in Nat
            /\ task[t].user # task[t].other
        BY <3>3, ConstantsAssumption DEF FinishTransfer, At, Workers, Base, StateInv, JobOK
      <4>. QED BY <3>1, <3>3, <4>1, <4>2, ConstantsAssumption
           DEF FinishTransfer, CreditFits, InRoom, Base, StateInv, TypeOK
    <3>4. CASE UNCHANGED <<balance, topup, returned>> BY <3>4, RoomSame DEF InRoom
    <3>. QED BY <2>2, <3>2, <3>3, <3>4 DEF Moving, Transfer, DeadlockVictim
  <2>3. CASE PayingOrders
    <3>1. ASSUME NEW t \in Tasks, Debit(t) PROVE InRoom'
      <4>1. \A w : Room(w)' = Room(w) BY <3>1, RoomSame DEF Debit
      <4>2. task[t].user \in Users /\ task[t].amount \in Nat
        BY <3>1, ConstantsAssumption DEF Debit, At, Workers, Base, StateInv, JobOK
      <4>3. \A u \in Users : balance[u] \in Nat /\ Room(u) \in Nat
        BY RoomType DEF Base, StateInv, TypeOK
      <4>. QED BY <3>1, <4>1, <4>2, <4>3 DEF Debit, InRoom, Base, StateInv, TypeOK
    <3>2. CASE UNCHANGED <<balance, topup, returned>> BY <3>2, RoomSame DEF InRoom
    <3>. QED BY <2>3, <3>1, <3>2 DEF PayingOrders, PayFromWallet, MarkPaid, CancelOrder
  <2>4. CASE (\E t \in Workers : Crash(t)) \/ UNCHANGED vars
    BY <2>4, RoomSame DEF Crash, vars, InRoom
  <2>. QED BY <2>1, <2>2, <2>3, <2>4 DEF Next
<1>3. InRoom => CapHolds BY DEF InRoom, CapHolds, Room, Settled
<1>4. Base /\ TopUpInv /\ InRoom /\ [Next]_vars => InRoom' BY <1>2
<1>. QED BY <1>1, <1>3, <1>4, BaseHolds, TopUpInvHolds, PTL DEF Spec

-----------------------------------------------------------------------------
(* The money of all wallets.                                               *)

(* A sum over a finite set is a natural number.                            *)
LEMMA TotalType ==
  ASSUME NEW S, IsFiniteSet(S), NEW f \in [S -> Nat]
  PROVE  IsFiniteSet(Coins(f, S)) /\ Total(f, S) \in Nat
<1>. DEFINE Part(x) == {x} \X (1..f[x])
            g == [x \in S |-> Part(x)]
            Parts == {Part(x) : x \in S}
<1>1. g \in Surjection(S, Parts) BY DEF Surjection
<1>2. IsFiniteSet(Parts) BY <1>1, FS_Surjection
<1>3. ASSUME NEW x \in S PROVE IsFiniteSet(Part(x))
  <2>1. IsFiniteSet({x}) BY FS_Singleton
  <2>2. IsFiniteSet(1..f[x]) BY FS_Interval
  <2>. QED BY <2>1, <2>2, FS_Product
<1>4. IsFiniteSet(UNION Parts)
  <2>1. \A P \in Parts : IsFiniteSet(P) BY <1>3
  <2>. HIDE DEF Parts
  <2>. QED BY <1>2, <2>1, FS_UNION
<1>. QED BY <1>4, FS_CardinalityType DEF Coins, Total

(* One summand of it is all that it adds to the sum of the others.         *)
LEMMA TotalSplit ==
  ASSUME NEW S, IsFiniteSet(S), NEW f \in [S -> Nat], NEW x \in S
  PROVE  /\ Cardinality(Coins(f, S \ {x})) \in Nat
         /\ Total(f, S) = Cardinality(Coins(f, S \ {x})) + f[x]
<1>. DEFINE Others == Coins(f, S \ {x})
            Own == {x} \X (1..f[x])
<1>1. Coins(f, S) = Others \cup Own BY DEF Coins
<1>2. Others \cap Own = {} BY DEF Coins
<1>3. IsFiniteSet(Coins(f, S)) BY TotalType
<1>4. IsFiniteSet(Others) BY <1>1, <1>3, FS_Subset
<1>5. IsFiniteSet({x}) /\ Cardinality({x}) = 1 BY FS_Singleton
<1>6. IsFiniteSet(1..f[x]) /\ Cardinality(1..f[x]) = f[x] BY FS_Interval
<1>7. IsFiniteSet(Own) /\ Cardinality(Own) = Cardinality({x}) * Cardinality(1..f[x])
  BY <1>5, <1>6, FS_Product
<1>8. Cardinality(Own) = f[x] BY <1>5, <1>6, <1>7
<1>9. Cardinality(Others) \in Nat BY <1>4, FS_CardinalityType
<1>. HIDE DEF Others, Own
<1>10. Cardinality(Others \cap Own) = 0 BY <1>2, FS_EmptySet
<1>11. Cardinality(Others \cup Own)
         = Cardinality(Others) + Cardinality(Own) - Cardinality(Others \cap Own)
  BY <1>4, <1>7, FS_Union
<1>12. Total(f, S) = Cardinality(Others) + f[x] BY <1>1, <1>8, <1>9, <1>10, <1>11 DEF Total
<1>. QED BY <1>9, <1>12 DEF Others

(* When one summand changes, the sum changes by as much.                   *)
LEMMA TotalMoved ==
  ASSUME NEW S, IsFiniteSet(S), NEW f \in [S -> Nat], NEW g \in [S -> Nat], NEW x \in S,
         \A y \in S \ {x} : g[y] = f[y]
  PROVE  Total(g, S) = Total(f, S) - f[x] + g[x]
<1>1. Coins(g, S \ {x}) = Coins(f, S \ {x}) BY DEF Coins
<1>2. /\ Cardinality(Coins(f, S \ {x})) \in Nat
      /\ Total(f, S) = Cardinality(Coins(f, S \ {x})) + f[x]
  BY TotalSplit
<1>3. Total(g, S) = Cardinality(Coins(g, S \ {x})) + g[x] BY TotalSplit
<1>4. f[x] \in Nat /\ g[x] \in Nat OBVIOUS
<1>. QED BY <1>1, <1>2, <1>3, <1>4

(* The same, of a wallet that changes.                                     *)
LEMMA WalletMoved ==
  ASSUME NEW f \in [Users -> Nat], NEW u \in Users, NEW n \in Nat
  PROVE  Total([f EXCEPT ![u] = n], Users) = Total(f, Users) - f[u] + n
<1>. DEFINE g == [f EXCEPT ![u] = n]
<1>1. g \in [Users -> Nat] /\ g[u] = n /\ \A y \in Users \ {u} : g[y] = f[y] OBVIOUS
<1>2. IsFiniteSet(Users) BY ConstantsAssumption
<1>. HIDE DEF g
<1>3. Total(g, Users) = Total(f, Users) - f[u] + g[u] BY <1>1, <1>2, TotalMoved
<1>. QED BY <1>1, <1>3 DEF g

(* The same, of an order that is debited.                                  *)
LEMMA DebitMoved ==
  ASSUME NEW f \in [Orders -> Nat], NEW o \in Orders, NEW n \in Nat
  PROVE  Total([f EXCEPT ![o] = n], Orders) = Total(f, Orders) - f[o] + n
<1>. DEFINE g == [f EXCEPT ![o] = n]
<1>1. g \in [Orders -> Nat] /\ g[o] = n /\ \A y \in Orders \ {o} : g[y] = f[y] OBVIOUS
<1>2. IsFiniteSet(Orders) BY ConstantsAssumption
<1>. HIDE DEF g
<1>3. Total(g, Orders) = Total(f, Orders) - f[o] + g[o] BY <1>1, <1>2, TotalMoved
<1>. QED BY <1>1, <1>3 DEF g

(* Where all summands are equal the sum is a product.                      *)
LEMMA TotalSame ==
  ASSUME NEW S, IsFiniteSet(S), NEW n \in Nat
  PROVE  Total([x \in S |-> n], S) = Cardinality(S) * n
<1>1. Coins([x \in S |-> n], S) = S \X (1..n) BY DEF Coins
<1>2. IsFiniteSet(1..n) /\ Cardinality(1..n) = n BY FS_Interval
<1>3. Cardinality(S \X (1..n)) = Cardinality(S) * Cardinality(1..n) BY <1>2, FS_Product
<1>. QED BY <1>1, <1>2, <1>3 DEF Total

AllSettled == {k \in TopUps : topup[k] = "COMPLETED"}

(* What all wallets hold together when the dashboard has added a, n        *)
(* top-ups are credited and d debits of orders are made.                   *)
Due(a, n, d) == Cardinality(Users) * Initial + a + TopUpAmount * n - Price * d

(* It grows by what is added, by a top-up's amount with each top-up, and   *)
(* shrinks by the price with each debit.                                   *)
LEMMA DueMoves ==
  ASSUME NEW a \in Int, NEW n \in Nat, NEW d \in Nat, NEW e \in Int
  PROVE  /\ Due(a, n, d) \in Int
         /\ Due(a + e, n, d) = Due(a, n, d) + e
         /\ Due(a, n + 1, d) = Due(a, n, d) + TopUpAmount
         /\ Due(a, n, d + 1) = Due(a, n, d) - Price
<1>1. Cardinality(Users) \in Nat BY ConstantsAssumption, FS_CardinalityType
<1>2. \A i, j \in Nat : i * j \in Nat /\ i * (j + 1) = i * j + i OBVIOUS
<1>3. Initial \in Nat /\ TopUpAmount \in Nat /\ Price \in Nat BY ConstantsAssumption
<1>4. /\ Cardinality(Users) * Initial \in Nat
      /\ TopUpAmount * n \in Nat /\ TopUpAmount * (n + 1) = TopUpAmount * n + TopUpAmount
      /\ Price * d \in Nat /\ Price * (d + 1) = Price * d + Price
  BY <1>1, <1>2, <1>3
<1>5. \A x \in Nat, y \in Nat, z \in Nat :
        /\ x + a + y - z \in Int
        /\ x + (a + e) + y - z = x + a + y - z + e
        /\ x + a + (y + TopUpAmount) - z = x + a + y - z + TopUpAmount
        /\ x + a + y - (z + Price) = x + a + y - z - Price
  BY <1>3
<1>. QED BY <1>3, <1>4, <1>5 DEF Due

Books == Total(balance, Users) = Due(adjusted, Cardinality(AllSettled), Total(debits, Orders))

(* The sums are numbers.                                                   *)
LEMMA SumsType ==
  ASSUME StateInv
  PROVE  /\ Total(balance, Users) \in Nat /\ Total(debits, Orders) \in Nat
         /\ IsFiniteSet(AllSettled) /\ Cardinality(AllSettled) \in Nat /\ adjusted \in Int
<1>1. balance \in [Users -> Nat] /\ debits \in [Orders -> Nat] /\ adjusted \in Int
  BY DEF StateInv, TypeOK
<1>2. Total(balance, Users) \in Nat /\ Total(debits, Orders) \in Nat
  BY <1>1, TotalType, ConstantsAssumption
<1>3. AllSettled \in SUBSET TopUps BY DEF AllSettled
<1>4. IsFiniteSet(AllSettled) BY <1>3, FS_Subset, ConstantsAssumption
<1>. QED BY <1>1, <1>2, <1>4, FS_CardinalityType

(* A step that moves no money.                                             *)
LEMMA BooksSame ==
  ASSUME Books, balance' = balance, adjusted' = adjusted, debits' = debits,
         \A k \in TopUps : topup'[k] = "COMPLETED" <=> topup[k] = "COMPLETED"
  PROVE  Books'
<1>1. AllSettled' = AllSettled BY DEF AllSettled
<1>. QED BY <1>1 DEF Books

(* A top-up that is credited adds its amount.                              *)
LEMMA BooksApplied ==
  ASSUME StateInv, Books, NEW k \in TopUps, topup[k] = "PENDING", ApplyPendingTopUp(k),
         adjusted' = adjusted, debits' = debits
  PROVE  Books'
<1>1. Owner[k] \in Users /\ balance \in [Users -> Nat] /\ TopUpAmount \in Nat /\ IsFiniteSet(Users)
  BY ConstantsAssumption DEF StateInv, TypeOK
<1>2. balance' = [balance EXCEPT ![Owner[k]] = balance[Owner[k]] + TopUpAmount]
  BY DEF ApplyPendingTopUp
<1>3. balance[Owner[k]] \in Nat /\ balance[Owner[k]] + TopUpAmount \in Nat BY <1>1
<1>4. Total(balance', Users)
        = Total(balance, Users) - balance[Owner[k]] + (balance[Owner[k]] + TopUpAmount)
  <2>. DEFINE n == balance[Owner[k]] + TopUpAmount
  <2>. HIDE DEF n
  <2>1. n \in Nat BY <1>3 DEF n
  <2>2. Total([balance EXCEPT ![Owner[k]] = n], Users) = Total(balance, Users) - balance[Owner[k]] + n
    BY <1>1, <2>1, WalletMoved
  <2>. QED BY <1>2, <2>2 DEF n
<1>5. AllSettled' = AllSettled \cup {k} /\ k \notin AllSettled
  BY DEF AllSettled, ApplyPendingTopUp, StateInv, TypeOK
<1>6. Cardinality(AllSettled') = Cardinality(AllSettled) + 1 BY <1>5, SumsType, FS_AddElement
<1>7. Total(balance', Users) = Total(balance, Users) + TopUpAmount BY <1>1, <1>3, <1>4, SumsType
<1>8. Due(adjusted, Cardinality(AllSettled) + 1, Total(debits, Orders))
        = Due(adjusted, Cardinality(AllSettled), Total(debits, Orders)) + TopUpAmount
  <2>1. 0 \in Int OBVIOUS
  <2>. QED BY <2>1, SumsType, DueMoves
<1>. QED BY <1>6, <1>7, <1>8 DEF Books

(* The dashboard changes one wallet and what it added by as much.          *)
LEMMA BooksAdjusted ==
  ASSUME StateInv, Books, NEW u \in Users, NEW e \in Int, balance[u] + e \in Nat,
         balance' = [balance EXCEPT ![u] = balance[u] + e], adjusted' = adjusted + e,
         topup' = topup, debits' = debits
  PROVE  Books'
<1>1. balance \in [Users -> Nat] /\ IsFiniteSet(Users) BY ConstantsAssumption DEF StateInv, TypeOK
<1>2. Total(balance', Users) = Total(balance, Users) - balance[u] + (balance[u] + e)
  <2>. DEFINE n == balance[u] + e
  <2>. HIDE DEF n
  <2>1. n \in Nat BY DEF n
  <2>2. Total([balance EXCEPT ![u] = n], Users) = Total(balance, Users) - balance[u] + n
    BY <1>1, <2>1, WalletMoved
  <2>. QED BY <2>2 DEF n
<1>3. Total(balance', Users) = Total(balance, Users) + e BY <1>1, <1>2, SumsType
<1>4. Due(adjusted + e, Cardinality(AllSettled), Total(debits, Orders))
        = Due(adjusted, Cardinality(AllSettled), Total(debits, Orders)) + e
  BY SumsType, DueMoves
<1>5. AllSettled' = AllSettled BY DEF AllSettled
<1>. QED BY <1>3, <1>4, <1>5 DEF Books

(* So does an order that is paid, with the price.                          *)
LEMMA BooksDebited ==
  ASSUME StateInv, Books, NEW u \in Users, NEW o \in Orders, balance[u] >= Price,
         balance' = [balance EXCEPT ![u] = balance[u] - Price],
         debits' = [debits EXCEPT ![o] = debits[o] + 1],
         topup' = topup, adjusted' = adjusted
  PROVE  Books'
<1>1. /\ balance \in [Users -> Nat] /\ debits \in [Orders -> Nat] /\ Price \in Nat
      /\ IsFiniteSet(Users) /\ IsFiniteSet(Orders)
  BY ConstantsAssumption DEF StateInv, TypeOK
<1>2. balance[u] - Price \in Nat /\ debits[o] + 1 \in Nat /\ balance[u] \in Nat /\ debits[o] \in Nat
  BY <1>1
<1>3. Total(balance', Users) = Total(balance, Users) - balance[u] + (balance[u] - Price)
  <2>. DEFINE n == balance[u] - Price
  <2>. HIDE DEF n
  <2>1. n \in Nat BY <1>2 DEF n
  <2>2. Total([balance EXCEPT ![u] = n], Users) = Total(balance, Users) - balance[u] + n
    BY <1>1, <2>1, WalletMoved
  <2>. QED BY <2>2 DEF n
<1>4. Total(debits', Orders) = Total(debits, Orders) - debits[o] + (debits[o] + 1)
  <2>. DEFINE n == debits[o] + 1
  <2>. HIDE DEF n
  <2>1. n \in Nat BY <1>2 DEF n
  <2>2. Total([debits EXCEPT ![o] = n], Orders) = Total(debits, Orders) - debits[o] + n
    BY <1>1, <2>1, DebitMoved
  <2>. QED BY <2>2 DEF n
<1>5. /\ Total(balance', Users) = Total(balance, Users) - Price
      /\ Total(debits', Orders) = Total(debits, Orders) + 1
  BY <1>1, <1>2, <1>3, <1>4, SumsType
<1>6. Due(adjusted, Cardinality(AllSettled), Total(debits, Orders) + 1)
        = Due(adjusted, Cardinality(AllSettled), Total(debits, Orders)) - Price
  <2>1. 0 \in Int OBVIOUS
  <2>. QED BY <2>1, SumsType, DueMoves
<1>7. AllSettled' = AllSettled BY DEF AllSettled
<1>. QED BY <1>5, <1>6, <1>7 DEF Books

(* A transfer takes from one wallet what it adds to another.               *)
LEMMA BooksTransferred ==
  ASSUME StateInv, Books, NEW u \in Users, NEW v \in Users, u # v, NEW a \in Nat, balance[u] >= a,
         balance' = [balance EXCEPT ![u] = @ - a, ![v] = @ + a],
         topup' = topup, debits' = debits, adjusted' = adjusted
  PROVE  Books'
<1>. DEFINE half == [balance EXCEPT ![u] = balance[u] - a]
<1>1. balance \in [Users -> Nat] /\ IsFiniteSet(Users) BY ConstantsAssumption DEF StateInv, TypeOK
<1>2. balance[u] - a \in Nat /\ balance[v] + a \in Nat /\ balance[u] \in Nat /\ balance[v] \in Nat
  BY <1>1
<1>3. half \in [Users -> Nat] /\ half[v] = balance[v] BY <1>1, <1>2
<1>4. balance' = [half EXCEPT ![v] = balance[v] + a] BY <1>1
<1>5. Total(half, Users) = Total(balance, Users) - balance[u] + (balance[u] - a)
  <2>. DEFINE n == balance[u] - a
  <2>. HIDE DEF n
  <2>1. n \in Nat BY <1>2 DEF n
  <2>2. Total([balance EXCEPT ![u] = n], Users) = Total(balance, Users) - balance[u] + n
    BY <1>1, <2>1, WalletMoved
  <2>. QED BY <2>2 DEF n
<1>. HIDE DEF half
<1>6. Total(balance', Users) = Total(half, Users) - half[v] + (balance[v] + a)
  <2>. DEFINE n == balance[v] + a
  <2>. HIDE DEF n
  <2>1. n \in Nat BY <1>2 DEF n
  <2>2. Total([half EXCEPT ![v] = n], Users) = Total(half, Users) - half[v] + n
    BY <1>3, <2>1, WalletMoved
  <2>. QED BY <1>4, <2>2 DEF n
<1>7. Total(balance', Users) = Total(balance, Users) BY <1>2, <1>3, <1>5, <1>6, SumsType
<1>8. AllSettled' = AllSettled BY DEF AllSettled
<1>. QED BY <1>7, <1>8 DEF Books

(* Every step keeps the books.                                             *)
LEMMA BooksStep ==
  ASSUME Base, TopUpInv, Books, [Next]_vars
  PROVE  Books'
<1>. USE DEF topupVars, orderVars
<1>0. StateInv /\ topup \in [TopUps -> {"NONE", "PENDING", "COMPLETED", "FAILED"}]
  BY DEF Base, StateInv, TypeOK
<1>1. CASE ToppingUp
  <2>1. ASSUME NEW t \in Tasks, InsertTopUp(t) PROVE Books'
    <3>1. topup[task[t].topup] = "NONE" BY <2>1 DEF InsertTopUp, TopUpInv, Workers
    <3>2. \A k \in TopUps : topup'[k] = "COMPLETED" <=> topup[k] = "COMPLETED"
      BY <1>0, <2>1, <3>1 DEF InsertTopUp
    <3>. QED BY <2>1, <3>2, BooksSame DEF InsertTopUp
  <2>2. ASSUME NEW k \in TopUps, VerifyTopUp(k) PROVE Books'
    BY <1>0, <2>2, BooksApplied DEF VerifyTopUp
  <2>3. ASSUME NEW k \in TopUps, VerifyBadSignature(k) PROVE Books'
    <3>1. \A i \in TopUps : topup'[i] = "COMPLETED" <=> topup[i] = "COMPLETED"
      BY <1>0, <2>3 DEF VerifyBadSignature
    <3>. QED BY <2>3, <3>1, BooksSame DEF VerifyBadSignature
  <2>4. ASSUME NEW k \in TopUps, CustomerPays(k) \/ Capture(k) \/ Lapse(k) \/ DayPasses(k)
        PROVE  Books'
    BY <2>4, BooksSame DEF CustomerPays, Capture, Lapse, Progress, DayPasses
  <2>5. ASSUME NEW t \in Workers, CompleteTopUp(t) PROVE Books'
    <3>1. task[t].topup \in TopUps BY <2>5 DEF CompleteTopUp, At, Base, StateInv, JobOK
    <3>2. CASE topup[task[t].topup] = "PENDING"
      BY <1>0, <2>5, <3>1, <3>2, BooksApplied DEF CompleteTopUp
    <3>3. CASE topup[task[t].topup] # "PENDING"
      BY <2>5, <3>3, BooksSame DEF CompleteTopUp
    <3>. QED BY <3>2, <3>3
  <2>6. ASSUME NEW p \in Polls, MarkStalePendingAsFailed(p) PROVE Books'
    <3>1. \A i \in TopUps : topup'[i] = "COMPLETED" <=> topup[i] = "COMPLETED"
      BY <1>0, <2>6 DEF MarkStalePendingAsFailed
    <3>. QED BY <2>6, <3>1, BooksSame DEF MarkStalePendingAsFailed
  <2>7. CASE UNCHANGED <<balance, topup, adjusted, debits>> BY <2>7, BooksSame
  <2>. QED BY <1>1, <2>1, <2>2, <2>3, <2>4, <2>5, <2>6, <2>7
       DEF ToppingUp, CreateTopUp, Webhook, WebhookUnrecorded, AskCaptured, AskAbandoned, Ask
<1>2. CASE Moving
  <2>1. ASSUME NEW u \in Users, NEW a \in Amounts, AdminCredit(u, a) PROVE Books'
    <3>1. a \in Int /\ balance[u] + a \in Nat
      BY ConstantsAssumption DEF Base, StateInv, TypeOK
    <3>. QED BY <1>0, <2>1, <3>1, BooksAdjusted DEF AdminCredit
  <2>5. ASSUME NEW u \in Users, NEW a \in Amounts, CreditWallet(u, a) PROVE Books'
    <3>1. a \in Int /\ balance[u] + a \in Nat
      BY ConstantsAssumption DEF Base, StateInv, TypeOK
    <3>. QED BY <1>0, <2>5, <3>1, BooksAdjusted DEF CreditWallet
  <2>2. ASSUME NEW u \in Users, NEW a \in Amounts, AdminDebit(u, a) PROVE Books'
    <3>1. /\ -a \in Int /\ balance[u] + (-a) \in Nat /\ balance[u] - a = balance[u] + (-a)
          /\ adjusted - a = adjusted + (-a)
      BY <2>2, ConstantsAssumption DEF AdminDebit, DebitFits, Base, StateInv, TypeOK
    <3>. QED BY <1>0, <2>2, <3>1, BooksAdjusted DEF AdminDebit
  <2>3. ASSUME NEW t \in Tasks, FinishTransfer(t) PROVE Books'
    <3>. DEFINE j == task[t]  u == j.user  v == j.other  a == j.amount
    <3>1. /\ t \in Workers /\ At(t, "recipient")
          /\ u \in Users /\ v \in Users /\ u # v /\ a \in Nat
      BY <2>3, ConstantsAssumption DEF FinishTransfer, At, Workers, Base, StateInv, JobOK
    <3>2. balance[u] >= a BY <3>1 DEF Base, LockInv
    <3>3. topup' = topup /\ debits' = debits /\ adjusted' = adjusted BY <2>3 DEF FinishTransfer
    <3>4. CASE CreditFits(v, a)
      <4>1. balance' = [balance EXCEPT ![u] = @ - a, ![v] = @ + a]
        BY <2>3, <3>4 DEF FinishTransfer
      <4>. QED BY <1>0, <3>1, <3>2, <3>3, <4>1, BooksTransferred
    <3>5. CASE ~CreditFits(v, a)
      <4>1. balance' = balance BY <2>3, <3>5 DEF FinishTransfer
      <4>. QED BY <3>3, <4>1, BooksSame
    <3>. QED BY <3>4, <3>5
  <2>4. CASE UNCHANGED <<balance, topup, adjusted, debits>> BY <2>4, BooksSame
  <2>. QED BY <1>2, <2>1, <2>2, <2>3, <2>4, <2>5 DEF Moving, Transfer, DeadlockVictim
<1>3. CASE PayingOrders
  <2>1. ASSUME NEW t \in Tasks, Debit(t) PROVE Books'
    <3>. DEFINE j == task[t]
    <3>1. /\ t \in Workers /\ At(t, "debit") /\ j.user \in Users /\ j.amount = Price
          /\ j.order \in Orders
      BY <2>1 DEF Debit, At, Workers, Base, StateInv, JobOK, JobType
    <3>2. topup' = topup /\ adjusted' = adjusted BY <2>1 DEF Debit
    <3>3. CASE DebitFits(j.user, j.amount)
      <4>1. /\ balance[j.user] >= Price
            /\ balance' = [balance EXCEPT ![j.user] = balance[j.user] - Price]
            /\ debits' = [debits EXCEPT ![j.order] = debits[j.order] + 1]
        BY <2>1, <3>1, <3>3 DEF Debit, DebitFits
      <4>. QED BY <1>0, <3>1, <3>2, <4>1, BooksDebited
    <3>4. CASE ~DebitFits(j.user, j.amount)
      <4>1. balance' = balance /\ debits' = debits BY <2>1, <3>4 DEF Debit
      <4>. QED BY <3>2, <4>1, BooksSame
    <3>. QED BY <3>3, <3>4
  <2>2. CASE UNCHANGED <<balance, topup, adjusted, debits>> BY <2>2, BooksSame
  <2>. QED BY <1>3, <2>1, <2>2 DEF PayingOrders, PayFromWallet, MarkPaid, CancelOrder
<1>4. CASE \E t \in Workers : Crash(t) BY <1>4, BooksSame DEF Crash
<1>5. CASE UNCHANGED vars BY <1>5, BooksSame DEF vars
<1>. QED BY <1>1, <1>2, <1>3, <1>4, <1>5 DEF Next

(* All wallets together hold what they started with, what was topped up    *)
(* once each and what the dashboard added, less what orders were debited:  *)
(* no transfer that fails half-way, no crash and no repeated webhook makes *)
(* or loses money.                                                         *)
THEOREM MoneyConservedHolds == Spec => []MoneyConserved
<1>1. Init => Books
  <2>. SUFFICES ASSUME Init PROVE Books OBVIOUS
  <2>1. /\ balance = [u \in Users |-> Initial] /\ debits = [o \in Orders |-> 0] /\ adjusted = 0
        /\ \A k \in TopUps : topup[k] = "NONE"
    BY DEF Init
  <2>2. Initial \in Nat /\ TopUpAmount \in Nat /\ Price \in Nat
        /\ IsFiniteSet(Users) /\ IsFiniteSet(Orders)
    BY ConstantsAssumption
  <2>3. Total(balance, Users) = Cardinality(Users) * Initial BY <2>1, <2>2, TotalSame
  <2>4. Total(debits, Orders) = Cardinality(Orders) * 0 BY <2>1, <2>2, TotalSame
  <2>5. Cardinality(Users) \in Nat /\ Cardinality(Orders) \in Nat BY <2>2, FS_CardinalityType
  <2>6. \A i, j \in Nat : i * j \in Nat /\ i * 0 = 0 OBVIOUS
  <2>7. Total(debits, Orders) = 0 BY <2>4, <2>5, <2>6
  <2>8. AllSettled = {} BY <2>1 DEF AllSettled
  <2>9. Cardinality(AllSettled) = 0 BY <2>8, FS_EmptySet
  <2>10. /\ Cardinality(Users) * Initial \in Nat
         /\ TopUpAmount * 0 = 0 /\ Price * 0 = 0
    BY <2>2, <2>5, <2>6
  <2>11. Due(0, 0, 0) = Cardinality(Users) * Initial BY <2>10 DEF Due
  <2>. QED BY <2>1, <2>3, <2>7, <2>9, <2>11 DEF Books
<1>2. Base /\ TopUpInv /\ Books /\ [Next]_vars => Books' BY BooksStep
<1>3. Books => MoneyConserved BY DEF Books, MoneyConserved, Due, AllSettled
<1>. QED BY <1>1, <1>2, <1>3, BaseHolds, TopUpInvHolds, PTL DEF Spec
=============================================================================

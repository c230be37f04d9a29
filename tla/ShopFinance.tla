---------------------------- MODULE ShopFinance ----------------------------
(***************************************************************************)
(* What one shop earns and is paid: the settlement of each day and of the  *)
(* week into rows of shop_financials, the payout of every row, and the     *)
(* append-only ledger shop_transactions that both write.                   *)
(*                                                                         *)
(* A settlement reads the orders, posts them to the ledger in a            *)
(* transaction of its own, then upserts its row.  A payout is one          *)
(* transaction under the lock of its row, the disbursement and the ledger  *)
(* entry included.                                                         *)
(***************************************************************************)
EXTENDS Integers, FiniteSets, Sequences

CONSTANTS
  Days,       \* of one week
  Week,       \* the row of the week
  Orders,
  Day,        \* the day each order is delivered on
  Gross, Commission,  \* of an order
  Settlers,   \* settlements in progress: the worker's and the dashboard's
  Payers,     \* payouts in progress
  RunCap,     \* bound: settlements begun
  TakesColonIds, \* whether the queue takes a job id like process-payout:<row>
  Requests    \* the kinds of request and of failure that occur

RequestKinds == {"week", "hold", "byHand", "bank", "fail", "crash", "stall"}

ASSUME ConstantsAssumption ==
  /\ Requests \subseteq RequestKinds
  /\ Week \notin Days /\ IsFiniteSet(Days) /\ Day \in [Orders -> Days]
  /\ Gross \in Nat /\ Commission \in 0..Gross
  /\ Settlers \cap Payers = {} /\ IsFiniteSet(Settlers \cup Payers)
  /\ RunCap \in Nat /\ TakesColonIds \in BOOLEAN

VARIABLES
  delivered,  \* orders delivered so far
  over,       \* days that are over
  fin,        \* the rows of shop_financials
  job,        \* the payout queue's job of each row
  credited,   \* PAYOUT_CREDIT entries of each row
  failures,   \* failed disbursements of each row since it was last released
  runs,       \* settlements begun
  ledger,     \* the latest committed row, and the sum of all committed entries
  tx,         \* transactions that append to the ledger
  task

vars == <<delivered, over, fin, job, credited, failures, runs, ledger, tx, task>>
orderVars == <<delivered, over, runs>>
payoutVars == <<job, credited, failures>>

Rows == Days \cup {Week}
Tasks == Settlers \cup Payers
MaxAttempts == 3    \* PAYOUT_MAX_ATTEMPTS; attempts are counted no further
Count(n) == IF n < MaxAttempts THEN n + 1 ELSE n

NoRow == [status |-> "NONE", amount |-> 0, attempts |-> 0]

Job(at, r, a) == [at |-> at, row |-> r, amount |-> a]
Idle == Job("idle", Week, 0)
At(t, step) == task[t].at = step
GoTo(t, step) == task' = [task EXCEPT ![t].at = step]
Done(t) == task' = [task EXCEPT ![t] = Idle]

(* Locked FOR UPDATE, by the payout that works on it.                      *)
RowLocked(r) ==
  \E t \in Payers : task[t].row = r /\ task[t].at \in {"disburse", "post", "wait"}

-----------------------------------------------------------------------------
(***************************************************************************)
(* The ledger.  An append selects the shop's latest row FOR UPDATE, by     *)
(* created_at and then by id, and inserts the next one.  created_at is     *)
(* the time the transaction began, id is random.  So of a transaction's    *)
(* own rows any may be the latest, and it is the latest of all only while  *)
(* no transaction that began later has committed (behind).  A lock is      *)
(* waited for with the row already selected, and no other one is looked    *)
(* for when the wait ends.  The first append of all finds nothing to lock. *)
(* Rows are numbered as they become the latest of all; 0 is none, or a row *)
(* that its own transaction alone can see.                                 *)
(***************************************************************************)
None == [row |-> 0, balance |-> 0]
NoTx == [open |-> FALSE, before |-> {}, behind |-> FALSE, mine |-> FALSE, top |-> 0,
         sum |-> 0, todo |-> <<>>, picked |-> None, held |-> {}]

Open(t, todo) ==
  [tx EXCEPT ![t] = [NoTx EXCEPT !.open = TRUE, !.todo = todo,
                                 !.before = {s \in Tasks : tx[s].open}]]

Latest(t) ==
  IF tx[t].mine /\ ~tx[t].behind THEN [row |-> 0, balance |-> tx[t].top]
                                 ELSE [row |-> ledger.row, balance |-> ledger.balance]

Free(t, row) == row = 0 \/ \A s \in Tasks \ {t} : row \notin tx[s].held

InsertAfter(t, seen) ==
  LET balance == seen.balance + Head(tx[t].todo)
  IN \E top \in IF tx[t].mine THEN {balance, tx[t].top} ELSE {balance} :
       tx' = [tx EXCEPT ![t] = [tx[t] EXCEPT !.mine = TRUE, !.top = top, !.picked = None,
                                  !.sum = @ + Head(tx[t].todo), !.todo = Tail(@),
                                  !.held = @ \cup ({seen.row} \ {0})]]

(* Ending the transaction of t, committed or rolled back.                  *)
Leads(t) == tx[t].mine /\ ~tx[t].behind
Committed(t) ==
  IF Leads(t) THEN [row |-> ledger.row + 1, balance |-> tx[t].top, total |-> ledger.total + tx[t].sum]
              ELSE [ledger EXCEPT !.total = @ + tx[t].sum]
Ended(t, overtakes) ==
  [s \in Tasks |->
     IF s = t THEN NoTx
     ELSE [tx[s] EXCEPT !.before = @ \ {t},
                        !.behind = @ \/ (overtakes /\ s \in tx[t].before)]]

AppendEntry(t) ==
  /\ At(t, "post") /\ tx[t].todo # <<>>
  /\ Free(t, Latest(t).row)
  /\ InsertAfter(t, Latest(t))
  /\ UNCHANGED <<orderVars, payoutVars, fin, ledger, task>>

Wait(t) ==
  /\ At(t, "post") /\ tx[t].todo # <<>>
  /\ ~Free(t, Latest(t).row)
  /\ tx' = [tx EXCEPT ![t].picked = Latest(t)]
  /\ GoTo(t, "wait")
  /\ UNCHANGED <<orderVars, payoutVars, fin, ledger>>

Resume(t) ==
  /\ At(t, "wait") /\ Free(t, tx[t].picked.row)
  /\ InsertAfter(t, tx[t].picked)
  /\ GoTo(t, "post")
  /\ UNCHANGED <<orderVars, payoutVars, fin, ledger>>

-----------------------------------------------------------------------------
(* Orders are delivered until their day is over.                           *)

Deliver(o) ==
  /\ o \notin delivered /\ Day[o] \notin over
  /\ delivered' = delivered \cup {o}
  /\ UNCHANGED <<over, runs, payoutVars, fin, ledger, tx, task>>

DayEnds(d) ==
  /\ d \notin over
  /\ over' = over \cup {d}
  /\ UNCHANGED <<delivered, runs, payoutVars, fin, ledger, tx, task>>

DeliveredOn(d) == {o \in delivered : Day[o] = d}

(* The settlement of a day: by the worker when it is over, from the        *)
(* dashboard at any time, and again whenever a run is repeated.            *)
SettleDay(t, d) ==
  /\ task[t] = Idle /\ runs < RunCap
  /\ runs' = runs + 1
  /\ task' = [task EXCEPT ![t] = Job("begin", d, (Gross - Commission) * Cardinality(DeliveredOn(d)))]
  /\ UNCHANGED <<delivered, over, payoutVars, fin, ledger, tx>>

(* recordSettlementEntries: revenue, then commission, order by order.      *)
Postings(d) ==
  [i \in 1..(2 * Cardinality(DeliveredOn(d))) |-> IF i % 2 = 1 THEN Gross ELSE -Commission]

BeginPosting(t) ==
  /\ At(t, "begin")
  /\ tx' = Open(t, Postings(task[t].row))
  /\ GoTo(t, "post")
  /\ UNCHANGED <<orderVars, payoutVars, fin, ledger>>

(* Mutant: the ledger's rows stay locked until the row is upserted.        *)
CommitPostingLate(t) ==
  /\ t \in Settlers /\ At(t, "post") /\ tx[t].todo = <<>>
  /\ ledger' = Committed(t)
  /\ tx' = [Ended(t, Leads(t)) EXCEPT ![t].held = tx[t].held]
  /\ GoTo(t, "upsert")
  /\ UNCHANGED <<orderVars, payoutVars, fin>>

CommitPosting(t) ==
  /\ t \in Settlers /\ At(t, "post") /\ tx[t].todo = <<>>
  /\ ledger' = Committed(t)
  /\ tx' = Ended(t, Leads(t))
  /\ GoTo(t, "upsert")
  /\ UNCHANGED <<orderVars, payoutVars, fin>>

(* A failure to post is logged, and the settlement goes on.                *)
PostingFails(t) ==
  /\ "fail" \in Requests
  /\ t \in Settlers /\ task[t].at \in {"post", "wait"}
  /\ tx' = Ended(t, FALSE)
  /\ GoTo(t, "upsert")
  /\ UNCHANGED <<orderVars, payoutVars, fin, ledger>>

(* The week is summed up from its daily rows once every day has one.       *)
WeekAmount == Cardinality(UNION {{d} \X (1..fin[d].amount) : d \in Days})

SettleWeek(t) ==
  /\ "week" \in Requests /\ over = Days
  /\ task[t] = Idle /\ runs < RunCap
  /\ \A d \in Days : fin[d].status # "NONE"
  /\ runs' = runs + 1
  /\ task' = [task EXCEPT ![t] = Job("upsert", Week, WeekAmount)]
  /\ UNCHANGED <<delivered, over, payoutVars, fin, ledger, tx>>

(* Mutant: the upsert resets the status of the row as well.                *)
UpsertPending(t) ==
  LET r == task[t].row IN
  /\ At(t, "upsert") /\ ~RowLocked(r)
  /\ fin' = [fin EXCEPT ![r] = [status |-> "PENDING", amount |-> task[t].amount,
                                attempts |-> @.attempts]]
  /\ Done(t)
  /\ UNCHANGED <<orderVars, payoutVars, ledger, tx>>

Upsert(t) ==
  LET r == task[t].row IN
  /\ At(t, "upsert") /\ ~RowLocked(r)
  /\ fin' = [fin EXCEPT ![r].amount = task[t].amount,
                        ![r].status = IF @ = "NONE" THEN "PENDING" ELSE @]
  /\ Done(t)
  /\ UNCHANGED <<orderVars, payoutVars, ledger, tx>>

(* recordFailureReason counts an attempt on the row, if there is one.      *)
SettlementFails(t) ==
  LET r == task[t].row IN
  /\ "fail" \in Requests
  /\ At(t, "upsert") /\ ~RowLocked(r)
  /\ fin' = [fin EXCEPT ![r].attempts = IF fin[r].status = "NONE" THEN @ ELSE Count(@)]
  /\ Done(t)
  /\ UNCHANGED <<orderVars, payoutVars, ledger, tx>>

-----------------------------------------------------------------------------
(* The weekly run adds a job for each PENDING row.  The id of a job stays  *)
(* taken for days after it has completed or failed; adding it again has    *)
(* no effect until then.  The queue may refuse ids with a colon in them,   *)
(* as BullMQ 5.70.0 does, the version locked: queue.add throws, and the    *)
(* run counts the row as skipped.                                          *)

RunWeeklyPayouts(r) ==
  /\ over = Days /\ fin[r].status = "PENDING" /\ job[r] = "none"
  /\ job' = IF TakesColonIds THEN [job EXCEPT ![r] = "waiting"] ELSE job
  /\ UNCHANGED <<orderVars, fin, credited, failures, ledger, tx, task>>

ForgetJob(r) ==
  /\ job[r] = "done"
  /\ job' = [job EXCEPT ![r] = "none"]
  /\ UNCHANGED <<orderVars, fin, credited, failures, ledger, tx, task>>

(* The worker stopped answering: the queue hands the job to another one.   *)
StallJob(r) ==
  /\ "stall" \in Requests
  /\ job[r] = "active"
  /\ job' = [job EXCEPT ![r] = "waiting"]
  /\ UNCHANGED <<orderVars, fin, credited, failures, ledger, tx, task>>

Finished(r) == [job EXCEPT ![r] = "done"]
Take(t, r) == task[t] = Idle /\ job[r] = "waiting" /\ ~RowLocked(r)

(* Mutant: only a row that is PAID already is left alone.                  *)
EligibleUnpaid(r) == fin[r].status \notin {"NONE", "PAID"}
Eligible(r) == fin[r].status = "PENDING"

IgnorePayout(t, r) ==
  /\ Take(t, r) /\ ~Eligible(r)
  /\ job' = Finished(r)
  /\ UNCHANGED <<orderVars, fin, credited, failures, ledger, tx, task>>

(* hasCompleteBankDetails of the shop, which its staff may edit any time.  *)
HoldForBank(t, r) ==
  /\ "bank" \in Requests
  /\ Take(t, r) /\ Eligible(r)
  /\ fin' = [fin EXCEPT ![r].status = "HELD"]
  /\ job' = Finished(r)
  /\ UNCHANGED <<orderVars, credited, failures, ledger, tx, task>>

StartPayout(t, r) ==
  /\ Take(t, r) /\ Eligible(r)
  /\ job' = [job EXCEPT ![r] = "active"]
  /\ tx' = Open(t, IF fin[r].amount > 0 THEN <<fin[r].amount>> ELSE <<>>)
  /\ task' = [task EXCEPT ![t] = Job("disburse", r, fin[r].amount)]
  /\ UNCHANGED <<orderVars, fin, credited, failures, ledger>>

Disburse(t) ==
  /\ At(t, "disburse")
  /\ GoTo(t, "post")
  /\ UNCHANGED <<orderVars, payoutVars, fin, ledger, tx>>

(* Mutant: the row is left as it was locked.                               *)
CommitPayoutProcessing(t) ==
  LET r == task[t].row IN
  /\ t \in Payers /\ At(t, "post") /\ tx[t].todo = <<>>
  /\ fin' = [fin EXCEPT ![r].status = "PROCESSING"]
  /\ ledger' = Committed(t)
  /\ tx' = Ended(t, Leads(t))
  /\ job' = Finished(r)
  /\ Done(t)
  /\ UNCHANGED <<orderVars, credited, failures>>

CommitPayout(t) ==
  LET r == task[t].row IN
  /\ t \in Payers /\ At(t, "post") /\ tx[t].todo = <<>>
  /\ fin' = [fin EXCEPT ![r].status = "PAID"]
  /\ credited' = IF tx[t].mine THEN [credited EXCEPT ![r] = @ + 1] ELSE credited
  /\ ledger' = Committed(t)
  /\ tx' = Ended(t, Leads(t))
  /\ job' = Finished(r)
  /\ Done(t)
  /\ UNCHANGED <<orderVars, failures>>

(* The disbursement throws: the transaction is rolled back, and another    *)
(* one counts the failure, on whatever the row has become.                 *)
DisbursementFails(t) ==
  /\ "fail" \in Requests
  /\ At(t, "disburse")
  /\ tx' = Ended(t, FALSE)
  /\ GoTo(t, "failed")
  /\ UNCHANGED <<orderVars, payoutVars, fin, ledger>>

(* Mutant: the third failure is let pass.                                  *)
GivesUpLater(attempts) == attempts > MaxAttempts
GivesUp(attempts) == attempts >= MaxAttempts

HandleDisbursementFailure(t) ==
  LET r == task[t].row
      attempts == Count(fin[r].attempts)
  IN
  /\ At(t, "failed") /\ ~RowLocked(r)
  /\ fin' = [fin EXCEPT ![r].attempts = attempts,
                        ![r].status = IF @ = "PENDING" /\ GivesUp(attempts) THEN "HELD" ELSE @]
  /\ failures' = [failures EXCEPT ![r] = Count(@)]
  /\ job' = Finished(r)
  /\ Done(t)
  /\ UNCHANGED <<orderVars, credited, ledger, tx>>

(* The worker dies, or a statement throws: what was not committed is       *)
(* rolled back; the queue tries a payout's job again, or has given it up.  *)
Crash(t) ==
  /\ "crash" \in Requests /\ task[t] # Idle
  /\ tx' = Ended(t, FALSE)
  /\ \E after \in {"waiting", "done"} :
       job' = IF t \in Payers THEN [job EXCEPT ![task[t].row] = after] ELSE job
  /\ Done(t)
  /\ UNCHANGED <<orderVars, fin, credited, failures, ledger>>

-----------------------------------------------------------------------------
(* The dashboard.                                                          *)

SetHold(r) ==
  /\ "hold" \in Requests
  /\ fin[r].status = "PENDING" /\ ~RowLocked(r)
  /\ fin' = [fin EXCEPT ![r].status = "HELD"]
  /\ UNCHANGED <<orderVars, payoutVars, ledger, tx, task>>

ReleaseHold(r) ==
  /\ "hold" \in Requests
  /\ fin[r].status = "HELD" /\ ~RowLocked(r)
  /\ fin' = [fin EXCEPT ![r].status = "PENDING"]
  /\ failures' = [failures EXCEPT ![r] = 0]
  /\ UNCHANGED <<orderVars, job, credited, ledger, tx, task>>

MarkPaid(r) ==
  /\ "byHand" \in Requests
  /\ fin[r].status = "PENDING" /\ ~RowLocked(r)
  /\ fin' = [fin EXCEPT ![r].status = "PAID"]
  /\ UNCHANGED <<orderVars, payoutVars, ledger, tx, task>>

-----------------------------------------------------------------------------
Init ==
  /\ delivered = {} /\ over = {} /\ runs = 0
  /\ fin = [r \in Rows |-> NoRow]
  /\ job = [r \in Rows |-> "none"]
  /\ credited = [r \in Rows |-> 0]
  /\ failures = [r \in Rows |-> 0]
  /\ ledger = [row |-> 0, balance |-> 0, total |-> 0]
  /\ tx = [t \in Tasks |-> NoTx]
  /\ task = [t \in Tasks |-> Idle]

Settling ==
  \/ \E o \in Orders : Deliver(o)
  \/ \E d \in Days : DayEnds(d)
  \/ \E t \in Settlers, d \in Days : SettleDay(t, d)
  \/ \E t \in Settlers : BeginPosting(t) \/ CommitPosting(t) \/ PostingFails(t)
                         \/ SettleWeek(t) \/ Upsert(t) \/ SettlementFails(t)

Appending == \E t \in Tasks : AppendEntry(t) \/ Wait(t) \/ Resume(t)

PayingOut ==
  \/ \E r \in Rows : RunWeeklyPayouts(r) \/ ForgetJob(r) \/ StallJob(r)
  \/ \E t \in Payers, r \in Rows : IgnorePayout(t, r) \/ HoldForBank(t, r) \/ StartPayout(t, r)
  \/ \E t \in Payers : Disburse(t) \/ CommitPayout(t) \/ DisbursementFails(t)
                       \/ HandleDisbursementFailure(t)

Managing ==
  \E r \in Rows : SetHold(r) \/ ReleaseHold(r) \/ MarkPaid(r)

Next == Settling \/ Appending \/ PayingOut \/ Managing \/ \E t \in Tasks : Crash(t)

Spec == Init /\ [][Next]_vars

(* Statements in progress end; the cron runs every week, and a worker      *)
(* takes each job in the queue; the queue forgets its old jobs; and the    *)
(* workers do not die, nor stop answering, for ever.                       *)
PayoutStep(t) ==
  Disburse(t) \/ DisbursementFails(t) \/ AppendEntry(t) \/ Wait(t) \/ CommitPayout(t)
Fairness ==
  /\ \A r \in Rows : WF_vars(RunWeeklyPayouts(r)) /\ WF_vars(ForgetJob(r))
                     /\ SF_vars(\E t \in Payers : IgnorePayout(t, r) \/ HoldForBank(t, r)
                                                 \/ StartPayout(t, r))
  /\ \A t \in Payers : WF_vars(PayoutStep(t)) /\ SF_vars(Resume(t))
                       /\ SF_vars(HandleDisbursementFailure(t))
  /\ \A t \in Settlers : WF_vars(BeginPosting(t)) /\ WF_vars(AppendEntry(t) \/ Wait(t) \/ CommitPosting(t))
                         /\ SF_vars(Resume(t)) /\ SF_vars(Upsert(t) \/ SettlementFails(t))
  /\ <>[][\A t \in Tasks : ~Crash(t)]_vars

FairSpec == Spec /\ Fairness

-----------------------------------------------------------------------------
(* Values of the variables.                                                *)
TypeOK ==
  /\ delivered \subseteq Orders /\ over \subseteq Days /\ runs \in 0..RunCap
  /\ fin \in [Rows -> [status : {"NONE", "PENDING", "HELD", "PAID"}, amount : Nat,
                       attempts : 0..MaxAttempts]]
  /\ job \in [Rows -> {"none", "waiting", "active", "done"}]
  /\ credited \in [Rows -> Nat] /\ failures \in [Rows -> 0..MaxAttempts]
  /\ ledger \in [row : Nat, balance : Int, total : Int]
  /\ tx \in [Tasks -> [open : BOOLEAN, before : SUBSET Tasks, behind : BOOLEAN, mine : BOOLEAN,
                      top : Int, sum : Int, todo : Seq(Int),
                      picked : [row : Nat, balance : Int], held : SUBSET Nat]]
  /\ task \in [Tasks -> [at : {"idle", "begin", "post", "wait", "upsert", "disburse", "failed"},
                        row : Rows, amount : Nat]]

(* A payout lives as payout-state-machine.js says, through stalled and     *)
(* crashed workers, holds, payments by hand and repeated settlements: PAID *)
(* is final, HELD is left by a release only, and the ledger has at most    *)
(* one entry of it, written when it is PAID.                               *)
PayoutState(r) == IF RowLocked(r) THEN "PROCESSING" ELSE fin[r].status
Machine == INSTANCE PayoutMachine WITH
  state <- [r \in Rows |-> PayoutState(r)], entries <- credited
MachineKept == Machine!Spec

(* A payout that failed three times since it was last released is HELD for *)
(* review, or PAID by hand, although the failure is counted after the lock *)
(* of the row was given up.                                                *)
HeldAfterThree == \A r \in Rows : failures[r] >= 3 => fin[r].status \in {"HELD", "PAID"}

(* Settlements and payouts do not wait for each other in a circle: a       *)
(* payout holds its row of shop_financials while it waits for the ledger,  *)
(* a settlement that waits for that row has given its ledger rows up, and  *)
(* appends lock the ledger's rows in one direction.                        *)
WaitsFor(t, s) ==
  \/ At(t, "wait") /\ tx[t].picked.row \in tx[s].held
  \/ /\ task[t].at \in {"upsert", "failed"} /\ task[s].row = task[t].row
     /\ s \in Payers /\ task[s].at \in {"disburse", "post", "wait"}
NoWaitCycle ==
  \A S \in SUBSET Tasks : S # {} => \E t \in S : \A s \in S \ {t} : ~WaitsFor(t, s)

(* runWeeklyPayouts: "Identify every PENDING shop_financials row ... and   *)
(* enqueue a process-payout job per row".  So no row stays PENDING once    *)
(* the week is over: it is paid, or held for somebody to look at.          *)
PendingIsDecided ==
  \A r \in Rows : (over = Days /\ fin[r].status = "PENDING") ~> fin[r].status # "PENDING"

(* Migration 035: balance_after "is the sum of all preceding entries for   *)
(* the Shop", "computed under SELECT FOR UPDATE ... to prevent concurrent  *)
(* races".  Here even with no transaction open at the same time.           *)
BalanceIsSum == (\A t \in Tasks : ~tx[t].open) => ledger.balance = ledger.total
=============================================================================

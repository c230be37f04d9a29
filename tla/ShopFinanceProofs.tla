------------------------- MODULE ShopFinanceProofs -------------------------
(***************************************************************************)
(* Payouts of ShopFinance for any number of days, orders, settlements and  *)
(* payouts.  StateInv says which steps a task can be at; PayoutInv that    *)
(* one payout at a time holds a row, which is PENDING, and that no failure *)
(* goes uncounted on its row; OrdersInv that the orders behind the amounts *)
(* are finitely many; LedgerInv that rows of the ledger are locked by one  *)
(* transaction each, from older to newer, and only while it appends.       *)
(***************************************************************************)
EXTENDS ShopFinance, FiniteSetTheorems, SequenceTheorems, TLAPS

HoldSteps == {"disburse", "post", "wait"}
PayerSteps == HoldSteps \cup {"idle", "failed"}
SettlerSteps == {"idle", "begin", "post", "wait", "upsert"}
StepsOf(t) == IF t \in Payers THEN PayerSteps ELSE SettlerSteps
Steps == PayerSteps \cup SettlerSteps

Record == [status : {"NONE", "PENDING", "HELD", "PAID"}, amount : Nat, attempts : 0..MaxAttempts]
JobRecord == [at : Steps, row : Rows, amount : Nat]

(* The payout t works on the row r and has it locked.                      *)
Holds(t, r) == task[t].row = r /\ task[t].at \in HoldSteps

StateInv ==
  /\ fin \in [Rows -> Record] /\ task \in [Tasks -> JobRecord]
  /\ \A t \in Tasks : task[t].at \in StepsOf(t)
  /\ credited \in [Rows -> Nat]
  /\ failures \in [Rows -> 0..MaxAttempts]

PayoutInv ==
  /\ \A t \in Payers, r \in Rows : Holds(t, r) => fin[r].status = "PENDING"
  /\ \A s, t \in Payers, r \in Rows : Holds(s, r) /\ Holds(t, r) => s = t
  /\ \A t \in Payers : At(t, "failed") => fin[task[t].row].status # "NONE"
  /\ \A r \in Rows : failures[r] <= fin[r].attempts
  /\ HeldAfterThree

Inv == StateInv /\ PayoutInv

(* The orders and days behind the settlements, and the queue.              *)
OrdersInv ==
  /\ delivered \subseteq Orders /\ IsFiniteSet(delivered)
  /\ over \subseteq Days /\ runs \in 0..RunCap
  /\ job \in [Rows -> {"none", "waiting", "active", "done"}]

-----------------------------------------------------------------------------
(* The shape of states and steps.                                          *)

(* A row is locked when a payout holds it.                                 *)
LEMMA LockedHeld == \A r : RowLocked(r) <=> \E t \in Payers : Holds(t, r)
  BY DEF RowLocked, Holds, HoldSteps

(* Whether a payout holds a row is a matter of its task alone.             *)
LEMMA SameTasks ==
  ASSUME task' = task
  PROVE  /\ \A t, r : Holds(t, r)' <=> Holds(t, r)
         /\ \A r : RowLocked(r)' <=> RowLocked(r)
  BY DEF Holds, RowLocked

(* Rows and jobs have their fields.                                        *)
LEMMA Shapes ==
  ASSUME StateInv
  PROVE  /\ \A r \in Rows : /\ fin[r].status \in {"NONE", "PENDING", "HELD", "PAID"}
                            /\ fin[r].attempts \in 0..MaxAttempts
                            /\ fin[r].amount \in Nat
         /\ \A t \in Tasks : task[t].row \in Rows /\ task[t].amount \in Nat
         /\ \A t \in Payers : t \in Tasks /\ task[t].at \in PayerSteps
         /\ \A t \in Settlers : t \in Tasks /\ t \notin Payers /\ task[t].at \in SettlerSteps
<1>2. \A r \in Rows : fin[r] \in Record BY DEF StateInv
<1>3. \A t \in Tasks : task[t] \in JobRecord BY DEF StateInv
<1>4. \A t \in Payers : t \in Tasks BY DEF Tasks
<1>5. \A t \in Settlers : t \in Tasks /\ t \notin Payers BY ConstantsAssumption DEF Tasks
<1>. QED BY <1>2, <1>3, <1>4, <1>5 DEF StateInv, Record, JobRecord, StepsOf

(* The next attempt.                                                       *)
LEMMA CountType ==
  \A n \in 0..MaxAttempts : /\ Count(n) \in 0..MaxAttempts
                            /\ Count(n) >= n
                            /\ \A m \in 0..MaxAttempts : m <= n => Count(m) <= Count(n)
  BY DEF Count, MaxAttempts

(* A task that moves to another job moves alone.                           *)
LEMMA OneMoves ==
  ASSUME StateInv, NEW t \in Tasks, NEW job0, task' = [task EXCEPT ![t] = job0]
  PROVE  task'[t] = job0 /\ \A s \in Tasks : s # t => task'[s] = task[s]
  BY DEF StateInv

(* A step of a function in progress keeps its row.                         *)
LEMMA OneGoes ==
  ASSUME StateInv, NEW t \in Tasks, NEW step \in Steps, GoTo(t, step)
  PROVE  \E job0 : /\ task' = [task EXCEPT ![t] = job0]
                   /\ job0 = Job(step, task[t].row, task[t].amount)
<1>2. task[t] \in JobRecord BY DEF StateInv
<1>3. [task[t] EXCEPT !.at = step] = Job(step, task[t].row, task[t].amount)
  BY <1>2 DEF JobRecord, Job
<1>4. task' = [task EXCEPT ![t] = [task[t] EXCEPT !.at = step]] BY DEF GoTo, StateInv
<1>. QED BY <1>3, <1>4

(* Rows and jobs stay typed when one of each is written.                   *)
LEMMA TypedKept ==
  ASSUME StateInv,
         \/ task' = task
         \/ \E t \in Tasks : \E step \in StepsOf(t), r \in Rows, a \in Nat :
              task' = [task EXCEPT ![t] = Job(step, r, a)],
         NEW q \in Rows, NEW b \in Nat, NEW x \in {"NONE", "PENDING", "HELD", "PAID"},
         NEW n \in 0..MaxAttempts,
         \/ fin' = fin
         \/ fin' = [fin EXCEPT ![q] = [status |-> x, amount |-> b, attempts |-> n]],
         credited' \in [Rows -> Nat], failures' \in [Rows -> 0..MaxAttempts]
  PROVE  StateInv'
<1>1. [status |-> x, amount |-> b, attempts |-> n] \in Record BY DEF Record
<1>2. task' \in [Tasks -> JobRecord] /\ \A s \in Tasks : task'[s].at \in StepsOf(s)
  <2>1. CASE task' = task BY <2>1 DEF StateInv
  <2>2. ASSUME NEW t \in Tasks, NEW step \in StepsOf(t), NEW r \in Rows, NEW a \in Nat,
               task' = [task EXCEPT ![t] = Job(step, r, a)]
        PROVE  task' \in [Tasks -> JobRecord] /\ \A s \in Tasks : task'[s].at \in StepsOf(s)
    <3>1. Job(step, r, a) \in JobRecord BY DEF Job, JobRecord, StepsOf, Steps
    <3>2. task'[t] = Job(step, r, a) /\ \A s \in Tasks : s # t => task'[s] = task[s]
      BY <2>2, OneMoves
    <3>. QED BY <2>2, <3>1, <3>2 DEF Job, StateInv
  <2>. QED BY <2>1, <2>2
<1>3. fin' \in [Rows -> Record] BY <1>1 DEF StateInv
<1>. QED BY <1>2, <1>3 DEF StateInv, Record, JobRecord

(* The status of a row is written alone.                                   *)
LEMMA StatusWrite ==
  ASSUME StateInv, NEW q \in Rows, NEW x
  PROVE  [fin EXCEPT ![q].status = x]
           = [fin EXCEPT ![q] = [status |-> x, amount |-> fin[q].amount, attempts |-> fin[q].attempts]]
<1>2. fin[q] \in Record BY DEF StateInv
<1>3. [fin[q] EXCEPT !.status = x] = [status |-> x, amount |-> fin[q].amount, attempts |-> fin[q].attempts]
  BY <1>2 DEF Record
<1>. QED BY <1>3

(* The attempts of a row are written alone.                                *)
LEMMA AttemptsWrite ==
  ASSUME StateInv, NEW q \in Rows, NEW n
  PROVE  [fin EXCEPT ![q].attempts = n]
           = [fin EXCEPT ![q] = [status |-> fin[q].status, amount |-> fin[q].amount, attempts |-> n]]
<1>2. fin[q] \in Record BY DEF StateInv
<1>3. [fin[q] EXCEPT !.attempts = n] = [status |-> fin[q].status, amount |-> fin[q].amount, attempts |-> n]
  BY <1>2 DEF Record
<1>. QED BY <1>3

(* The amount and the status of a row are written together.                *)
LEMMA AmountWrite ==
  ASSUME StateInv, NEW q \in Rows, NEW x, NEW b
  PROVE  [fin EXCEPT ![q].amount = b, ![q].status = x]
           = [fin EXCEPT ![q] = [status |-> x, amount |-> b, attempts |-> fin[q].attempts]]
<1>2. fin[q] \in Record /\ DOMAIN fin = Rows BY DEF StateInv
<1>3. [[fin[q] EXCEPT !.amount = b] EXCEPT !.status = x] = [status |-> x, amount |-> b, attempts |-> fin[q].attempts]
  <2>. DEFINE g == [fin[q] EXCEPT !.amount = b]
  <2>1. g = [status |-> fin[q].status, amount |-> b, attempts |-> fin[q].attempts]
    BY <1>2 DEF Record
  <2>. HIDE DEF g
  <2>2. [g EXCEPT !.status = x] = [status |-> x, amount |-> b, attempts |-> fin[q].attempts]
    BY <2>1
  <2>. QED BY <2>2 DEF g
<1>4. [fin EXCEPT ![q].amount = b, ![q].status = x]
        = [fin EXCEPT ![q] = [[fin[q] EXCEPT !.amount = b] EXCEPT !.status = x]]
  <2>. DEFINE g == [fin EXCEPT ![q].amount = b]
  <2>1. g[q] = [fin[q] EXCEPT !.amount = b] /\ DOMAIN g = Rows BY <1>2
  <2>2. \A r \in Rows : r # q => g[r] = fin[r] BY <1>2
  <2>3. [fin EXCEPT ![q].amount = b, ![q].status = x] = [g EXCEPT ![q].status = x] OBVIOUS
  <2>. HIDE DEF g
  <2>4. [g EXCEPT ![q].status = x]
          = [r \in Rows |-> IF r = q THEN [g[q] EXCEPT !.status = x] ELSE g[r]]
    BY <2>1
  <2>5. @ = [r \in Rows |-> IF r = q THEN [[fin[q] EXCEPT !.amount = b] EXCEPT !.status = x]
                                     ELSE fin[r]]
    BY <2>1, <2>2
  <2>. QED BY <1>2, <2>3, <2>4, <2>5
<1>. QED BY <1>3, <1>4

(* The attempts and the status of a row are written together.              *)
LEMMA CountWrite ==
  ASSUME StateInv, NEW q \in Rows, NEW x, NEW n
  PROVE  [fin EXCEPT ![q].attempts = n, ![q].status = x]
           = [fin EXCEPT ![q] = [status |-> x, amount |-> fin[q].amount, attempts |-> n]]
<1>2. fin[q] \in Record /\ DOMAIN fin = Rows BY DEF StateInv
<1>3. [[fin[q] EXCEPT !.attempts = n] EXCEPT !.status = x] = [status |-> x, amount |-> fin[q].amount, attempts |-> n]
  <2>. DEFINE g == [fin[q] EXCEPT !.attempts = n]
  <2>1. g = [status |-> fin[q].status, amount |-> fin[q].amount, attempts |-> n]
    BY <1>2 DEF Record
  <2>. HIDE DEF g
  <2>2. [g EXCEPT !.status = x] = [status |-> x, amount |-> fin[q].amount, attempts |-> n]
    BY <2>1
  <2>. QED BY <2>2 DEF g
<1>4. [fin EXCEPT ![q].attempts = n, ![q].status = x]
        = [fin EXCEPT ![q] = [[fin[q] EXCEPT !.attempts = n] EXCEPT !.status = x]]
  <2>. DEFINE g == [fin EXCEPT ![q].attempts = n]
  <2>1. g[q] = [fin[q] EXCEPT !.attempts = n] /\ DOMAIN g = Rows BY <1>2
  <2>2. \A r \in Rows : r # q => g[r] = fin[r] BY <1>2
  <2>3. [fin EXCEPT ![q].attempts = n, ![q].status = x] = [g EXCEPT ![q].status = x] OBVIOUS
  <2>. HIDE DEF g
  <2>4. [g EXCEPT ![q].status = x]
          = [r \in Rows |-> IF r = q THEN [g[q] EXCEPT !.status = x] ELSE g[r]]
    BY <2>1
  <2>5. @ = [r \in Rows |-> IF r = q THEN [[fin[q] EXCEPT !.attempts = n] EXCEPT !.status = x]
                                     ELSE fin[r]]
    BY <2>1, <2>2
  <2>. QED BY <1>2, <2>3, <2>4, <2>5
<1>. QED BY <1>3, <1>4

(* A row that is written is written alone.                                 *)
LEMMA OneRow ==
  ASSUME StateInv, NEW q \in Rows, NEW row0, fin' = [fin EXCEPT ![q] = row0]
  PROVE  fin'[q] = row0 /\ \A r \in Rows : r # q => fin'[r] = fin[r]
  BY DEF StateInv

-----------------------------------------------------------------------------
(* What settlements add up.                                                *)

(* Of finitely many orders those of a day are counted by a number.         *)
LEMMA DayCountType ==
  ASSUME OrdersInv, NEW d
  PROVE  Cardinality(DeliveredOn(d)) \in Nat
<1>1. DeliveredOn(d) \in SUBSET delivered BY DEF DeliveredOn
<1>. QED BY <1>1, FS_Subset, FS_CardinalityType DEF OrdersInv

(* What a day earns is a number, not less than 0.                          *)
LEMMA DayAmountType ==
  ASSUME OrdersInv, NEW d
  PROVE  (Gross - Commission) * Cardinality(DeliveredOn(d)) \in Nat
<1>1. \A m, n \in Nat : m * n \in Nat OBVIOUS
<1>2. Gross - Commission \in Nat BY ConstantsAssumption
<1>. QED BY <1>1, <1>2, DayCountType

(* So is what the finitely many days of the week add up to.                *)
LEMMA WeekAmountType ==
  ASSUME StateInv
  PROVE  WeekAmount \in Nat
<1>. DEFINE Part(d) == {d} \X (1..fin[d].amount)
            f == [d \in Days |-> Part(d)]
            Parts == {Part(d) : d \in Days}
<1>1. f \in Surjection(Days, Parts) BY DEF Surjection
<1>2. IsFiniteSet(Parts) BY <1>1, FS_Surjection, ConstantsAssumption
<1>3. ASSUME NEW d \in Days PROVE IsFiniteSet(Part(d))
  <2>1. fin[d].amount \in Nat BY Shapes DEF Rows
  <2>2. IsFiniteSet({d}) BY FS_Singleton
  <2>3. IsFiniteSet(1..fin[d].amount) BY <2>1, FS_Interval
  <2>. QED BY <2>2, <2>3, FS_Product
<1>4. IsFiniteSet(UNION Parts)
  <2>1. \A P \in Parts : IsFiniteSet(P) BY <1>3
  <2>. HIDE DEF Parts
  <2>. QED BY <1>2, <2>1, FS_UNION
<1>. QED BY <1>4, FS_CardinalityType DEF WeekAmount

-----------------------------------------------------------------------------
(* Steps of the payouts' table.                                            *)
Refines == Machine!Next \/ UNCHANGED Machine!vars

(* A step that moves one row in the table.                                 *)
LEMMA Moved ==
  ASSUME NEW r \in Rows, NEW from, NEW to,
         \A s \in Rows : s # r => PayoutState(s)' = PayoutState(s),
         PayoutState(r) = from, PayoutState(r)' = to, credited' = credited
  PROVE  Machine!Move(r, from, to)
<1>. DEFINE S == [s \in Rows |-> PayoutState(s)]
<1>1. [s \in Rows |-> PayoutState(s)'] = [S EXCEPT ![r] = to] OBVIOUS
<1>. QED BY <1>1 DEF Machine!Move

(* A step that moves none.                                                 *)
LEMMA NotMoved ==
  ASSUME \A s \in Rows : PayoutState(s)' = PayoutState(s), credited' = credited
  PROVE  UNCHANGED Machine!vars
  BY DEF Machine!vars

(* One task moves, and takes no row it did not hold; the tables stay.      *)
LEMMA TaskAside ==
  ASSUME Inv, NEW t \in Tasks, NEW step \in StepsOf(t), NEW r \in Rows, NEW a \in Nat,
         task' = [task EXCEPT ![t] = Job(step, r, a)],
         t \in Payers /\ step \in HoldSteps \cup {"failed"} => Holds(t, r),
         UNCHANGED <<fin, failures, credited>>
  PROVE  Inv' /\ Refines
<1>. USE DEF Inv
<1>1. task'[t] = Job(step, r, a) /\ \A s \in Tasks : s # t => task'[s] = task[s] BY OneMoves
<1>2. StateInv'
  <2>1. /\ fin' = fin /\ credited' \in [Rows -> Nat] /\ failures' \in [Rows -> 0..MaxAttempts]
        /\ 0 \in Nat /\ 0 \in 0..MaxAttempts
    BY DEF StateInv, MaxAttempts
  <2>. QED BY <2>1, TypedKept
<1>3. \A s \in Payers : s \in Tasks BY Shapes
<1>4. \A s \in Payers, q \in Rows : Holds(s, q)' => Holds(s, q)
  <2>1. \A s \in Payers, q \in Rows : s # t => (Holds(s, q)' <=> Holds(s, q))
    BY <1>1, <1>3 DEF Holds
  <2>2. t \in Payers => \A q \in Rows : Holds(t, q)' => Holds(t, q)
    BY <1>1 DEF Holds, Job, HoldSteps
  <2>. QED BY <2>1, <2>2
<1>5. PayoutInv'
  <2>1. ASSUME NEW s \in Payers, At(s, "failed")' PROVE fin'[task'[s].row].status # "NONE"
    <3>1. CASE s # t BY <2>1, <3>1, <1>1, <1>3 DEF PayoutInv, At
    <3>2. CASE s = t
      <4>1. step = "failed" /\ task'[s].row = r BY <2>1, <3>2, <1>1 DEF At, Job
      <4>2. fin[r].status = "PENDING" BY <2>1, <3>2, <4>1 DEF PayoutInv
      <4>. QED BY <4>1, <4>2
    <3>. QED BY <3>1, <3>2
  <2>. QED BY <2>1, <1>4 DEF PayoutInv, HeldAfterThree
<1>6. Refines
  <2>1. CASE \A q \in Rows : RowLocked(q)' <=> RowLocked(q)
    BY <2>1, NotMoved DEF PayoutState, Refines
  <2>2. ASSUME NEW q \in Rows, ~(RowLocked(q)' <=> RowLocked(q)) PROVE Refines
    <3>1. \A s \in Payers, p \in Rows : s # t => (Holds(s, p)' <=> Holds(s, p))
      BY <1>1, <1>3 DEF Holds
    <3>2. \A p \in Rows : RowLocked(p)' <=> \E s \in Payers : Holds(s, p)'
      BY DEF RowLocked, Holds, HoldSteps
    <3>3. RowLocked(q) /\ ~RowLocked(q)' BY <2>2, <3>2, <1>4, LockedHeld
    <3>4. t \in Payers /\ Holds(t, q) BY <3>1, <3>2, <3>3, LockedHeld
    <3>5. \A p \in Rows : p # q => (RowLocked(p)' <=> RowLocked(p))
      <4>1. \A p \in Rows : p # q => ~Holds(t, p) BY <3>4 DEF Holds
      <4>. QED BY <4>1, <3>1, <3>2, <1>4, LockedHeld
    <3>6. fin[q].status = "PENDING" BY <3>4 DEF PayoutInv
    <3>7. Machine!Move(q, "PROCESSING", "PENDING")
      <4>1. PayoutState(q) = "PROCESSING" /\ PayoutState(q)' = "PENDING"
        BY <3>3, <3>6 DEF PayoutState
      <4>2. \A p \in Rows : p # q => PayoutState(p)' = PayoutState(p)
        BY <3>5 DEF PayoutState
      <4>. QED BY <4>1, <4>2, Moved
    <3>. QED BY <3>7 DEF Refines, Machine!Next, Machine!Fail
  <2>. QED BY <2>1, <2>2
<1>. QED BY <1>2, <1>5, <1>6

(* What a write outside a payout's transaction makes of a row's status.    *)
Writes == {<<"NONE", "PENDING">>, <<"PENDING", "HELD">>, <<"HELD", "PENDING">>,
           <<"PENDING", "PAID">>}

(* A row that no payout holds is written, by a request or by a task that   *)
(* is done with it.                                                        *)
LEMMA RowAside ==
  ASSUME Inv, NEW q \in Rows, ~RowLocked(q), NEW x \in {"NONE", "PENDING", "HELD", "PAID"},
         NEW b \in Nat, NEW n \in 0..MaxAttempts, NEW m \in 0..MaxAttempts,
         fin' = [fin EXCEPT ![q] = [status |-> x, amount |-> b, attempts |-> n]],
         failures' = [failures EXCEPT ![q] = m], m <= n, m >= 3 => x \in {"HELD", "PAID"},
         x = fin[q].status \/ <<fin[q].status, x>> \in Writes,
         task' = task \/ \E t \in Tasks : Done(t) /\ task[t].at \in {"upsert", "failed"},
         credited' = credited
  PROVE  Inv' /\ Refines
<1>. USE DEF Inv
<1>1. /\ fin'[q] = [status |-> x, amount |-> b, attempts |-> n]
      /\ \A r \in Rows : r # q => fin'[r] = fin[r]
  BY OneRow
<1>2. failures'[q] = m /\ \A r \in Rows : r # q => failures'[r] = failures[r]
  BY DEF StateInv
<1>3. \A s \in Payers : s \in Tasks BY Shapes
<1>4. Week \in Rows /\ \A t \in Tasks : "idle" \in StepsOf(t)
  BY DEF Rows, StepsOf, PayerSteps, SettlerSteps
<1>5. StateInv'
  <2>1. credited' \in [Rows -> Nat] /\ failures' \in [Rows -> 0..MaxAttempts] BY DEF StateInv
  <2>2. \/ task' = task
        \/ \E t \in Tasks : \E step \in StepsOf(t), r \in Rows, a \in Nat :
             task' = [task EXCEPT ![t] = Job(step, r, a)]
    BY <1>4 DEF Done, Idle
  <2>. QED BY <2>1, <2>2, TypedKept
<1>6. /\ \A s \in Payers, r \in Rows : Holds(s, r)' <=> Holds(s, r)
      /\ \A s \in Payers : At(s, "failed")' => At(s, "failed") /\ task'[s].row = task[s].row
  <2>1. CASE task' = task BY <2>1 DEF Holds, At
  <2>2. ASSUME NEW t \in Tasks, Done(t), task[t].at \in {"upsert", "failed"}
        PROVE  /\ \A s \in Payers, r \in Rows : Holds(s, r)' <=> Holds(s, r)
               /\ \A s \in Payers : At(s, "failed")' => At(s, "failed") /\ task'[s].row = task[s].row
    <3>1. task'[t] = Idle /\ \A s \in Tasks : s # t => task'[s] = task[s]
      BY <2>2, OneMoves DEF Done
    <3>. QED BY <2>2, <3>1, <1>3 DEF Holds, At, Idle, Job, HoldSteps
  <2>. QED BY <2>1, <2>2
<1>7. \A r \in Rows : RowLocked(r)' <=> RowLocked(r)
  <2>1. \A r \in Rows : RowLocked(r)' <=> \E s \in Payers : Holds(s, r)'
    BY DEF RowLocked, Holds, HoldSteps
  <2>. QED BY <2>1, <1>6, LockedHeld
<1>8. PayoutInv'
  <2>1. \A s \in Payers, r \in Rows : Holds(s, r)' => fin'[r].status = "PENDING"
    BY <1>1, <1>6, LockedHeld DEF PayoutInv
  <2>2. \A s \in Payers : At(s, "failed")' => fin'[task'[s].row].status # "NONE"
    BY <1>1, <1>3, <1>6, Shapes DEF PayoutInv, Writes
  <2>3. \A r \in Rows : failures'[r] <= fin'[r].attempts BY <1>1, <1>2 DEF PayoutInv
  <2>4. HeldAfterThree' BY <1>1, <1>2 DEF PayoutInv, HeldAfterThree
  <2>. QED BY <2>1, <2>2, <2>3, <2>4, <1>6 DEF PayoutInv
<1>9. Refines
  <2>1. /\ \A r \in Rows : r # q => PayoutState(r)' = PayoutState(r)
        /\ PayoutState(q) = fin[q].status /\ PayoutState(q)' = x
    BY <1>1, <1>7 DEF PayoutState
  <2>2. CASE x = fin[q].status BY <2>1, <2>2, NotMoved DEF Refines
  <2>3. CASE <<fin[q].status, x>> \in Writes
    <3>1. Machine!Move(q, fin[q].status, x) BY <2>1, Moved
    <3>. QED
      BY <2>3, <3>1 DEF Writes, Refines, Machine!Next, Machine!Settle, Machine!Hold,
         Machine!Release, Machine!MarkPaid
  <2>. QED BY <2>2, <2>3
<1>. QED BY <1>5, <1>8, <1>9

-----------------------------------------------------------------------------
(* The steps of the program.                                               *)

(* A step that touches neither tasks nor rows.                             *)
LEMMA NothingMoves ==
  ASSUME Inv, UNCHANGED <<fin, task, credited, failures>>
  PROVE  Inv' /\ Refines
<1>1. StateInv' BY DEF Inv, StateInv, Record, JobRecord
<1>2. PayoutInv' BY SameTasks DEF Inv, PayoutInv, At, HeldAfterThree
<1>3. \A r \in Rows : PayoutState(r)' = PayoutState(r) BY SameTasks DEF PayoutState
<1>. QED BY <1>1, <1>2, <1>3, NotMoved DEF Inv, Refines

(* A function in progress goes on, or its request failed.                  *)
LEMMA GoesOn ==
  ASSUME Inv, NEW t \in Tasks, NEW step \in StepsOf(t), GoTo(t, step),
         t \in Payers /\ step \in HoldSteps \cup {"failed"} => task[t].at \in HoldSteps,
         UNCHANGED <<fin, failures, credited>>
  PROVE  Inv' /\ Refines
<1>1. step \in Steps BY DEF StepsOf, Steps
<1>2. PICK job0 : /\ task' = [task EXCEPT ![t] = job0]
                  /\ job0 = Job(step, task[t].row, task[t].amount)
  BY <1>1, OneGoes DEF Inv
<1>3. task[t].row \in Rows /\ task[t].amount \in Nat BY Shapes DEF Inv
<1>4. t \in Payers /\ step \in HoldSteps \cup {"failed"} => Holds(t, task[t].row) BY DEF Holds
<1>. QED BY <1>2, <1>3, <1>4, TaskAside

(* A function ends without a write.                                        *)
LEMMA Ends ==
  ASSUME Inv, NEW t \in Tasks, Done(t), UNCHANGED <<fin, failures, credited>>
  PROVE  Inv' /\ Refines
<1>1. /\ Week \in Rows /\ "idle" \in StepsOf(t)
      /\ task' = [task EXCEPT ![t] = Job("idle", Week, 0)]
  BY DEF Rows, StepsOf, PayerSteps, SettlerSteps, Done, Idle
<1>2. "idle" \notin HoldSteps \cup {"failed"} BY DEF HoldSteps
<1>. QED BY <1>1, <1>2, TaskAside

(* Settlements.                                                            *)
LEMMA SettlingKeeps == Inv /\ OrdersInv /\ Settling => Inv' /\ Refines
<1>. SUFFICES ASSUME Inv, OrdersInv, Settling PROVE Inv' /\ Refines OBVIOUS
<1>. USE DEF orderVars, payoutVars
<1>0. \A t \in Settlers : t \in Tasks /\ t \notin Payers /\ StepsOf(t) = SettlerSteps
  BY Shapes DEF Inv, StepsOf
<1>1. CASE \/ \E o \in Orders : Deliver(o)
           \/ \E d \in Days : DayEnds(d)
  BY <1>1, NothingMoves DEF Deliver, DayEnds
<1>2. ASSUME NEW t \in Settlers, NEW d \in Days, SettleDay(t, d) PROVE Inv' /\ Refines
  <2>1. d \in Rows /\ "begin" \in StepsOf(t) BY <1>0 DEF Rows, SettlerSteps
  <2>. DEFINE a == (Gross - Commission) * Cardinality(DeliveredOn(d))
  <2>3. a \in Nat BY DayAmountType
  <2>2. task' = [task EXCEPT ![t] = Job("begin", d, a)] /\ UNCHANGED <<fin, failures, credited>>
    BY <1>2 DEF SettleDay
  <2>. HIDE DEF a
  <2>. QED BY <1>0, <2>1, <2>2, <2>3, TaskAside
<1>3. ASSUME NEW t \in Settlers, BeginPosting(t) \/ CommitPosting(t) \/ PostingFails(t)
      PROVE  Inv' /\ Refines
  <2>1. PICK step \in {"post", "upsert"} : GoTo(t, step) /\ UNCHANGED <<fin, failures, credited>>
    BY <1>3 DEF BeginPosting, CommitPosting, PostingFails
  <2>2. step \in StepsOf(t) BY <1>0 DEF SettlerSteps
  <2>. QED BY <1>0, <2>1, <2>2, GoesOn
<1>4. ASSUME NEW t \in Settlers, SettleWeek(t) PROVE Inv' /\ Refines
  <2>1. PICK a \in Nat : task' = [task EXCEPT ![t] = Job("upsert", Week, a)]
    BY <1>4, WeekAmountType DEF SettleWeek, Inv
  <2>2. Week \in Rows /\ "upsert" \in StepsOf(t) BY <1>0 DEF Rows, SettlerSteps
  <2>3. UNCHANGED <<fin, failures, credited>> BY <1>4 DEF SettleWeek
  <2>. QED BY <1>0, <2>1, <2>2, <2>3, TaskAside
<1>5. ASSUME NEW t \in Settlers, Upsert(t) \/ SettlementFails(t) PROVE Inv' /\ Refines
  <2>. DEFINE q == task[t].row
  <2>1. q \in Rows /\ ~RowLocked(q) /\ Done(t) /\ task[t].at = "upsert"
    BY <1>0, <1>5, Shapes DEF Upsert, SettlementFails, Inv, At
  <2>2. fin[q].attempts \in 0..MaxAttempts /\ failures[q] \in 0..MaxAttempts
    BY <2>1, Shapes DEF Inv, StateInv
  <2>3. failures' = [failures EXCEPT ![q] = failures[q]] /\ credited' = credited
    BY <1>5, <2>1 DEF Upsert, SettlementFails, Inv, StateInv
  <2>4. /\ failures[q] <= fin[q].attempts
        /\ failures[q] >= 3 => fin[q].status \in {"HELD", "PAID"}
    BY <2>1 DEF Inv, PayoutInv, HeldAfterThree
  <2>5. PICK x, b, n :
          /\ fin' = [fin EXCEPT ![q] = [status |-> x, amount |-> b, attempts |-> n]]
          /\ b \in Nat /\ n \in 0..MaxAttempts /\ n >= fin[q].attempts
          /\ x = fin[q].status \/ (fin[q].status = "NONE" /\ x = "PENDING")
    <3>1. CASE Upsert(t)
      <4>. DEFINE x == IF fin[q].status = "NONE" THEN "PENDING" ELSE fin[q].status
      <4>1. fin' = [fin EXCEPT ![q].amount = task[t].amount, ![q].status = x]
        BY <3>1 DEF Upsert
      <4>3. x = fin[q].status \/ (fin[q].status = "NONE" /\ x = "PENDING") OBVIOUS
      <4>. HIDE DEF q, x
      <4>2. fin' = [fin EXCEPT ![q] = [status |-> x, amount |-> task[t].amount,
                                       attempts |-> fin[q].attempts]]
        <5>1. [fin EXCEPT ![q].amount = task[t].amount, ![q].status = x]
                = [fin EXCEPT ![q] = [status |-> x, amount |-> task[t].amount,
                                      attempts |-> fin[q].attempts]]
          BY <2>1, AmountWrite DEF Inv
        <5>. QED BY <4>1, <5>1, Zenon
      <4>4. fin[q].attempts >= fin[q].attempts /\ task[t].amount \in Nat
        BY <1>0, <2>2, Shapes DEF MaxAttempts, Inv
      <4>. WITNESS x, task[t].amount, fin[q].attempts
      <4>. QED BY <2>2, <4>2, <4>3, <4>4
    <3>2. CASE SettlementFails(t)
      <4>. DEFINE n == IF fin[q].status = "NONE" THEN fin[q].attempts ELSE Count(fin[q].attempts)
      <4>1. fin' = [fin EXCEPT ![q].attempts = n] BY <3>2 DEF SettlementFails
      <4>2. n \in 0..MaxAttempts /\ n >= fin[q].attempts BY <2>2, CountType DEF MaxAttempts
      <4>. HIDE DEF n, q
      <4>3. fin' = [fin EXCEPT ![q] = [status |-> fin[q].status, amount |-> fin[q].amount,
                                       attempts |-> n]]
        BY <2>1, <4>1, AttemptsWrite DEF Inv
      <4>4. fin[q].amount \in Nat BY <2>1, Shapes DEF Inv
      <4>. QED BY <4>2, <4>3, <4>4
    <3>. QED BY <1>5, <3>1, <3>2
  <2>6. x \in {"NONE", "PENDING", "HELD", "PAID"} BY <2>1, <2>5, Shapes DEF Inv
  <2>7. failures[q] <= n BY <2>2, <2>4, <2>5 DEF MaxAttempts
  <2>8. x = fin[q].status \/ <<fin[q].status, x>> \in Writes BY <2>5 DEF Writes
  <2>9. failures[q] >= 3 => x \in {"HELD", "PAID"} BY <2>4, <2>5
  <2>. HIDE DEF q
  <2>. QED BY <1>0, <2>1, <2>2, <2>3, <2>5, <2>6, <2>7, <2>8, <2>9, RowAside
<1>. QED BY <1>1, <1>2, <1>3, <1>4, <1>5 DEF Settling

(* Appends to the ledger, by settlements and payouts alike.                *)
LEMMA AppendingKeeps == Inv /\ Appending => Inv' /\ Refines
<1>. SUFFICES ASSUME Inv, Appending PROVE Inv' /\ Refines OBVIOUS
<1>. USE DEF orderVars, payoutVars
<1>1. ASSUME NEW t \in Tasks, AppendEntry(t) PROVE Inv' /\ Refines
  BY <1>1, NothingMoves DEF AppendEntry
<1>2. ASSUME NEW t \in Tasks, NEW step \in {"wait", "post"}, GoTo(t, step),
             task[t].at \in {"post", "wait"}, UNCHANGED <<fin, failures, credited>>
      PROVE  Inv' /\ Refines
  <2>1. step \in StepsOf(t) BY DEF StepsOf, PayerSteps, SettlerSteps, HoldSteps
  <2>2. task[t].at \in HoldSteps BY <1>2 DEF HoldSteps
  <2>. QED BY <1>2, <2>1, <2>2, GoesOn
<1>. QED BY <1>1, <1>2 DEF Appending, Wait, Resume, At

(* A payout that begins takes its row.                                     *)
LEMMA StartPayoutKeeps ==
  ASSUME Inv, NEW t \in Payers, NEW r \in Rows, StartPayout(t, r)
  PROVE  Inv' /\ Refines
<1>. USE DEF Inv
<1>0. t \in Tasks /\ \A s \in Payers : s \in Tasks BY Shapes
<1>1. /\ task' = [task EXCEPT ![t] = Job("disburse", r, fin[r].amount)]
      /\ UNCHANGED <<fin, failures, credited>>
      /\ ~RowLocked(r) /\ fin[r].status = "PENDING" /\ task[t] = Idle
  BY DEF StartPayout, Take, Eligible
<1>2. task'[t] = Job("disburse", r, fin[r].amount) /\ \A s \in Tasks : s # t => task'[s] = task[s]
  BY <1>0, <1>1, OneMoves
<1>3. StateInv'
  <2>1. "disburse" \in StepsOf(t) BY DEF StepsOf, PayerSteps, HoldSteps
  <2>2. fin' = fin /\ credited' \in [Rows -> Nat] /\ failures' \in [Rows -> 0..MaxAttempts]
    BY <1>1 DEF StateInv
  <2>3. fin[r].amount \in Nat /\ 0 \in 0..MaxAttempts BY Shapes DEF MaxAttempts
  <2>. QED BY <1>0, <1>1, <2>1, <2>2, <2>3, TypedKept
<1>4. /\ \A s \in Payers, q \in Rows : s # t => (Holds(s, q)' <=> Holds(s, q))
      /\ \A q \in Rows : Holds(t, q)' <=> q = r
      /\ \A q \in Rows : ~Holds(t, q)
  BY <1>0, <1>1, <1>2 DEF Holds, Job, Idle, HoldSteps
<1>5. \A s \in Payers : ~Holds(s, r) BY <1>1, LockedHeld
<1>6. PayoutInv'
  <2>1. \A s \in Payers, q \in Rows : Holds(s, q)' => fin'[q].status = "PENDING"
    BY <1>1, <1>4 DEF PayoutInv
  <2>2. \A s, u \in Payers, q \in Rows : Holds(s, q)' /\ Holds(u, q)' => s = u
    BY <1>4, <1>5 DEF PayoutInv
  <2>3. \A s \in Payers : At(s, "failed")' => fin'[task'[s].row].status # "NONE"
    BY <1>0, <1>1, <1>2 DEF PayoutInv, At, Job
  <2>. QED BY <1>1, <2>1, <2>2, <2>3 DEF PayoutInv, HeldAfterThree
<1>7. Refines
  <2>1. \A q \in Rows : RowLocked(q)' <=> \E s \in Payers : Holds(s, q)'
    BY DEF RowLocked, Holds, HoldSteps
  <2>2. RowLocked(r)' /\ \A q \in Rows : q # r => (RowLocked(q)' <=> RowLocked(q))
    BY <2>1, <1>4, LockedHeld
  <2>3. /\ PayoutState(r) = "PENDING" /\ PayoutState(r)' = "PROCESSING"
        /\ \A q \in Rows : q # r => PayoutState(q)' = PayoutState(q)
    BY <1>1, <2>2 DEF PayoutState
  <2>4. Machine!Move(r, "PENDING", "PROCESSING") BY <1>1, <2>3, Moved
  <2>. QED BY <2>4 DEF Refines, Machine!Next, Machine!Start
<1>. QED BY <1>3, <1>6, <1>7

(* A payout that commits pays its row, with one entry if anything is paid. *)
LEMMA CommitPayoutKeeps ==
  ASSUME Inv, NEW t \in Payers, CommitPayout(t)
  PROVE  Inv' /\ Refines
<1>. USE DEF Inv
<1>r. PICK r : r = task[t].row OBVIOUS
<1>0. t \in Tasks /\ r \in Rows /\ \A s \in Payers : s \in Tasks BY <1>r, Shapes
<1>1. /\ fin' = [fin EXCEPT ![r].status = "PAID"] /\ Done(t) /\ failures' = failures
      /\ credited' \in {credited, [credited EXCEPT ![r] = @ + 1]}
  BY <1>r DEF CommitPayout, orderVars
<1>2. Holds(t, r) /\ fin[r].attempts \in 0..MaxAttempts
  BY <1>r, <1>0, Shapes DEF CommitPayout, At, Holds, HoldSteps
<1>3. fin' = [fin EXCEPT ![r] = [status |-> "PAID", amount |-> fin[r].amount,
                                 attempts |-> fin[r].attempts]]
  <2>1. \A y : [fin EXCEPT ![r].status = y]
                 = [fin EXCEPT ![r] = [status |-> y, amount |-> fin[r].amount,
                                       attempts |-> fin[r].attempts]]
    BY <1>0, StatusWrite
  <2>. QED BY <1>1, <2>1, Zenon
<1>4. /\ fin'[r].status = "PAID" /\ fin'[r].attempts = fin[r].attempts
      /\ \A q \in Rows : q # r => fin'[q] = fin[q]
  <2>1. PICK row0 : row0 = [status |-> "PAID", amount |-> fin[r].amount,
                            attempts |-> fin[r].attempts]
    OBVIOUS
  <2>2. fin'[r] = row0 /\ \A q \in Rows : q # r => fin'[q] = fin[q]
    BY <1>0, <1>3, <2>1, OneRow
  <2>. QED BY <2>1, <2>2
<1>5. task'[t] = Idle /\ \A s \in Tasks : s # t => task'[s] = task[s]
  BY <1>0, <1>1, OneMoves DEF Done
<1>6. StateInv'
  <2>1. /\ credited' \in [Rows -> Nat] /\ failures' \in [Rows -> 0..MaxAttempts]
        /\ Week \in Rows /\ "idle" \in StepsOf(t)
    BY <1>0, <1>1 DEF StateInv, Rows, StepsOf, PayerSteps
  <2>2. \E u \in Tasks : \E step \in StepsOf(u), q \in Rows, a \in Nat :
          task' = [task EXCEPT ![u] = Job(step, q, a)]
    BY <1>0, <1>1, <2>1 DEF Done, Idle
  <2>3. fin[r].amount \in Nat BY <1>0, Shapes
  <2>. QED BY <1>0, <1>2, <1>3, <2>1, <2>2, <2>3, TypedKept
<1>7. /\ \A s \in Payers, q \in Rows : s # t => (Holds(s, q)' <=> Holds(s, q))
      /\ \A q \in Rows : ~Holds(t, q)'
      /\ \A q \in Rows : q # r => ~Holds(t, q)
      /\ \A s \in Payers : Holds(s, r) => s = t
  <2>1. \A s \in Payers : Holds(s, r) => s = t BY <1>0, <1>2 DEF PayoutInv
  <2>. QED BY <1>0, <1>2, <1>5, <2>1 DEF Holds, Idle, Job, HoldSteps
<1>8. PayoutInv'
  <2>1. \A s \in Payers, q \in Rows : Holds(s, q)' => fin'[q].status = "PENDING"
    BY <1>4, <1>7 DEF PayoutInv
  <2>2. \A s, u \in Payers, q \in Rows : Holds(s, q)' /\ Holds(u, q)' => s = u
    BY <1>7 DEF PayoutInv
  <2>3. \A s \in Payers : At(s, "failed")' => fin'[task'[s].row].status # "NONE"
    <3>1. \A s \in Payers : At(s, "failed")' => s # t BY <1>5 DEF At, Idle, Job
    <3>. QED BY <3>1, <1>0, <1>4, <1>5, Shapes DEF PayoutInv, At
  <2>4. \A q \in Rows : failures'[q] <= fin'[q].attempts BY <1>1, <1>4 DEF PayoutInv
  <2>5. HeldAfterThree' BY <1>1, <1>4 DEF PayoutInv, HeldAfterThree
  <2>. QED BY <2>1, <2>2, <2>3, <2>4, <2>5 DEF PayoutInv
<1>9. Refines
  <2>1. \A q \in Rows : RowLocked(q)' <=> \E s \in Payers : Holds(s, q)'
    BY DEF RowLocked, Holds, HoldSteps
  <2>2. RowLocked(r) /\ \A q \in Rows : q # r => (RowLocked(q)' <=> RowLocked(q))
    BY <2>1, <1>2, <1>7, LockedHeld
  <2>3. ~RowLocked(r)' BY <2>1, <1>0, <1>7
  <2>4. /\ PayoutState(r) = "PROCESSING" /\ PayoutState(r)' = "PAID"
        /\ \A q \in Rows : q # r => PayoutState(q)' = PayoutState(q)
    BY <1>4, <2>2, <2>3 DEF PayoutState
  <2>. DEFINE S == [q \in Rows |-> PayoutState(q)]
  <2>5. S[r] = "PROCESSING" /\ [q \in Rows |-> PayoutState(q)'] = [S EXCEPT ![r] = "PAID"]
    BY <1>0, <2>4
  <2>6. Machine!Paid(r) BY <1>1, <2>5 DEF Machine!Paid
  <2>. QED BY <1>0, <2>6 DEF Refines, Machine!Next
<1>. QED BY <1>6, <1>8, <1>9

(* A failure that is counted, after the lock of the row was given up.      *)
LEMMA FailureKeeps ==
  ASSUME Inv, NEW t \in Payers, HandleDisbursementFailure(t)
  PROVE  Inv' /\ Refines
<1>. USE DEF Inv
<1>. DEFINE r == task[t].row
            n == Count(fin[r].attempts)
            m == Count(failures[r])
            x == IF fin[r].status = "PENDING" /\ GivesUp(n) THEN "HELD" ELSE fin[r].status
<1>1. t \in Tasks /\ r \in Rows BY Shapes
<1>2. /\ fin[r].status \in {"NONE", "PENDING", "HELD", "PAID"}
      /\ fin[r].attempts \in 0..MaxAttempts /\ failures[r] \in 0..MaxAttempts
      /\ failures[r] <= fin[r].attempts
  BY <1>1, Shapes DEF StateInv, PayoutInv
<1>3. /\ fin' = [fin EXCEPT ![r].attempts = n, ![r].status = x]
      /\ failures' = [failures EXCEPT ![r] = m] /\ credited' = credited
      /\ ~RowLocked(r) /\ Done(t) /\ task[t].at = "failed"
  BY DEF HandleDisbursementFailure, At, orderVars
<1>4. fin[r].status # "NONE" BY <1>3 DEF PayoutInv, At
<1>5. n \in 0..MaxAttempts /\ m \in 0..MaxAttempts /\ m <= n BY <1>2, CountType
<1>6. x = fin[r].status \/ <<fin[r].status, x>> \in Writes BY DEF Writes
<1>7. m >= 3 => x \in {"HELD", "PAID"} BY <1>2, <1>4, <1>5 DEF GivesUp, MaxAttempts
<1>8. x \in {"NONE", "PENDING", "HELD", "PAID"} BY <1>2
<1>8a. fin[r].amount \in Nat BY <1>1, Shapes
<1>. HIDE DEF r, n, m, x
<1>9. fin' = [fin EXCEPT ![r] = [status |-> x, amount |-> fin[r].amount, attempts |-> n]]
  <2>1. [fin EXCEPT ![r].attempts = n, ![r].status = x]
          = [fin EXCEPT ![r] = [status |-> x, amount |-> fin[r].amount, attempts |-> n]]
    BY <1>1, CountWrite
  <2>. QED BY <1>3, <2>1, Zenon
<1>. QED BY <1>1, <1>3, <1>5, <1>6, <1>7, <1>8, <1>8a, <1>9, RowAside

(* A request, or a payout that is not begun, changes the status of a row.  *)
LEMMA StatusKeeps ==
  ASSUME Inv, NEW r \in Rows, NEW x \in {"PENDING", "HELD", "PAID"},
         fin' = [fin EXCEPT ![r] = [status |-> x, amount |-> fin[r].amount,
                                    attempts |-> fin[r].attempts]],
         <<fin[r].status, x>> \in Writes, ~RowLocked(r),
         \/ failures' = failures /\ x # "PENDING"
         \/ failures' = [failures EXCEPT ![r] = 0],
         UNCHANGED <<task, credited>>
  PROVE  Inv' /\ Refines
<1>1. /\ fin[r].attempts \in 0..MaxAttempts /\ failures[r] \in 0..MaxAttempts
      /\ failures[r] <= fin[r].attempts /\ fin[r].amount \in Nat
  BY Shapes DEF Inv, StateInv, PayoutInv
<1>2. PICK m \in 0..MaxAttempts : /\ failures' = [failures EXCEPT ![r] = m]
                                  /\ m <= fin[r].attempts /\ (m >= 3 => x \in {"HELD", "PAID"})
  <2>1. CASE failures' = failures /\ x # "PENDING"
    <3>1. failures' = [failures EXCEPT ![r] = failures[r]] BY <2>1 DEF Inv, StateInv
    <3>. QED BY <1>1, <2>1, <3>1
  <2>2. CASE failures' = [failures EXCEPT ![r] = 0] BY <1>1, <2>2 DEF MaxAttempts
  <2>. QED BY <2>1, <2>2
<1>. QED BY <1>1, <1>2, RowAside

(* The same, as the requests write it.                                     *)
LEMMA StatusStep ==
  ASSUME Inv, NEW r \in Rows, NEW x \in {"PENDING", "HELD", "PAID"},
         fin' = [fin EXCEPT ![r].status = x],
         <<fin[r].status, x>> \in Writes, ~RowLocked(r),
         \/ failures' = failures /\ x # "PENDING"
         \/ failures' = [failures EXCEPT ![r] = 0],
         UNCHANGED <<task, credited>>
  PROVE  Inv' /\ Refines
<1>1. fin' = [fin EXCEPT ![r] = [status |-> x, amount |-> fin[r].amount,
                                 attempts |-> fin[r].attempts]]
  <2>1. [fin EXCEPT ![r].status = x]
          = [fin EXCEPT ![r] = [status |-> x, amount |-> fin[r].amount,
                                attempts |-> fin[r].attempts]]
    BY StatusWrite DEF Inv
  <2>. QED BY <2>1, Zenon
<1>. QED BY <1>1, StatusKeeps

(* The queue, the workers that pay out, and the dashboard.                 *)
LEMMA PayingOutKeeps == Inv /\ PayingOut => Inv' /\ Refines
<1>. SUFFICES ASSUME Inv, PayingOut PROVE Inv' /\ Refines OBVIOUS
<1>. USE DEF orderVars, payoutVars
<1>1. ASSUME NEW r \in Rows, RunWeeklyPayouts(r) \/ ForgetJob(r) \/ StallJob(r)
      PROVE  Inv' /\ Refines
  BY <1>1, NothingMoves DEF RunWeeklyPayouts, ForgetJob, StallJob
<1>2. ASSUME NEW t \in Payers, NEW r \in Rows, IgnorePayout(t, r) PROVE Inv' /\ Refines
  BY <1>2, NothingMoves DEF IgnorePayout
<1>3. ASSUME NEW t \in Payers, NEW r \in Rows, HoldForBank(t, r) PROVE Inv' /\ Refines
  BY <1>3, StatusStep DEF HoldForBank, Take, Eligible, Writes
<1>4. ASSUME NEW t \in Payers, Disburse(t) \/ DisbursementFails(t) PROVE Inv' /\ Refines
  <2>1. t \in Tasks BY Shapes DEF Inv
  <2>2. PICK step \in {"post", "failed"} : GoTo(t, step) /\ UNCHANGED <<fin, failures, credited>>
    BY <1>4 DEF Disburse, DisbursementFails
  <2>3. step \in StepsOf(t) /\ task[t].at \in HoldSteps
    BY <1>4 DEF StepsOf, PayerSteps, HoldSteps, Disburse, DisbursementFails, At
  <2>. QED BY <2>1, <2>2, <2>3, GoesOn
<1>. QED BY <1>1, <1>2, <1>3, <1>4, StartPayoutKeeps, CommitPayoutKeeps, FailureKeeps DEF PayingOut

(* The dashboard's holds, releases and payments by hand.                   *)
LEMMA ManagingKeeps == Inv /\ Managing => Inv' /\ Refines
<1>. SUFFICES ASSUME Inv, Managing PROVE Inv' /\ Refines OBVIOUS
<1>. USE DEF orderVars, payoutVars
<1>1. ASSUME NEW r \in Rows, SetHold(r) \/ MarkPaid(r) PROVE Inv' /\ Refines
  BY <1>1, StatusStep DEF SetHold, MarkPaid, Writes
<1>2. ASSUME NEW r \in Rows, ReleaseHold(r) PROVE Inv' /\ Refines
  BY <1>2, StatusStep DEF ReleaseHold, Writes
<1>. QED BY <1>1, <1>2 DEF Managing

-----------------------------------------------------------------------------
(* The ledger.  Its rows are locked one by one, each later than those its  *)
(* transaction holds already, and by a function that is at work on it.     *)

TxRecord == [open : BOOLEAN, before : SUBSET Tasks, behind : BOOLEAN, mine : BOOLEAN,
             top : Int, sum : Int, todo : Seq(Int),
             picked : [row : Nat, balance : Int], held : SUBSET Nat]

LedgerTyped ==
  /\ ledger \in [row : Nat, balance : Int, total : Int]
  /\ tx \in [Tasks -> TxRecord]

(* A function that waits has picked a row later than all that it holds.    *)
Waiting(t) ==
  /\ tx[t].picked.row \in 1..ledger.row /\ tx[t].todo # <<>>
  /\ \A i \in tx[t].held : i < tx[t].picked.row

LockInv ==
  /\ \A t \in Tasks : task[t].at \notin HoldSteps => tx[t].held = {}
  /\ \A t \in Tasks : \A i \in tx[t].held : i \in 1..ledger.row
  /\ \A s, t \in Tasks : \A i \in tx[s].held : i \in tx[t].held => s = t
  /\ \A t \in Tasks : At(t, "wait") => Waiting(t)

LedgerInv == LedgerTyped /\ LockInv

(* The latest row is one of the ledger's, with the balance it has.         *)
LEMMA LatestType ==
  ASSUME LedgerTyped, NEW t \in Tasks
  PROVE  /\ Latest(t) \in [row : Nat, balance : Int]
         /\ Latest(t).row \in {0, ledger.row}
<1>1. tx[t] \in TxRecord BY DEF LedgerTyped
<1>. QED BY <1>1 DEF LedgerTyped, TxRecord, Latest

(* An append writes the transaction of t alone, and locks what it has seen.*)
LEMMA AppendWrites ==
  ASSUME LedgerTyped, NEW t \in Tasks, tx[t].todo # <<>>,
         NEW seen \in [row : Nat, balance : Int], InsertAfter(t, seen)
  PROVE  /\ tx' \in [Tasks -> TxRecord]
         /\ tx'[t].held = tx[t].held \cup ({seen.row} \ {0})
         /\ \A s \in Tasks : s # t => tx'[s] = tx[s]
<1>. DEFINE head == Head(tx[t].todo)
            tail == Tail(tx[t].todo)
            held == tx[t].held \cup ({seen.row} \ {0})
            sum == tx[t].sum + head
            new(top) == [tx[t] EXCEPT !.mine = TRUE, !.top = top, !.picked = None,
                                      !.sum = sum, !.todo = tail, !.held = held]
<1>1. tx[t] \in TxRecord /\ tx \in [Tasks -> TxRecord] BY DEF LedgerTyped
<1>2. tx[t].todo \in Seq(Int) /\ tx[t].top \in Int /\ tx[t].sum \in Int /\ tx[t].held \in SUBSET Nat
  BY <1>1 DEF TxRecord
<1>3. head \in Int /\ tail \in Seq(Int) BY <1>2, HeadTailProperties
<1>4. sum \in Int /\ held \in SUBSET Nat /\ seen.balance + head \in Int
  <2>1. seen.row \in Nat /\ seen.balance \in Int OBVIOUS
  <2>2. held \in SUBSET Nat BY <1>2, <2>1
  <2>. HIDE DEF head, held
  <2>. QED BY <1>2, <1>3, <2>1, <2>2
<1>5. PICK top \in Int : tx' = [tx EXCEPT ![t] = new(top)]
  <2>1. PICK top \in IF tx[t].mine THEN {seen.balance + head, tx[t].top} ELSE {seen.balance + head} :
          tx' = [tx EXCEPT ![t] = new(top)]
    BY DEF InsertAfter
  <2>. QED BY <1>2, <1>4, <2>1
<1>. HIDE DEF head, tail, held, sum
<1>6. new(top) \in TxRecord /\ new(top).held = held
  <2>1. None \in [row : Nat, balance : Int] BY DEF None
  <2>. QED BY <1>1, <1>3, <1>4, <2>1 DEF TxRecord
<1>. HIDE DEF new
<1>7. tx'[t].held = held BY <1>1, <1>5, <1>6
<1>. QED BY <1>1, <1>5, <1>6, <1>7 DEF held

(* No transaction is a transaction that holds nothing.                     *)
LEMMA NoTxType == NoTx \in TxRecord /\ NoTx.held = {}
<1>1. <<>> \in Seq(Int) BY EmptySeq
<1>. QED BY <1>1 DEF NoTx, None, TxRecord

(* A transaction that falls behind is still one.                           *)
LEMMA TxWrite ==
  ASSUME NEW x \in TxRecord, NEW e \in SUBSET Tasks, NEW b \in BOOLEAN
  PROVE  [x EXCEPT !.before = e, !.behind = b] \in TxRecord
  BY DEF TxRecord

(* The end of a transaction leaves the others what they hold and wait for. *)
LEMMA EndWrites ==
  ASSUME LedgerTyped, NEW t \in Tasks, NEW overtakes \in BOOLEAN, tx' = Ended(t, overtakes)
  PROVE  /\ tx' \in [Tasks -> TxRecord]
         /\ tx'[t].held = {}
         /\ \A s \in Tasks : s # t => /\ tx'[s].held = tx[s].held
                                      /\ tx'[s].picked = tx[s].picked
                                      /\ tx'[s].todo = tx[s].todo
<1>. DEFINE behind(s) == tx[s].behind \/ (overtakes /\ s \in tx[t].before)
            new(s) == [tx[s] EXCEPT !.before = @ \ {t}, !.behind = behind(s)]
<1>1. \A s \in Tasks : tx[s] \in TxRecord BY DEF LedgerTyped
<1>2. NoTx \in TxRecord /\ NoTx.held = {} BY NoTxType
<1>3. \A s \in Tasks : /\ new(s) \in TxRecord /\ new(s).held = tx[s].held
                       /\ new(s).picked = tx[s].picked /\ new(s).todo = tx[s].todo
  <2>1. \A s \in Tasks : behind(s) \in BOOLEAN
    <3>1. \A a, b : (a \/ b) \in BOOLEAN OBVIOUS
    <3>. QED BY <3>1, Zenon
  <2>2. \A s \in Tasks : tx[s].before \ {t} \in SUBSET Tasks
    BY <1>1 DEF TxRecord
  <2>. HIDE DEF behind
  <2>3. ASSUME NEW s \in Tasks PROVE new(s) \in TxRecord
    BY <1>1, <2>1, <2>2, TxWrite
  <2>4. ASSUME NEW s \in Tasks
        PROVE  new(s).held = tx[s].held /\ new(s).picked = tx[s].picked /\ new(s).todo = tx[s].todo
    BY <1>1 DEF TxRecord
  <2>. QED BY <2>3, <2>4
<1>4. tx' = [s \in Tasks |-> IF s = t THEN NoTx ELSE new(s)] BY DEF Ended
<1>. HIDE DEF new
<1>. QED BY <1>2, <1>3, <1>4

(* A transaction that begins holds nothing.                                *)
LEMMA OpenWrites ==
  ASSUME LedgerTyped, NEW t \in Tasks, NEW todo \in Seq(Int), tx' = Open(t, todo)
  PROVE  /\ tx' \in [Tasks -> TxRecord]
         /\ tx'[t].held = {}
         /\ \A s \in Tasks : s # t => tx'[s] = tx[s]
<1>. DEFINE before == {s \in Tasks : tx[s].open}
            new == [NoTx EXCEPT !.open = TRUE, !.todo = todo, !.before = before]
<1>1. tx \in [Tasks -> TxRecord] BY DEF LedgerTyped
<1>2. new \in TxRecord /\ new.held = {}
  <2>1. before \in SUBSET Tasks OBVIOUS
  <2>. HIDE DEF before
  <2>2. NoTx \in TxRecord /\ NoTx.held = {} BY NoTxType
  <2>. QED BY <2>1, <2>2 DEF TxRecord
<1>3. tx' = [tx EXCEPT ![t] = new] BY DEF Open
<1>. HIDE DEF new
<1>. QED BY <1>1, <1>2, <1>3

(* A commit makes a row that is later than all others, or none.            *)
LEMMA CommitWrites ==
  ASSUME LedgerTyped, NEW t \in Tasks, ledger' = Committed(t)
  PROVE  /\ ledger' \in [row : Nat, balance : Int, total : Int]
         /\ ledger'.row >= ledger.row
<1>1. tx[t] \in TxRecord BY DEF LedgerTyped
<1>2. tx[t].top \in Int /\ tx[t].sum \in Int BY <1>1 DEF TxRecord
<1>3. ledger \in [row : Nat, balance : Int, total : Int] BY DEF LedgerTyped
<1>4. CASE Leads(t) BY <1>2, <1>3, <1>4 DEF Committed
<1>5. CASE ~Leads(t)
  <2>1. ledger' = [ledger EXCEPT !.total = @ + tx[t].sum] BY <1>5 DEF Committed
  <2>. QED BY <1>2, <1>3, <2>1
<1>. QED BY <1>4, <1>5

(* The locks stay in order when one function goes on, and takes at most    *)
(* one more row, which is free and later than those it holds.              *)
LEMMA LocksKept ==
  ASSUME LedgerInv, LedgerTyped', NEW t \in Tasks, ledger'.row >= ledger.row,
         \A s \in Tasks : s # t => /\ task'[s].at = task[s].at /\ tx'[s].held = tx[s].held
                                   /\ tx'[s].picked = tx[s].picked /\ tx'[s].todo = tx[s].todo,
         NEW row \in Nat, row = 0 \/ (row \in 1..ledger.row /\ Free(t, row)),
         tx'[t].held \subseteq tx[t].held \cup ({row} \ {0}),
         task'[t].at \notin HoldSteps => tx'[t].held = {},
         At(t, "wait")' => Waiting(t)'
  PROVE  LockInv'
<1>1. ledger.row \in Nat /\ ledger'.row \in Nat BY DEF LedgerInv, LedgerTyped
<1>2. \A s \in Tasks : task'[s].at \notin HoldSteps => tx'[s].held = {}
  BY DEF LedgerInv, LockInv
<1>3. \A s \in Tasks : \A i \in tx'[s].held : i \in 1..ledger'.row
  <2>1. \A s \in Tasks : \A i \in tx'[s].held : i \in 1..ledger.row
    BY <1>1 DEF LedgerInv, LockInv
  <2>. QED BY <1>1, <2>1
<1>4. \A s, u \in Tasks : \A i \in tx'[s].held : i \in tx'[u].held => s = u
  <2>1. \A s \in Tasks : s # t /\ row # 0 => row \notin tx[s].held BY DEF Free
  <2>. QED BY <2>1 DEF LedgerInv, LockInv
<1>5. \A s \in Tasks : At(s, "wait")' => Waiting(s)'
  <2>1. ASSUME NEW s \in Tasks, s # t, At(s, "wait")' PROVE Waiting(s)'
    <3>1. At(s, "wait") BY <2>1 DEF At
    <3>2. Waiting(s) BY <3>1 DEF LedgerInv, LockInv
    <3>. QED BY <1>1, <2>1, <3>2 DEF Waiting
  <2>. QED BY <2>1
<1>. QED BY <1>2, <1>3, <1>4, <1>5 DEF LockInv

(* A step of one function that leaves the ledger alone.                    *)
LEMMA LocksAside ==
  ASSUME Inv, LedgerInv, UNCHANGED <<ledger, tx>>,
         \/ task' = task
         \/ \E t \in Tasks : /\ \A s \in Tasks : s # t => task'[s] = task[s]
                             /\ task'[t].at # "wait"
                             /\ task[t].at \in HoldSteps => task'[t].at \in HoldSteps
  PROVE  LedgerInv'
<1>1. LedgerTyped' BY DEF LedgerInv, LedgerTyped, TxRecord
<1>2. CASE task' = task BY <1>2, <1>1 DEF LedgerInv, LockInv, At, Waiting
<1>3. ASSUME NEW t \in Tasks, \A s \in Tasks : s # t => task'[s] = task[s],
             task'[t].at # "wait", task[t].at \in HoldSteps => task'[t].at \in HoldSteps
      PROVE  LedgerInv'
  <2>1. ledger'.row >= ledger.row BY DEF LedgerInv, LedgerTyped
  <2>2. ~At(t, "wait")' BY <1>3 DEF At
  <2>3. task'[t].at \notin HoldSteps => tx'[t].held = {} BY <1>3 DEF LedgerInv, LockInv
  <2>4. LockInv'
    <3>1. PICK row \in Nat : row = 0 OBVIOUS
    <3>. QED BY <1>1, <1>3, <2>1, <2>2, <2>3, <3>1, LocksKept
  <2>. QED BY <1>1, <2>4 DEF LedgerInv
<1>. QED BY <1>2, <1>3

(* A transaction that ends releases its rows.                              *)
LEMMA LocksEnd ==
  ASSUME Inv, LedgerInv, NEW t \in Tasks, NEW overtakes \in BOOLEAN, tx' = Ended(t, overtakes),
         ledger' \in {ledger, Committed(t)},
         \A s \in Tasks : s # t => task'[s] = task[s],
         task'[t].at # "wait"
  PROVE  LedgerInv'
<1>1. ledger' \in [row : Nat, balance : Int, total : Int] /\ ledger'.row >= ledger.row
  <2>1. CASE ledger' = ledger BY <2>1 DEF LedgerInv, LedgerTyped
  <2>2. CASE ledger' = Committed(t) BY <2>2, CommitWrites DEF LedgerInv
  <2>. QED BY <2>1, <2>2
<1>2. /\ tx' \in [Tasks -> TxRecord] /\ tx'[t].held = {}
      /\ \A s \in Tasks : s # t => /\ tx'[s].held = tx[s].held /\ tx'[s].picked = tx[s].picked
                                   /\ tx'[s].todo = tx[s].todo
  BY EndWrites DEF LedgerInv
<1>3. LedgerTyped' BY <1>1, <1>2 DEF LedgerTyped, TxRecord
<1>4. ~At(t, "wait")' BY DEF At
<1>5. LockInv'
  <2>1. PICK row \in Nat : row = 0 OBVIOUS
  <2>. QED BY <1>1, <1>2, <1>3, <1>4, <2>1, LocksKept
<1>. QED BY <1>3, <1>5 DEF LedgerInv

(* A transaction begins.                                                   *)
LEMMA LocksOpen ==
  ASSUME Inv, LedgerInv, NEW t \in Tasks, NEW todo \in Seq(Int), tx' = Open(t, todo),
         ledger' = ledger, \A s \in Tasks : s # t => task'[s] = task[s],
         task'[t].at # "wait"
  PROVE  LedgerInv'
<1>1. /\ tx' \in [Tasks -> TxRecord] /\ tx'[t].held = {}
      /\ \A s \in Tasks : s # t => tx'[s] = tx[s]
  BY OpenWrites DEF LedgerInv
<1>2. LedgerTyped' /\ ledger'.row >= ledger.row
  BY <1>1 DEF LedgerInv, LedgerTyped
<1>3. ~At(t, "wait")' BY DEF At
<1>4. LockInv'
  <2>1. PICK row \in Nat : row = 0 OBVIOUS
  <2>. QED BY <1>1, <1>2, <1>3, <2>1, LocksKept
<1>. QED BY <1>2, <1>4 DEF LedgerInv

(* A row that is free is appended to, and held from then on.               *)
LEMMA LocksAppend ==
  ASSUME Inv, LedgerInv, NEW t \in Tasks, tx[t].todo # <<>>,
         NEW seen \in [row : Nat, balance : Int], InsertAfter(t, seen), Free(t, seen.row),
         seen.row <= ledger.row, ledger' = ledger,
         \A s \in Tasks : s # t => task'[s] = task[s], task'[t].at = "post"
  PROVE  LedgerInv'
<1>1. /\ tx' \in [Tasks -> TxRecord] /\ tx'[t].held = tx[t].held \cup ({seen.row} \ {0})
      /\ \A s \in Tasks : s # t => tx'[s] = tx[s]
  BY AppendWrites DEF LedgerInv
<1>2. LedgerTyped' /\ ledger'.row >= ledger.row
  BY <1>1 DEF LedgerInv, LedgerTyped
<1>3. ~At(t, "wait")' /\ task'[t].at \in HoldSteps BY DEF At, HoldSteps
<1>4. LockInv'
  <2>1. PICK row \in Nat : row = seen.row OBVIOUS
  <2>2. row = 0 \/ (row \in 1..ledger.row /\ Free(t, row))
    BY <2>1 DEF LedgerInv, LedgerTyped
  <2>. QED BY <1>1, <1>2, <1>3, <2>1, <2>2, LocksKept
<1>. QED BY <1>2, <1>4 DEF LedgerInv

(* The task a function has next, and that of nobody else.                  *)
LEMMA Moves ==
  ASSUME Inv, NEW t \in Tasks, NEW step \in Steps, GoTo(t, step) \/ (step = "idle" /\ Done(t))
  PROVE  task'[t].at = step /\ \A s \in Tasks : s # t => task'[s] = task[s]
<1>1. CASE GoTo(t, step)
  <2>1. PICK job0 : /\ task' = [task EXCEPT ![t] = job0]
                    /\ job0 = Job(step, task[t].row, task[t].amount)
    BY <1>1, OneGoes DEF Inv
  <2>2. job0.at = step BY <2>1 DEF Job
  <2>. QED BY <2>1, <2>2, OneMoves DEF Inv
<1>2. CASE step = "idle" /\ Done(t)
  <2>1. task' = [task EXCEPT ![t] = Idle] /\ Idle.at = step BY <1>2 DEF Done, Idle, Job
  <2>. QED BY <2>1, OneMoves DEF Inv
<1>. QED BY <1>1, <1>2

(* The amounts a settlement posts.                                         *)
LEMMA PostingsType ==
  ASSUME OrdersInv, NEW d
  PROVE  Postings(d) \in Seq(Int)
<1>. DEFINE n == 2 * Cardinality(DeliveredOn(d))
<1>1. n \in Nat BY DayCountType
<1>2. Postings(d) \in [1..n -> Int] BY <1>1, ConstantsAssumption DEF Postings
<1>. HIDE DEF n
<1>. QED BY <1>1, <1>2, SeqDef

(* Settlements.                                                            *)
LEMMA SettlingLocks == Inv /\ OrdersInv /\ LedgerInv /\ Settling => LedgerInv'
<1>. SUFFICES ASSUME Inv, OrdersInv, LedgerInv, Settling PROVE LedgerInv' OBVIOUS
<1>0. \A t \in Settlers : t \in Tasks BY DEF Tasks
<1>1. CASE \/ \E o \in Orders : Deliver(o)
           \/ \E d \in Days : DayEnds(d)
  BY <1>1, LocksAside DEF Deliver, DayEnds
<1>2. ASSUME NEW t \in Settlers,
             (\E d \in Days : SettleDay(t, d)) \/ SettleWeek(t) \/ Upsert(t) \/ SettlementFails(t)
      PROVE  LedgerInv'
  <2>1. PICK job0 : /\ task' = [task EXCEPT ![t] = job0]
                    /\ job0.at \in {"begin", "upsert", "idle"}
    BY <1>2 DEF SettleDay, SettleWeek, Upsert, SettlementFails, Done, Idle, Job
  <2>2. task'[t].at \in {"begin", "upsert", "idle"} /\ \A s \in Tasks : s # t => task'[s] = task[s]
    BY <1>0, <2>1, OneMoves DEF Inv
  <2>3. task[t].at \notin HoldSteps /\ UNCHANGED <<ledger, tx>>
    BY <1>2 DEF SettleDay, SettleWeek, Upsert, SettlementFails, At, Idle, Job, HoldSteps
  <2>. QED BY <1>0, <2>2, <2>3, LocksAside
<1>3. ASSUME NEW t \in Settlers, BeginPosting(t) PROVE LedgerInv'
  <2>1. task'[t].at = "post" /\ \A s \in Tasks : s # t => task'[s] = task[s]
    BY <1>0, <1>3, Moves DEF BeginPosting, Steps, SettlerSteps
  <2>2. PICK todo \in Seq(Int) : tx' = Open(t, todo)
    BY <1>3, PostingsType DEF BeginPosting
  <2>. QED BY <1>0, <1>3, <2>1, <2>2, LocksOpen DEF BeginPosting
<1>4. ASSUME NEW t \in Settlers, CommitPosting(t) \/ PostingFails(t) PROVE LedgerInv'
  <2>1. task'[t].at = "upsert" /\ \A s \in Tasks : s # t => task'[s] = task[s]
    BY <1>0, <1>4, Moves DEF CommitPosting, PostingFails, Steps, SettlerSteps
  <2>2. PICK overtakes \in BOOLEAN : tx' = Ended(t, overtakes)
    BY <1>4 DEF CommitPosting, PostingFails, Leads
  <2>3. ledger' \in {ledger, Committed(t)} BY <1>4 DEF CommitPosting, PostingFails
  <2>. QED BY <1>0, <2>1, <2>2, <2>3, LocksEnd
<1>. QED BY <1>1, <1>2, <1>3, <1>4 DEF Settling

(* Appends.                                                                *)
LEMMA AppendingLocks == Inv /\ LedgerInv /\ Appending => LedgerInv'
<1>. SUFFICES ASSUME Inv, LedgerInv, NEW t \in Tasks, AppendEntry(t) \/ Wait(t) \/ Resume(t)
              PROVE  LedgerInv'
  BY DEF Appending
<1>0. LedgerTyped /\ ledger.row \in Nat BY DEF LedgerInv, LedgerTyped
<1>1. Latest(t) \in [row : Nat, balance : Int] /\ Latest(t).row \in {0, ledger.row}
  BY <1>0, LatestType
<1>2. CASE AppendEntry(t)
  <2>1. PICK seen \in [row : Nat, balance : Int] : seen = Latest(t) BY <1>1
  <2>. QED BY <1>0, <1>1, <1>2, <2>1, LocksAppend DEF AppendEntry, At
<1>3. CASE Wait(t)
  <2>1. task'[t].at = "wait" /\ \A s \in Tasks : s # t => task'[s] = task[s]
    BY <1>3, Moves DEF Wait, Steps, SettlerSteps
  <2>2. PICK seen \in [row : Nat, balance : Int] :
          /\ seen.row \in {0, ledger.row} /\ ~Free(t, seen.row)
          /\ tx' = [tx EXCEPT ![t].picked = seen]
    BY <1>1, <1>3 DEF Wait
  <2>3. tx[t] \in TxRecord /\ tx \in [Tasks -> TxRecord] BY <1>0 DEF LedgerTyped
  <2>4. tx' \in [Tasks -> TxRecord]
    <3>1. [tx[t] EXCEPT !.picked = seen] \in TxRecord BY <2>3 DEF TxRecord
    <3>. QED BY <2>2, <2>3, <3>1
  <2>5. /\ tx'[t].held = tx[t].held /\ tx'[t].picked = seen /\ tx'[t].todo = tx[t].todo
        /\ \A s \in Tasks : s # t => tx'[s] = tx[s]
    BY <2>2, <2>3 DEF TxRecord
  <2>6. LedgerTyped' /\ ledger' = ledger BY <1>0, <1>3, <2>4 DEF Wait, LedgerTyped
  <2>7. PICK s \in Tasks : s # t /\ seen.row \in tx[s].held /\ seen.row = ledger.row /\ seen.row # 0
    BY <2>2 DEF Free
  <2>8. Waiting(t)'
    <3>1. \A i \in tx[t].held : i \in 1..ledger.row /\ i # ledger.row
      BY <2>7 DEF LedgerInv, LockInv
    <3>2. seen.row \in 1..ledger.row BY <1>0, <2>7
    <3>3. tx[t].todo # <<>> BY <1>3 DEF Wait
    <3>4. \A i \in tx[t].held : i < seen.row BY <1>0, <2>7, <3>1
    <3>. QED BY <2>5, <2>6, <3>2, <3>3, <3>4 DEF Waiting
  <2>9. LockInv'
    <3>1. PICK row \in Nat : row = 0 OBVIOUS
    <3>2. "wait" \in HoldSteps /\ ledger'.row >= ledger.row BY <1>0, <2>6 DEF HoldSteps
    <3>. QED BY <2>1, <2>5, <2>6, <2>8, <3>1, <3>2, LocksKept
  <2>. QED BY <2>6, <2>9 DEF LedgerInv
<1>4. CASE Resume(t)
  <2>1. task'[t].at = "post" /\ \A s \in Tasks : s # t => task'[s] = task[s]
    BY <1>4, Moves DEF Resume, Steps, SettlerSteps
  <2>2. Waiting(t) BY <1>4 DEF Resume, LedgerInv, LockInv
  <2>3. tx[t] \in TxRecord BY <1>0 DEF LedgerTyped
  <2>4. PICK seen \in [row : Nat, balance : Int] : seen = tx[t].picked BY <2>3 DEF TxRecord
  <2>5. seen.row <= ledger.row BY <1>0, <2>2, <2>4 DEF Waiting
  <2>. QED BY <1>4, <2>1, <2>2, <2>4, <2>5, LocksAppend DEF Resume, Waiting
<1>. QED BY <1>2, <1>3, <1>4

(* The queue, the payouts and the dashboard.                               *)
LEMMA PayingOutLocks == Inv /\ LedgerInv /\ PayingOut => LedgerInv'
<1>. SUFFICES ASSUME Inv, LedgerInv, PayingOut PROVE LedgerInv' OBVIOUS
<1>0. \A t \in Payers : t \in Tasks BY DEF Tasks
<1>1. ASSUME NEW r \in Rows, RunWeeklyPayouts(r) \/ ForgetJob(r) \/ StallJob(r)
      PROVE  LedgerInv'
  BY <1>1, LocksAside DEF RunWeeklyPayouts, ForgetJob, StallJob
<1>2. ASSUME NEW t \in Payers, NEW r \in Rows, IgnorePayout(t, r) \/ HoldForBank(t, r)
      PROVE  LedgerInv'
  BY <1>2, LocksAside DEF IgnorePayout, HoldForBank
<1>3. ASSUME NEW t \in Payers, NEW r \in Rows, StartPayout(t, r) PROVE LedgerInv'
  <2>0. PICK job0 : job0 = Job("disburse", r, fin[r].amount) OBVIOUS
  <2>1. task' = [task EXCEPT ![t] = job0] /\ job0.at = "disburse"
    BY <1>3, <2>0 DEF StartPayout, Job
  <2>2. task'[t].at = "disburse" /\ \A s \in Tasks : s # t => task'[s] = task[s]
    BY <1>0, <2>1, OneMoves DEF Inv
  <2>3. PICK todo \in Seq(Int) : tx' = Open(t, todo)
    <3>1. fin[r].amount \in Int BY Shapes DEF Inv
    <3>2. <<>> \in Seq(Int) /\ <<fin[r].amount>> \in Seq(Int) BY <3>1
    <3>. QED BY <1>3, <3>2 DEF StartPayout
  <2>. QED BY <1>0, <1>3, <2>2, <2>3, LocksOpen DEF StartPayout
<1>4. ASSUME NEW t \in Payers, Disburse(t) PROVE LedgerInv'
  <2>1. task'[t].at = "post" /\ \A s \in Tasks : s # t => task'[s] = task[s]
    BY <1>0, <1>4, Moves DEF Disburse, Steps, SettlerSteps
  <2>. QED BY <1>0, <1>4, <2>1, LocksAside DEF Disburse, HoldSteps
<1>5. ASSUME NEW t \in Payers, CommitPayout(t) \/ DisbursementFails(t) PROVE LedgerInv'
  <2>1. task'[t].at \in {"idle", "failed"} /\ \A s \in Tasks : s # t => task'[s] = task[s]
    BY <1>0, <1>5, Moves DEF CommitPayout, DisbursementFails, Steps, PayerSteps
  <2>2. PICK overtakes \in BOOLEAN : tx' = Ended(t, overtakes)
    BY <1>5 DEF CommitPayout, DisbursementFails, Leads
  <2>3. ledger' \in {ledger, Committed(t)} BY <1>5 DEF CommitPayout, DisbursementFails
  <2>. QED BY <1>0, <2>1, <2>2, <2>3, LocksEnd
<1>6. ASSUME NEW t \in Payers, HandleDisbursementFailure(t) PROVE LedgerInv'
  <2>1. task'[t].at = "idle" /\ \A s \in Tasks : s # t => task'[s] = task[s]
    BY <1>0, <1>6, Moves DEF HandleDisbursementFailure, Steps, SettlerSteps
  <2>2. task[t].at \notin HoldSteps /\ UNCHANGED <<ledger, tx>>
    BY <1>6 DEF HandleDisbursementFailure, At, HoldSteps
  <2>. QED BY <1>0, <2>1, <2>2, LocksAside
<1>. QED BY <1>1, <1>2, <1>3, <1>4, <1>5, <1>6 DEF PayingOut

(* Every step of the program.                                              *)
LEMMA LedgerKeeps == Inv /\ OrdersInv /\ LedgerInv /\ [Next]_vars => LedgerInv'
<1>. SUFFICES ASSUME Inv, OrdersInv, LedgerInv, [Next]_vars PROVE LedgerInv' OBVIOUS
<1>1. CASE UNCHANGED vars BY <1>1, LocksAside DEF vars
<1>2. ASSUME NEW r \in Rows, SetHold(r) \/ ReleaseHold(r) \/ MarkPaid(r) PROVE LedgerInv'
  BY <1>2, LocksAside DEF SetHold, ReleaseHold, MarkPaid
<1>3. ASSUME NEW t \in Tasks, Crash(t) PROVE LedgerInv'
  <2>1. task'[t].at = "idle" /\ \A s \in Tasks : s # t => task'[s] = task[s]
    BY <1>3, Moves DEF Crash, Steps, SettlerSteps
  <2>2. tx' = Ended(t, FALSE) /\ ledger' = ledger BY <1>3 DEF Crash
  <2>. QED BY <2>1, <2>2, LocksEnd
<1>. QED
  BY <1>1, <1>2, <1>3, SettlingLocks, AppendingLocks, PayingOutLocks DEF Next, Managing

-----------------------------------------------------------------------------
(* Who waits for whom.                                                     *)

(* Of a set of numbers one is the least.                                   *)
LEMMA LeastNumber ==
  ASSUME NEW N \in SUBSET Nat, N # {}
  PROVE  \E n \in N : \A m \in N : n <= m
<1>. DEFINE T == {0..n : n \in N}
            R == StrictSubsetOrdering(Nat)
<1>1. IsWellFoundedOn(R, FiniteSubsetsOf(Nat)) BY FS_StrictSubsetOrderingWellFounded
<1>2. T \subseteq FiniteSubsetsOf(Nat) /\ T # {}
  <2>1. \A n \in N : IsFiniteSet(0..n) BY FS_Interval
  <2>2. \A n \in N : 0..n \in SUBSET Nat OBVIOUS
  <2>. QED BY <2>1, <2>2 DEF FiniteSubsetsOf
<1>3. \A m, n \in N : m < n => <<0..m, 0..n>> \in R
  <2>1. ASSUME NEW m \in N, NEW n \in N, m < n PROVE <<0..m, 0..n>> \in R
    <3>1. 0..m \subseteq 0..n /\ n \in 0..n /\ n \notin 0..m /\ 0..n \subseteq Nat BY <2>1
    <3>. QED BY <3>1 DEF StrictSubsetOrdering
  <2>. QED BY <2>1
<1>. HIDE DEF R, T
<1>4. PICK t \in T : \A s \in T : ~(<<s, t>> \in R) BY <1>1, <1>2, WFMin
<1>5. PICK n \in N : t = 0..n BY DEF T
<1>6. \A m \in N : 0..m \in T BY DEF T
<1>7. \A m \in N : ~(m < n) BY <1>3, <1>4, <1>5, <1>6
<1>. QED BY <1>7

(* Who waits for a row of the ledger waits for a function that holds it:   *)
(* if that one waits too, then for a later row.  Who waits for a row of    *)
(* shop_financials waits for a payout that is at work on it, and waits, if *)
(* at all, for the ledger.  So whoever waits for the latest row of all     *)
(* waits for nobody who waits.                                             *)
LEMMA NobodyInACircle == Inv /\ LedgerInv => NoWaitCycle
<1>. SUFFICES ASSUME Inv, LedgerInv, NEW S \in SUBSET Tasks, S # {},
                     \A t \in S : \E s \in S \ {t} : WaitsFor(t, s)
              PROVE  FALSE
  BY DEF NoWaitCycle
<1>. DEFINE W == {t \in S : At(t, "wait")}
            rank(t) == ledger.row - tx[t].picked.row
<1>1. \A t \in S, s \in S : WaitsFor(t, s) => s \in W
  <2>1. ASSUME NEW t \in S, NEW s \in S, WaitsFor(t, s) PROVE task[s].at \in HoldSteps
    BY <2>1 DEF WaitsFor, LedgerInv, LockInv, HoldSteps
  <2>2. ASSUME NEW s \in S, task[s].at \in HoldSteps PROVE At(s, "wait")
    <3>1. PICK u \in S \ {s} : WaitsFor(s, u) OBVIOUS
    <3>. QED BY <2>2, <3>1 DEF WaitsFor, HoldSteps
  <2>. QED BY <2>1, <2>2
<1>2. W # {} BY <1>1
<1>3. \A t \in W : Waiting(t) /\ rank(t) \in Nat
  <2>1. ledger.row \in Nat BY DEF LedgerInv, LedgerTyped
  <2>2. \A t \in W : Waiting(t) BY DEF LedgerInv, LockInv
  <2>. QED BY <2>1, <2>2 DEF Waiting
<1>4. PICK t \in W : \A s \in W : rank(t) <= rank(s)
  <2>. DEFINE N == {rank(u) : u \in W}
  <2>1. N \in SUBSET Nat /\ N # {} BY <1>2, <1>3
  <2>. HIDE DEF N, rank
  <2>2. PICK n \in N : \A m \in N : n <= m BY <2>1, LeastNumber
  <2>. QED BY <2>2 DEF N
<1>5. PICK s \in S \ {t} : WaitsFor(t, s) OBVIOUS
<1>6. s \in W BY <1>1, <1>5
<1>7. tx[t].picked.row \in tx[s].held BY <1>5 DEF WaitsFor, At
<1>8. tx[t].picked.row < tx[s].picked.row BY <1>3, <1>6, <1>7 DEF Waiting
<1>9. /\ ledger.row \in Nat /\ tx[t].picked.row \in Nat /\ tx[s].picked.row \in Nat
      /\ rank(t) <= rank(s)
  BY <1>3, <1>4, <1>6 DEF Waiting, LedgerInv, LedgerTyped
<1>. QED BY <1>8, <1>9

-----------------------------------------------------------------------------
(* Nothing is settled or paid at first.                                    *)
LEMMA InitInv == Init => Inv
<1>. SUFFICES ASSUME Init PROVE Inv OBVIOUS
<1>1. fin \in [Rows -> Record] /\ task \in [Tasks -> JobRecord]
  <2>1. NoRow \in Record BY DEF NoRow, Record, MaxAttempts
  <2>2. Idle \in JobRecord
    BY DEF Idle, Job, JobRecord, Steps, PayerSteps, SettlerSteps, Rows
  <2>. QED BY <2>1, <2>2 DEF Init
<1>2. StateInv
  <2>1. \A t \in Tasks : task[t].at \in StepsOf(t)
    BY DEF Init, Idle, Job, StepsOf, PayerSteps, SettlerSteps
  <2>. QED BY <1>1, <2>1 DEF Init, StateInv, MaxAttempts
<1>3. PayoutInv
  <2>1. \A t \in Payers : task[t].at = "idle" BY DEF Init, Idle, Job, Tasks
  <2>2. \A r \in Rows : failures[r] = 0 /\ fin[r].attempts = 0 BY DEF Init, NoRow
  <2>. QED BY <2>1, <2>2 DEF PayoutInv, Holds, HoldSteps, At, HeldAfterThree
<1>. QED BY <1>2, <1>3 DEF Inv

(* Every step keeps the invariant, and is a step of the payouts' table.    *)
LEMMA StepKeeps == Inv /\ OrdersInv /\ [Next]_vars => Inv' /\ Refines
<1>. SUFFICES ASSUME Inv, OrdersInv, [Next]_vars PROVE Inv' /\ Refines OBVIOUS
<1>1. CASE UNCHANGED vars BY <1>1, NothingMoves DEF vars
<1>2. ASSUME NEW t \in Tasks, Crash(t) PROVE Inv' /\ Refines
  BY <1>2, Ends DEF Crash, orderVars
<1>. QED
  BY <1>1, <1>2, SettlingKeeps, AppendingKeeps, PayingOutKeeps, ManagingKeeps DEF Next

(* What a step may do to the orders, the days and the queue.               *)
LEMMA OrdersStep ==
  ASSUME Inv, [Next]_vars
  PROVE  /\ delivered' = delivered \/ \E o \in Orders : delivered' = delivered \cup {o}
         /\ over' = over \/ \E d \in Days : over' = over \cup {d}
         /\ runs' = runs \/ (runs < RunCap /\ runs' = runs + 1)
         /\ job' = job \/ \E r \in Rows, to \in {"none", "waiting", "active", "done"} :
                            job' = [job EXCEPT ![r] = to]
<1>1. \A t \in Tasks : task[t].row \in Rows BY Shapes DEF Inv
<1>2. \A t \in Payers : t \in Tasks BY DEF Tasks
<1>. QED
  BY <1>1, <1>2
  DEF Next, vars, orderVars, payoutVars, Settling, Appending, PayingOut, Managing, Deliver,
      DayEnds, SettleDay, BeginPosting, CommitPosting, PostingFails, SettleWeek, Upsert,
      SettlementFails, AppendEntry, Wait, Resume, RunWeeklyPayouts, ForgetJob, StallJob,
      Finished, IgnorePayout, HoldForBank, StartPayout, Disburse, CommitPayout,
      DisbursementFails, HandleDisbursementFailure, SetHold, ReleaseHold, MarkPaid, Crash

(* Orders, days and the queue stay what they are.                          *)
LEMMA OrdersKeep == Inv /\ OrdersInv /\ [Next]_vars => OrdersInv'
<1>. SUFFICES ASSUME Inv, OrdersInv, [Next]_vars PROVE OrdersInv' OBVIOUS
<1>1. \A o : IsFiniteSet(delivered \cup {o}) BY FS_AddElement DEF OrdersInv
<1>2. IsFiniteSet(delivered') /\ delivered' \subseteq Orders
  BY <1>1, OrdersStep DEF OrdersInv
<1>3. over' \subseteq Days BY OrdersStep DEF OrdersInv
<1>4. runs' \in 0..RunCap BY OrdersStep, ConstantsAssumption DEF OrdersInv
<1>5. job' \in [Rows -> {"none", "waiting", "active", "done"}] BY OrdersStep DEF OrdersInv
<1>. QED BY <1>2, <1>3, <1>4, <1>5 DEF OrdersInv

(* Nothing is locked at first.                                             *)
LEMMA InitLedger == Init => LedgerInv /\ OrdersInv
<1>. SUFFICES ASSUME Init PROVE LedgerInv /\ OrdersInv OBVIOUS
<1>1. LedgerTyped BY NoTxType DEF Init, LedgerTyped
<1>2. \A t \in Tasks : tx[t].held = {} /\ ~At(t, "wait") BY NoTxType DEF Init, At, Idle, Job
<1>3. LockInv BY <1>2 DEF LockInv
<1>4. OrdersInv BY FS_EmptySet, ConstantsAssumption DEF Init, OrdersInv
<1>. QED BY <1>1, <1>3, <1>4 DEF LedgerInv

(* So the states of the specification satisfy all three.                   *)
LEMMA InvHolds == Spec => [](Inv /\ OrdersInv /\ LedgerInv)
  BY InitInv, InitLedger, StepKeeps, OrdersKeep, LedgerKeeps, PTL DEF Spec

(* Rows, jobs, tasks and the ledger keep to their types, whatever number   *)
(* of days, orders, settlements and payouts there is: the amount of a row  *)
(* is never negative, a failed row counts three attempts at most, and no   *)
(* payout leaves a row in PROCESSING.                                      *)
THEOREM TypeOKHolds == Spec => []TypeOK
<1>1. Inv /\ OrdersInv /\ LedgerInv => TypeOK
  <2>. SUFFICES ASSUME Inv, OrdersInv, LedgerInv PROVE TypeOK OBVIOUS
  <2>1. /\ fin \in [Rows -> Record] /\ task \in [Tasks -> JobRecord]
        /\ credited \in [Rows -> Nat] /\ failures \in [Rows -> 0..MaxAttempts]
    BY DEF Inv, StateInv
  <2>2. Steps = {"idle", "begin", "post", "wait", "upsert", "disburse", "failed"}
    BY DEF Steps, PayerSteps, SettlerSteps, HoldSteps
  <2>. QED
    BY <2>1, <2>2 DEF TypeOK, OrdersInv, LedgerInv, LedgerTyped, TxRecord, Record, JobRecord
<1>. QED BY <1>1, InvHolds, PTL

(* Settlements and payouts, however many, never wait for each other in a   *)
(* circle, for rows of shop_financials and rows of the ledger: they lock   *)
(* the ledger's rows from older to newer, and a settlement has given them  *)
(* up when it waits for its row of shop_financials.                        *)
THEOREM NoWaitCycleHolds == Spec => []NoWaitCycle
  BY NobodyInACircle, InvHolds, PTL

(* A payout whose disbursement failed three times since its last release   *)
(* is held or paid by hand, though the failure is counted unlocked.        *)
THEOREM HeldAfterThreeHolds == Spec => []HeldAfterThree
<1>1. Inv => HeldAfterThree BY DEF Inv, PayoutInv
<1>. QED BY <1>1, InvHolds, PTL

(* Whatever settlements, stalled workers, crashes and the dashboard do,    *)
(* payouts live as payout-state-machine.js says, and each has at most one  *)
(* entry in the ledger, written when it is PAID.                           *)
THEOREM MachineKeptHolds == Spec => MachineKept
<1>1. Init => Machine!Init
  <2>1. ASSUME Init, NEW r \in Rows PROVE PayoutState(r) = "NONE"
    BY <2>1 DEF Init, PayoutState, RowLocked, Tasks, Idle, Job, NoRow
  <2>. QED BY <2>1 DEF Init, Machine!Init
<1>2. Inv /\ OrdersInv /\ [Next]_vars => [Machine!Next]_Machine!vars BY StepKeeps DEF Refines
<1>. QED BY <1>1, <1>2, InvHolds, PTL DEF Spec, MachineKept, Machine!Spec

(* What the table promises, it promises of the rows of shop_financials:    *)
(* whatever stalls, is repeated, crashes or is paid by hand, the ledger    *)
(* has at most one PAYOUT_CREDIT of a row, and none of a row that is not   *)
(* PAID.                                                                   *)
THEOREM CreditedOnceHolds == Spec => []Machine!CreditedOnce
<1>1. Init => Machine!CreditedOnce BY DEF Init, Machine!CreditedOnce
<1>2. Machine!CreditedOnce /\ Inv /\ OrdersInv /\ [Next]_vars => Machine!CreditedOnce'
  <2>. SUFFICES ASSUME Machine!CreditedOnce, Inv, OrdersInv, [Next]_vars
                PROVE  Machine!CreditedOnce'
    OBVIOUS
  <2>. DEFINE S == [r \in Rows |-> PayoutState(r)]
              N == [r \in Rows |-> PayoutState(r)']
  <2>0. S' = N OBVIOUS
  <2>1. credited \in [Rows -> Nat] BY DEF Inv, StateInv
  <2>2. Refines BY StepKeeps
  <2>3. \A r \in Rows : credited[r] \in {0, 1} /\ (credited[r] = 1 => S[r] = "PAID")
    BY DEF Machine!CreditedOnce
  <2>4. SUFFICES \A r \in Rows : credited'[r] \in {0, 1} /\ (credited'[r] = 1 => N[r] = "PAID")
    BY <2>0 DEF Machine!CreditedOnce
  <2>5. CASE UNCHANGED Machine!vars
    <3>1. N = S /\ credited' = credited BY <2>5 DEF Machine!vars
    <3>. QED BY <2>3, <3>1
  <2>6. ASSUME NEW r \in Rows, NEW from \in {"NONE", "PENDING", "PROCESSING", "HELD"}, NEW to,
               Machine!Move(r, from, to)
        PROVE  \A q \in Rows : credited'[q] \in {0, 1} /\ (credited'[q] = 1 => N[q] = "PAID")
    <3>1. S[r] = from /\ N = [S EXCEPT ![r] = to] /\ credited' = credited
      BY <2>6 DEF Machine!Move
    <3>. HIDE DEF S, N
    <3>. QED BY <2>3, <3>1
  <2>7. ASSUME NEW r \in Rows, Machine!Paid(r)
        PROVE  \A q \in Rows : credited'[q] \in {0, 1} /\ (credited'[q] = 1 => N[q] = "PAID")
    <3>1. /\ S[r] = "PROCESSING" /\ N = [S EXCEPT ![r] = "PAID"]
          /\ credited' \in {credited, [credited EXCEPT ![r] = @ + 1]}
      BY <2>7 DEF Machine!Paid
    <3>2. DOMAIN S = Rows OBVIOUS
    <3>. HIDE DEF S, N
    <3>. QED BY <2>1, <2>3, <3>1, <3>2
  <2>. HIDE DEF S, N
  <2>8. Machine!Next => (\E r \in Rows : Machine!Paid(r) \/
          \E from \in {"NONE", "PENDING", "PROCESSING", "HELD"}, to \in {"PENDING", "PROCESSING", "HELD", "PAID"} :
             Machine!Move(r, from, to))
    BY DEF Machine!Next, Machine!Settle, Machine!Start, Machine!Fail, Machine!Hold,
           Machine!Release, Machine!MarkPaid
  <2>. QED BY <2>2, <2>5, <2>6, <2>7, <2>8 DEF Refines
<1>. QED BY <1>1, <1>2, InvHolds, PTL DEF Spec

-----------------------------------------------------------------------------
(* What the ledger's balance is, where its two sources of error are shut   *)
(* off.                                                                    *)

(* No two transactions that append are open at a time.                     *)
OneOpen == \A s, t \in Tasks : tx[s].open /\ tx[t].open => s = t

(* A row gets a later id than the rows its transaction wrote before.       *)
IdsAscend ==
  \A t \in Tasks : AppendEntry(t) => tx'[t].top = Latest(t).balance + Head(tx[t].todo)

(* The balance of committed rows is their sum, and the latest balance of   *)
(* an open transaction is that sum and what it has appended.  Without one, *)
(* a function has appended and holds nothing.  Nobody waits.               *)
Summed(x) ==
  IF x.open THEN /\ ~x.behind
                 /\ IF x.mine THEN x.top = ledger.balance + x.sum ELSE x.sum = 0
            ELSE ~x.mine /\ x.sum = 0 /\ x.todo = <<>> /\ x.held = {}
SumInv ==
  /\ ledger.balance = ledger.total
  /\ \A t \in Tasks : Summed(tx[t]) /\ tx[t].before \subseteq {t} /\ ~At(t, "wait")

(* Steps that leave the ledger alone, and let nobody wait.                 *)
LEMMA SumAside ==
  ASSUME SumInv, UNCHANGED <<ledger, tx>>, \A t \in Tasks : ~At(t, "wait")'
  PROVE  SumInv'
  BY DEF SumInv, Summed

(* A transaction that begins has appended nothing.                         *)
LEMMA SumOpens ==
  ASSUME LedgerTyped, SumInv, OneOpen', NEW t \in Tasks, NEW todo, tx' = Open(t, todo),
         ledger' = ledger, \A s \in Tasks : ~At(s, "wait")'
  PROVE  SumInv'
<1>. DEFINE before == {s \in Tasks : tx[s].open}
            new == [NoTx EXCEPT !.open = TRUE, !.todo = todo, !.before = before]
<1>1. new.open /\ ~new.behind /\ ~new.mine /\ new.sum = 0 /\ new.before = before BY DEF NoTx
<1>2. tx' = [tx EXCEPT ![t] = new] BY DEF Open
<1>. HIDE DEF new
<1>3. tx'[t] = new /\ \A s \in Tasks : s # t => tx'[s] = tx[s] BY <1>2 DEF LedgerTyped
<1>4. before \subseteq {t} BY <1>1, <1>3 DEF OneOpen
<1>. QED BY <1>1, <1>3, <1>4 DEF SumInv, Summed

(* Who appends knows the sum of all that was appended before.              *)
LEMMA SumAppends ==
  ASSUME LedgerTyped, SumInv, NEW t \in Tasks, AppendEntry(t), IdsAscend
  PROVE  SumInv'
<1>. DEFINE head == Head(tx[t].todo)
            tail == Tail(tx[t].todo)
            held == tx[t].held \cup ({Latest(t).row} \ {0})
            new(top) == [tx[t] EXCEPT !.mine = TRUE, !.top = top, !.picked = None,
                                      !.sum = tx[t].sum + head, !.todo = tail, !.held = held]
<1>1. tx[t] \in TxRecord /\ tx \in [Tasks -> TxRecord] BY DEF LedgerTyped
<1>2. PICK top : tx' = [tx EXCEPT ![t] = new(top)] BY DEF AppendEntry, InsertAfter
<1>3. tx'[t] = new(top) /\ \A s \in Tasks : s # t => tx'[s] = tx[s] BY <1>1, <1>2
<1>. HIDE DEF head, tail, held
<1>4. /\ new(top).open = tx[t].open /\ new(top).behind = tx[t].behind
      /\ new(top).before = tx[t].before
      /\ new(top).mine /\ new(top).top = top /\ new(top).sum = tx[t].sum + head
  BY <1>1 DEF TxRecord
<1>. HIDE DEF new
<1>5. top = Latest(t).balance + head BY <1>3, <1>4 DEF IdsAscend, head
<1>6. tx[t].open BY DEF AppendEntry, SumInv, Summed
<1>7. Latest(t).balance = ledger.balance + tx[t].sum
  <2>1. tx[t].sum \in Int /\ ledger.balance \in Int BY <1>1 DEF TxRecord, LedgerTyped
  <2>. QED BY <1>6, <2>1 DEF SumInv, Summed, Latest
<1>8. head \in Int /\ tx[t].sum \in Int /\ ledger.balance \in Int
  <2>1. tx[t].todo \in Seq(Int) /\ tx[t].todo # <<>> BY <1>1 DEF TxRecord, AppendEntry
  <2>. QED BY <1>1, <2>1, HeadTailProperties DEF TxRecord, LedgerTyped, head
<1>9. new(top).top = ledger.balance + new(top).sum BY <1>4, <1>5, <1>7, <1>8
<1>10. ledger' = ledger /\ task' = task BY DEF AppendEntry
<1>11. Summed(tx[t])' BY <1>3, <1>4, <1>6, <1>9, <1>10 DEF SumInv, Summed
<1>. QED BY <1>3, <1>4, <1>10, <1>11 DEF SumInv, Summed, At

(* Where one transaction is open, nobody has a row that it could wait for. *)
LEMMA NobodyWaits ==
  ASSUME LedgerTyped, SumInv, OneOpen, NEW t \in Tasks
  PROVE  ~Wait(t) /\ ~Resume(t)
<1>1. ASSUME Wait(t) PROVE FALSE
  <2>1. PICK s \in Tasks \ {t} : Latest(t).row \in tx[s].held BY <1>1 DEF Wait, Free
  <2>2. tx[s].open BY <2>1 DEF SumInv, Summed
  <2>3. tx[t].open BY <1>1 DEF Wait, SumInv, Summed
  <2>. QED BY <2>1, <2>2, <2>3 DEF OneOpen
<1>. QED BY <1>1 DEF Resume, SumInv

(* A commit adds to the balance what it adds to the sum; and whoever ends, *)
(* has overtaken nobody.                                                   *)
LEMMA SumEnds ==
  ASSUME LedgerTyped, SumInv, OneOpen, NEW t \in Tasks, NEW overtakes \in BOOLEAN,
         tx' = Ended(t, overtakes), ledger' \in {ledger, Committed(t)},
         \A s \in Tasks : ~At(s, "wait")'
  PROVE  SumInv'
<1>1. tx[t] \in TxRecord /\ ledger \in [row : Nat, balance : Int, total : Int]
  BY DEF LedgerTyped
<1>2. tx[t].sum \in Int /\ tx[t].top \in Int /\ ledger.balance \in Int /\ ledger.total \in Int
  BY <1>1 DEF TxRecord
<1>3. /\ ledger'.balance = ledger'.total
      /\ tx[t].open \/ ledger'.balance = ledger.balance
  <2>1. CASE ledger' = ledger BY <2>1 DEF SumInv
  <2>2. CASE ledger' = Committed(t) /\ Leads(t)
    <3>1. ledger'.balance = tx[t].top /\ ledger'.total = ledger.total + tx[t].sum
      BY <2>2 DEF Committed
    <3>2. tx[t].open BY <2>2 DEF Leads, SumInv, Summed
    <3>. QED BY <1>2, <2>2, <3>1, <3>2 DEF Leads, SumInv, Summed
  <2>3. CASE ledger' = Committed(t) /\ ~Leads(t)
    <3>1. ledger' = [ledger EXCEPT !.total = @ + tx[t].sum] BY <2>3 DEF Committed
    <3>2. ledger'.balance = ledger.balance /\ ledger'.total = ledger.total + tx[t].sum
      BY <1>1, <3>1
    <3>3. tx[t].sum = 0 BY <2>3 DEF Leads, SumInv, Summed
    <3>. QED BY <1>2, <3>2, <3>3 DEF SumInv
  <2>. QED BY <2>1, <2>2, <2>3
<1>4. tx'[t] = NoTx BY DEF Ended
<1>5. Summed(NoTx)' /\ NoTx.before = {} BY DEF Summed, NoTx
<1>6. ASSUME NEW s \in Tasks, s # t PROVE Summed(tx[s])' /\ tx'[s].before \subseteq {s}
  <2>. DEFINE behind == tx[s].behind \/ (overtakes /\ s \in tx[t].before)
              new == [tx[s] EXCEPT !.before = @ \ {t}, !.behind = behind]
  <2>1. tx[s] \in TxRecord BY DEF LedgerTyped
  <2>2. s \notin tx[t].before BY <1>6 DEF SumInv
  <2>3. behind <=> tx[s].behind BY <2>2
  <2>4. tx[s].behind \in BOOLEAN /\ behind \in BOOLEAN
    <3>1. \A a, b : (a \/ b) \in BOOLEAN OBVIOUS
    <3>2. behind \in BOOLEAN BY <3>1, Zenon
    <3>. QED BY <2>1, <3>2 DEF TxRecord
  <2>5. behind = tx[s].behind BY <2>3, <2>4
  <2>6. tx'[s] = new BY <1>6 DEF Ended
  <2>. HIDE DEF behind
  <2>7. /\ new.open = tx[s].open /\ new.mine = tx[s].mine /\ new.top = tx[s].top
        /\ new.sum = tx[s].sum /\ new.behind = tx[s].behind /\ new.before = tx[s].before \ {t}
    BY <2>1, <2>5 DEF TxRecord
  <2>8. CASE tx[s].open
    <3>1. ~tx[t].open BY <1>6, <2>8 DEF OneOpen
    <3>2. ledger'.balance = ledger.balance BY <1>3, <3>1
    <3>. HIDE DEF new
    <3>. QED BY <2>6, <2>7, <2>8, <3>2 DEF SumInv, Summed
  <2>9. CASE ~tx[s].open
    <3>1. new.todo = tx[s].todo /\ new.held = tx[s].held BY <2>1 DEF TxRecord
    <3>. HIDE DEF new
    <3>. QED BY <2>6, <2>7, <2>9, <3>1 DEF SumInv, Summed
  <2>. QED BY <2>8, <2>9
<1>. QED BY <1>3, <1>4, <1>5, <1>6 DEF SumInv

(* The next step of one function is no wait.                               *)
LEMMA NoWaitNext ==
  ASSUME SumInv, NEW t \in Tasks, task'[t].at # "wait",
         \A s \in Tasks : s # t => task'[s] = task[s]
  PROVE  \A s \in Tasks : ~At(s, "wait")'
  BY DEF SumInv, At

(* Settlements.                                                            *)
LEMMA SettlingSums ==
  Inv /\ OrdersInv /\ LedgerTyped /\ SumInv /\ OneOpen /\ OneOpen' /\ Settling => SumInv'
<1>. SUFFICES ASSUME Inv, OrdersInv, LedgerTyped, SumInv, OneOpen, OneOpen', Settling PROVE SumInv'
  OBVIOUS
<1>0. \A t \in Settlers : t \in Tasks BY DEF Tasks
<1>1. CASE (\E o \in Orders : Deliver(o)) \/ \E d \in Days : DayEnds(d)
  BY <1>1, SumAside DEF Deliver, DayEnds, SumInv, At
<1>2. ASSUME NEW t \in Settlers,
             (\E d \in Days : SettleDay(t, d)) \/ SettleWeek(t) \/ Upsert(t) \/ SettlementFails(t)
      PROVE  SumInv'
  <2>1. PICK job0 : task' = [task EXCEPT ![t] = job0] /\ job0.at # "wait"
    BY <1>2 DEF SettleDay, SettleWeek, Upsert, SettlementFails, Done, Idle, Job
  <2>2. task'[t].at # "wait" /\ \A s \in Tasks : s # t => task'[s] = task[s]
    BY <1>0, <2>1, OneMoves DEF Inv
  <2>3. UNCHANGED <<ledger, tx>> BY <1>2 DEF SettleDay, SettleWeek, Upsert, SettlementFails
  <2>. QED BY <1>0, <2>2, <2>3, NoWaitNext, SumAside
<1>3. ASSUME NEW t \in Settlers, BeginPosting(t) PROVE SumInv'
  <2>1. task'[t].at = "post" /\ \A s \in Tasks : s # t => task'[s] = task[s]
    BY <1>0, <1>3, Moves DEF BeginPosting, Steps, SettlerSteps
  <2>2. \A s \in Tasks : ~At(s, "wait")' BY <1>0, <2>1, NoWaitNext
  <2>. QED BY <1>0, <1>3, <2>2, SumOpens DEF BeginPosting
<1>4. ASSUME NEW t \in Settlers, CommitPosting(t) \/ PostingFails(t) PROVE SumInv'
  <2>1. task'[t].at = "upsert" /\ \A s \in Tasks : s # t => task'[s] = task[s]
    BY <1>0, <1>4, Moves DEF CommitPosting, PostingFails, Steps, SettlerSteps
  <2>2. PICK overtakes \in BOOLEAN : tx' = Ended(t, overtakes)
    BY <1>4 DEF CommitPosting, PostingFails, Leads
  <2>3. ledger' \in {ledger, Committed(t)} BY <1>4 DEF CommitPosting, PostingFails
  <2>4. \A s \in Tasks : ~At(s, "wait")' BY <1>0, <2>1, NoWaitNext
  <2>. QED BY <1>0, <2>2, <2>3, <2>4, SumEnds
<1>. QED BY <1>1, <1>2, <1>3, <1>4 DEF Settling

(* The queue and the payouts.                                              *)
LEMMA PayingOutSums ==
  Inv /\ LedgerTyped /\ SumInv /\ OneOpen /\ OneOpen' /\ PayingOut => SumInv'
<1>. SUFFICES ASSUME Inv, LedgerTyped, SumInv, OneOpen, OneOpen', PayingOut PROVE SumInv' OBVIOUS
<1>0. \A t \in Payers : t \in Tasks BY DEF Tasks
<1>1. CASE \/ \E r \in Rows : RunWeeklyPayouts(r) \/ ForgetJob(r) \/ StallJob(r)
           \/ \E t \in Payers, r \in Rows : IgnorePayout(t, r) \/ HoldForBank(t, r)
  <2>1. UNCHANGED <<ledger, tx, task>>
    BY <1>1 DEF RunWeeklyPayouts, ForgetJob, StallJob, IgnorePayout, HoldForBank
  <2>. QED BY <2>1, SumAside DEF SumInv, At
<1>2. ASSUME NEW t \in Payers, NEW r \in Rows, StartPayout(t, r) PROVE SumInv'
  <2>0. PICK job0 : job0 = Job("disburse", r, fin[r].amount) OBVIOUS
  <2>1. task' = [task EXCEPT ![t] = job0] /\ job0.at # "wait"
    BY <1>2, <2>0 DEF StartPayout, Job
  <2>2. task'[t].at # "wait" /\ \A s \in Tasks : s # t => task'[s] = task[s]
    BY <1>0, <2>1, OneMoves DEF Inv
  <2>3. \A s \in Tasks : ~At(s, "wait")' BY <1>0, <2>2, NoWaitNext
  <2>. QED BY <1>0, <1>2, <2>3, SumOpens DEF StartPayout
<1>3. ASSUME NEW t \in Payers, Disburse(t) PROVE SumInv'
  <2>1. task'[t].at = "post" /\ \A s \in Tasks : s # t => task'[s] = task[s]
    BY <1>0, <1>3, Moves DEF Disburse, Steps, SettlerSteps
  <2>. QED BY <1>0, <1>3, <2>1, NoWaitNext, SumAside DEF Disburse
<1>4. ASSUME NEW t \in Payers, CommitPayout(t) \/ DisbursementFails(t) PROVE SumInv'
  <2>1. task'[t].at \in {"idle", "failed"} /\ \A s \in Tasks : s # t => task'[s] = task[s]
    BY <1>0, <1>4, Moves DEF CommitPayout, DisbursementFails, Steps, PayerSteps
  <2>2. PICK overtakes \in BOOLEAN : tx' = Ended(t, overtakes)
    BY <1>4 DEF CommitPayout, DisbursementFails, Leads
  <2>3. ledger' \in {ledger, Committed(t)} BY <1>4 DEF CommitPayout, DisbursementFails
  <2>4. \A s \in Tasks : ~At(s, "wait")' BY <1>0, <2>1, NoWaitNext
  <2>. QED BY <1>0, <2>2, <2>3, <2>4, SumEnds
<1>5. ASSUME NEW t \in Payers, HandleDisbursementFailure(t) PROVE SumInv'
  <2>1. task'[t].at = "idle" /\ \A s \in Tasks : s # t => task'[s] = task[s]
    BY <1>0, <1>5, Moves DEF HandleDisbursementFailure, Steps, SettlerSteps
  <2>. QED BY <1>0, <1>5, <2>1, NoWaitNext, SumAside DEF HandleDisbursementFailure
<1>. QED BY <1>1, <1>2, <1>3, <1>4, <1>5 DEF PayingOut

(* What migration 035 says of balance_after fails in two ways only: rows   *)
(* of one transaction in the order of random ids, which run v_ledger       *)
(* shows, and transactions that overlap.  Without both, every balance is   *)
(* the sum, through any failures, crashes, stalls and repeated runs.       *)
THEOREM BalanceIsSumSerially ==
  Spec /\ []OneOpen /\ [][IdsAscend]_vars => []BalanceIsSum
<1>1. Init => SumInv BY DEF Init, SumInv, Summed, NoTx, At, Idle, Job
<1>2. SumInv => BalanceIsSum BY DEF SumInv, BalanceIsSum
<1>3. /\ Inv /\ OrdersInv /\ LedgerInv /\ SumInv /\ OneOpen /\ OneOpen'
      /\ [Next]_vars /\ [IdsAscend]_vars
      => SumInv'
  <2>. SUFFICES ASSUME Inv, OrdersInv, LedgerInv, SumInv, OneOpen, OneOpen',
                       [Next]_vars, [IdsAscend]_vars
                PROVE  SumInv'
    OBVIOUS
  <2>0. LedgerTyped BY DEF LedgerInv
  <2>1. CASE UNCHANGED vars BY <2>1, SumAside DEF vars, SumInv, At
  <2>2. ASSUME NEW r \in Rows, SetHold(r) \/ ReleaseHold(r) \/ MarkPaid(r) PROVE SumInv'
    BY <2>2, SumAside DEF SetHold, ReleaseHold, MarkPaid, SumInv, At
  <2>3. ASSUME NEW t \in Tasks, AppendEntry(t) PROVE SumInv'
    <3>1. CASE IdsAscend BY <2>0, <2>3, <3>1, SumAppends
    <3>2. CASE UNCHANGED vars BY <2>1, <3>2
    <3>. QED BY <3>1, <3>2
  <2>4. ASSUME NEW t \in Tasks, Wait(t) \/ Resume(t) PROVE SumInv'
    BY <2>0, <2>4, NobodyWaits
  <2>5. ASSUME NEW t \in Tasks, Crash(t) PROVE SumInv'
    <3>1. task'[t].at = "idle" /\ \A s \in Tasks : s # t => task'[s] = task[s]
      BY <2>5, Moves DEF Crash, Steps, SettlerSteps
    <3>2. tx' = Ended(t, FALSE) /\ ledger' = ledger BY <2>5 DEF Crash
    <3>3. \A s \in Tasks : ~At(s, "wait")' BY <3>1, NoWaitNext
    <3>. QED BY <2>0, <3>2, <3>3, SumEnds
  <2>. QED BY <2>0, <2>1, <2>2, <2>3, <2>4, <2>5, SettlingSums, PayingOutSums
       DEF Next, Appending, Managing
<1>. QED BY <1>1, <1>2, <1>3, InvHolds, PTL DEF Spec
=============================================================================

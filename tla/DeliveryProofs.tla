--------------------------- MODULE DeliveryProofs ---------------------------
(***************************************************************************)
(* Safety of Delivery for any number of orders, riders, rows and requests. *)
(* StateInv ties every request to the row and order it works on.  ClaimInv *)
(* keeps the claim of an order exclusive and in step with the order;       *)
(* what the lock of an accept guarantees between its two steps is part of  *)
(* it.  DoneInv says that a delivered order is at its end, and CashInv     *)
(* that its cash was collected.                                            *)
(***************************************************************************)
EXTENDS Delivery, TLAPS

RiderSteps == {"lock", "claim", "reject", "giveUp", "pickUp", "collect", "deliver"}

(* What a request holds at its next step.                                  *)
JobOK(j) ==
  /\ j \in TaskType
  /\ j.at # "idle" => j.order \in Orders
  /\ j.at \in RiderSteps => j.row \in Rows
  /\ j.at = "reassign" => j.rider \in Riders
  /\ j.at = "status" => j.from \in Statuses /\ j.to \in AllowedTransitions[j.from]
  /\ j.at = "cancel" => j.from \in Statuses

(* A row that exists belongs to an order and a rider.                      *)
RowOK(i) == row[i].status # "NONE" => row[i].order \in Orders /\ row[i].rider \in Riders

(* The row a rider's request read exists and is a row of its order.        *)
Bound(t) ==
  task[t].at \in RiderSteps => /\ row[task[t].row].status # "NONE"
                               /\ row[task[t].row].order = task[t].order

StateInv ==
  /\ TypeOK
  /\ \A t \in Tasks : JobOK(task[t]) /\ Bound(t)
  /\ \A i \in Rows : RowOK(i)

(* A claim is exclusive, the order names its rider, other offers are       *)
(* closed, and the order is not at its end; an accept that holds the lock  *)
(* of an order may still claim it.                                         *)
ClaimInv ==
  /\ OneClaimPerOrder /\ ClaimMatchesRider /\ OffersClosed /\ InStep
  /\ \A o \in Intact, i \in Rows : ClaimedBy(i, o) => order[o].status # "DELIVERED"
  /\ \A t \in Tasks : At(t, "claim") => order[task[t].order].status \in Assignable

Closed(o) == order[o].status \in Terminal /\ \A i \in Rows : ~ClaimedBy(i, o)

(* A delivered order is at its end and paid for; so is an order that the   *)
(* customer read as delivered and unpaid, and it was not delivered by a    *)
(* rider.                                                                  *)
DoneInv ==
  /\ \A o \in Intact : delivered[o] > 0 => Closed(o)
  /\ \A o \in Intact : delivered[o] > 0 /\ order[o].status = "DELIVERED" => order[o].pay = "PAID"
  /\ \A t \in Tasks : At(t, "cancel") /\ task[t].from = "DELIVERED" /\ task[t].order \in Intact
       => Closed(task[t].order) /\ delivered[task[t].order] = 0
  /\ DeliveredOnce

(* A cash order with an amount due that the desk never settled.            *)
Owes(o) == order[o].cod /\ order[o].due > 0 /\ ~order[o].settled

(* Such an order that is paid for, or about to be delivered, is collected. *)
CashInv ==
  /\ CollectedFirst
  /\ \A o \in Orders : Owes(o) /\ order[o].pay = "PAID" => o \in collected
  /\ \A t \in Tasks : At(t, "deliver") /\ Owes(task[t].order) => task[t].order \in collected

-----------------------------------------------------------------------------
(* Jobs.                                                                   *)

(* The idle job is in order.                                               *)
LEMMA IdleOK == JobOK(Idle)
  BY ConstantsAssumption DEF Idle, JobOK, TaskType, RiderSteps, Rows

(* Where a status may lead.                                                *)
LEMMA Transitions ==
  ASSUME NEW from \in Statuses
  PROVE  /\ AllowedTransitions[from] \subseteq Statuses
         /\ from \in Terminal => AllowedTransitions[from] = {}
  BY DEF Statuses, Terminal, Assignable, AllowedTransitions

(* A task that moves is the only one that moves.                           *)
LEMMA OneMoves ==
  ASSUME StateInv, NEW t \in Tasks, NEW job, JobOK(job),
         task' = [task EXCEPT ![t] = job]
  PROVE  /\ task' \in [Tasks -> TaskType]
         /\ task'[t] = job
         /\ \A u \in Tasks : u # t => task'[u] = task[u]
         /\ \A u \in Tasks : JobOK(task'[u])
  BY DEF StateInv, TypeOK, JobOK

(* A task that is done is idle.                                            *)
LEMMA DoneTask ==
  ASSUME StateInv, NEW t \in Tasks, Done(t)
  PROVE  /\ task' \in [Tasks -> TaskType]
         /\ task'[t] = Idle
         /\ \A u \in Tasks : u # t => task'[u] = task[u]
         /\ \A u \in Tasks : JobOK(task'[u])
  BY OneMoves, IdleOK DEF Done

(* The jobs requests begin with.                                           *)
LEMMA RowNumbers == 0 \in 0..RowCap /\ Rows \subseteq 0..RowCap
  BY ConstantsAssumption DEF Rows

RequestOf(step, o, i) == [Idle EXCEPT !.at = step, !.order = o, !.row = i]
CancelOf(o, from) == [Idle EXCEPT !.at = "cancel", !.order = o, !.from = from]

(* A rider's request.                                                      *)
LEMMA RequestJob ==
  ASSUME NEW step \in RiderSteps, NEW o \in Orders, NEW i \in Rows, NEW job,
         job = RequestOf(step, o, i)
  PROVE  JobOK(job) /\ job.at = step /\ job.order = o /\ job.row = i
<1>1. job \in TaskType BY RowNumbers DEF RequestOf, Idle, TaskType, RiderSteps
<1>2. job.at = step /\ job.order = o /\ job.row = i BY DEF RequestOf, Idle
<1>. QED BY <1>1, <1>2 DEF JobOK, RiderSteps

(* A worker's job.                                                         *)
LEMMA OfferJob ==
  ASSUME NEW o \in Orders, NEW pool \in SUBSET Riders
  PROVE  LET job == [Idle EXCEPT !.at = "offer", !.order = o, !.pool = pool] IN
         JobOK(job) /\ job.at = "offer"
<1>. DEFINE job == [Idle EXCEPT !.at = "offer", !.order = o, !.pool = pool]
<1>1. job \in TaskType BY RowNumbers DEF Idle, TaskType
<1>2. job.at = "offer" /\ job.order = o BY DEF Idle
<1>. HIDE DEF job
<1>3. JobOK(job) BY <1>1, <1>2 DEF JobOK, RiderSteps
<1>. QED BY <1>2, <1>3 DEF job

(* An assignment by the dashboard.                                         *)
LEMMA ReassignJob ==
  ASSUME NEW o \in Orders, NEW r \in Riders, NEW seen \in SUBSET Rows
  PROVE  LET job == [Idle EXCEPT !.at = "reassign", !.order = o, !.rider = r, !.seen = seen] IN
         JobOK(job) /\ job.at = "reassign"
<1>. DEFINE job == [Idle EXCEPT !.at = "reassign", !.order = o, !.rider = r, !.seen = seen]
<1>1. job \in TaskType BY RowNumbers DEF Idle, TaskType
<1>2. job.at = "reassign" /\ job.order = o /\ job.rider = r BY DEF Idle
<1>. HIDE DEF job
<1>3. JobOK(job) BY <1>1, <1>2 DEF JobOK, RiderSteps
<1>. QED BY <1>2, <1>3 DEF job

(* A status set on the dashboard.                                          *)
LEMMA StatusJob ==
  ASSUME NEW o \in Orders, NEW from \in Statuses, NEW to \in AllowedTransitions[from]
  PROVE  LET job == [Idle EXCEPT !.at = "status", !.order = o, !.from = from, !.to = to] IN
         JobOK(job) /\ job.at = "status"
<1>. DEFINE job == [Idle EXCEPT !.at = "status", !.order = o, !.from = from, !.to = to]
<1>0. to \in Statuses BY Transitions
<1>1. job \in TaskType BY <1>0, RowNumbers DEF Idle, TaskType
<1>2. job.at = "status" /\ job.order = o /\ job.from = from /\ job.to = to BY DEF Idle
<1>. HIDE DEF job
<1>3. JobOK(job) BY <1>1, <1>2 DEF JobOK, RiderSteps
<1>. QED BY <1>2, <1>3 DEF job

(* The customer's cancellation.                                            *)
LEMMA CancelJob ==
  ASSUME NEW o \in Orders, NEW from \in Statuses, NEW job, job = CancelOf(o, from)
  PROVE  JobOK(job) /\ job.at = "cancel" /\ job.order = o /\ job.from = from
<1>1. job \in TaskType BY RowNumbers DEF CancelOf, Idle, TaskType
<1>2. job.at = "cancel" /\ job.order = o /\ job.from = from BY DEF CancelOf, Idle
<1>. QED BY <1>1, <1>2 DEF JobOK, RiderSteps

(* What a request knows when it begins.                                    *)
Knows(job) ==
  /\ JobOK(job)
  /\ job.at \notin {"claim", "idle"}
  /\ job.at \in RiderSteps => /\ row[job.row].order = job.order
                              /\ row[job.row].status # "NONE"
  /\ job.at = "deliver" /\ order[job.order].cod /\ Due(job.order) => job.order \in collected
  /\ job.at = "cancel" => /\ order[job.order].pay # "PAID"
                          /\ job.from = order[job.order].status

(* A rider's request knows what it read.                                   *)
LEMMA RequestKnows ==
  ASSUME StateInv, NEW t \in Tasks, NEW o \in Orders, NEW i \in OpenOf(o), NEW statuses,
         NEW step \in RiderSteps \ {"claim"}, Request(t, o, i, statuses, step),
         step = "deliver" /\ order[o].cod /\ Due(o) => o \in collected
  PROVE  \E job : task[t] = Idle /\ task' = [task EXCEPT ![t] = job] /\ Knows(job)
<1>1. i \in Rows /\ row[i].order = o /\ row[i].status # "NONE"
  BY DEF OpenOf, RowsOf, Open, Claimed
<1>. PICK job : job = RequestOf(step, o, i) OBVIOUS
<1>2. JobOK(job) /\ job.at = step /\ job.order = o /\ job.row = i BY <1>1, RequestJob
<1>3. task[t] = Idle /\ task' = [task EXCEPT ![t] = job] BY DEF Request, Begin, RequestOf
<1>4. Knows(job) BY <1>1, <1>2 DEF Knows, RiderSteps
<1>. QED BY <1>3, <1>4

(* Every request begins from an idle task, changes nothing else, and knows *)
(* what it read.                                                           *)
LEMMA Begins ==
  ASSUME StateInv, NEW t \in Tasks, Handler(t)
  PROVE  /\ UNCHANGED <<order, row, collected, delivered, torn>>
         /\ \E job : task[t] = Idle /\ task' = [task EXCEPT ![t] = job] /\ Knows(job)
<1>. PICK o \in Orders :
       \/ \E i \in OpenOf(o) :
            \/ AcceptOrder(t, o, i) \/ RejectOrder(t, o, i) \/ CancelDelivery(t, o, i)
            \/ MarkPickedUp(t, o, i) \/ SaveCollection(t, o, i) \/ MarkDelivered(t, o, i)
       \/ \E pool \in (SUBSET Riders) \ {{}} : AutoAssign(t, o, pool)
       \/ \E r \in Riders : AssignRider(t, o, r)
       \/ \E status \in {"PACKED", "OUT_FOR_DELIVERY", "DELIVERED", "CANCELLED"} :
            SetStatus(t, o, status)
       \/ CancelOrder(t, o)
  BY DEF Handler
<1>1. ASSUME NEW i \in OpenOf(o),
             \/ AcceptOrder(t, o, i) \/ RejectOrder(t, o, i) \/ CancelDelivery(t, o, i)
             \/ MarkPickedUp(t, o, i) \/ SaveCollection(t, o, i) \/ MarkDelivered(t, o, i)
      PROVE  \E step \in RiderSteps \ {"claim"}, statuses \in SUBSET Open :
               /\ Request(t, o, i, statuses, step)
               /\ step = "deliver" /\ order[o].cod /\ Due(o) => o \in collected
  BY <1>1 DEF AcceptOrder, RejectOrder, CancelDelivery, MarkPickedUp, SaveCollection,
              MarkDelivered, RiderSteps, Open, Claimed
<1>2. CASE \E i \in OpenOf(o) :
            \/ AcceptOrder(t, o, i) \/ RejectOrder(t, o, i) \/ CancelDelivery(t, o, i)
            \/ MarkPickedUp(t, o, i) \/ SaveCollection(t, o, i) \/ MarkDelivered(t, o, i)
  <2>1. PICK i \in OpenOf(o), step \in RiderSteps \ {"claim"}, statuses \in SUBSET Open :
               /\ Request(t, o, i, statuses, step)
               /\ step = "deliver" /\ order[o].cod /\ Due(o) => o \in collected
    BY <1>1, <1>2
  <2>. QED BY <2>1, RequestKnows DEF Request
<1>3. CASE \E pool \in (SUBSET Riders) \ {{}} : AutoAssign(t, o, pool)
  <2>1. PICK pool \in SUBSET Riders : AutoAssign(t, o, pool) BY <1>3
  <2>. DEFINE job == [Idle EXCEPT !.at = "offer", !.order = o, !.pool = pool]
  <2>2. JobOK(job) /\ job.at = "offer" BY OfferJob
  <2>3. task[t] = Idle /\ task' = [task EXCEPT ![t] = job] BY <2>1 DEF AutoAssign, Begin
  <2>. HIDE DEF job
  <2>4. Knows(job) BY <2>2 DEF Knows, RiderSteps
  <2>. QED BY <2>1, <2>3, <2>4 DEF AutoAssign
<1>4. CASE \E r \in Riders : AssignRider(t, o, r)
  <2>1. PICK r \in Riders : AssignRider(t, o, r) BY <1>4
  <2>. DEFINE job == [Idle EXCEPT !.at = "reassign", !.order = o, !.rider = r, !.seen = OpenOf(o)]
  <2>2. OpenOf(o) \in SUBSET Rows BY DEF OpenOf, RowsOf
  <2>3. JobOK(job) /\ job.at = "reassign" BY <2>2, ReassignJob
  <2>4. task[t] = Idle /\ task' = [task EXCEPT ![t] = job] BY <2>1 DEF AssignRider, Begin
  <2>. HIDE DEF job
  <2>5. Knows(job) BY <2>3 DEF Knows, RiderSteps
  <2>. QED BY <2>1, <2>4, <2>5 DEF AssignRider
<1>5. order[o].status \in Statuses BY DEF StateInv, TypeOK, OrderType
<1>6. CASE \E status : SetStatus(t, o, status)
  <2>1. PICK status : SetStatus(t, o, status) BY <1>6
  <2>. DEFINE job == [Idle EXCEPT !.at = "status", !.order = o,
                                  !.from = order[o].status, !.to = status]
  <2>2. JobOK(job) /\ job.at = "status" BY <2>1, <1>5, StatusJob DEF SetStatus
  <2>3. task[t] = Idle /\ task' = [task EXCEPT ![t] = job] BY <2>1 DEF SetStatus, Begin
  <2>. HIDE DEF job
  <2>4. Knows(job) BY <2>2 DEF Knows, RiderSteps
  <2>. QED BY <2>1, <2>3, <2>4 DEF SetStatus
<1>7. CASE CancelOrder(t, o)
  <2>. PICK job : job = CancelOf(o, order[o].status) OBVIOUS
  <2>1. JobOK(job) /\ job.at = "cancel" /\ job.order = o /\ job.from = order[o].status
    BY <1>5, CancelJob
  <2>2. task[t] = Idle /\ task' = [task EXCEPT ![t] = job] BY <1>7 DEF CancelOrder, Begin, CancelOf
  <2>3. Knows(job) BY <1>7, <2>1 DEF Knows, RiderSteps, CancelOrder
  <2>. QED BY <1>7, <2>2, <2>3 DEF CancelOrder
<1>. QED BY <1>2, <1>3, <1>4, <1>6, <1>7

-----------------------------------------------------------------------------
(* Types.                                                                  *)

RowType == [order : Orders \cup {NoOrder}, rider : Riders \cup {NoRider},
            status : {"NONE"} \cup Open \cup Terminal]

(* What every step does to the rows: a row that exists keeps its order.    *)
RowsKept ==
  /\ row' \in [Rows -> RowType]
  /\ \A i \in Rows : RowOK(i)'
  /\ \A i \in Rows : row[i].status # "NONE" => /\ row'[i].status # "NONE"
                                               /\ row'[i].order = row[i].order
                                               /\ row'[i].rider = row[i].rider

(* A task that takes a step has a job in order.                            *)
LEMMA StepJob ==
  ASSUME StateInv, NEW t \in Tasks, task[t].at # "idle"
  PROVE  /\ JobOK(task[t]) /\ Bound(t)
         /\ task[t].order \in Orders
         /\ task[t].at \in RiderSteps => /\ task[t].row \in Rows
                                         /\ row[task[t].row].order = task[t].order
                                         /\ row[task[t].row].rider \in Riders
  BY DEF StateInv, JobOK, Bound, RowOK

(* Offers go to free rows.                                                 *)
LEMMA OfferKeeps ==
  ASSUME StateInv, NEW t \in Tasks, OfferToPool(t)
  PROVE  RowsKept
<1>. PICK o \in Orders, pool \in SUBSET Riders : o = task[t].order /\ pool = task[t].pool
  BY StepJob DEF OfferToPool, At, JobOK, TaskType
<1>1. CASE row' = row BY <1>1 DEF StateInv, TypeOK, RowsKept, RowOK, RowType
<1>2. CASE Offered(o, pool)
  <2>. DEFINE new == {r \in pool : \A i \in RowsOf(o) : row[i].rider # r}
  <2>. PICK slots \in SUBSET Free : \E place \in Bijection(slots, new) :
         row' = [i \in Rows |->
                   IF i \in slots
                     THEN [order |-> o, rider |-> place[i], status |-> "ASSIGNED"]
                     ELSE row[i]]
    BY <1>2 DEF Offered
  <2>. PICK place \in Bijection(slots, new) :
         row' = [i \in Rows |->
                   IF i \in slots
                     THEN [order |-> o, rider |-> place[i], status |-> "ASSIGNED"]
                     ELSE row[i]]
    OBVIOUS
  <2>0. place \in [slots -> new] /\ new \subseteq Riders BY DEF Bijection, Injection
  <2>. HIDE DEF new
  <2>1. \A i \in slots : place[i] \in Riders /\ row[i].status = "NONE" /\ i \in Rows
    BY <2>0 DEF Free
  <2>2. \A i \in slots : row'[i] = [order |-> o, rider |-> place[i], status |-> "ASSIGNED"]
    BY <2>1
  <2>3. \A i \in Rows \ slots : row'[i] = row[i] OBVIOUS
  <2>4. \A i \in slots : row'[i] \in RowType /\ row'[i].order = o /\ row'[i].rider \in Riders
    BY <2>1, <2>2 DEF RowType, Open
  <2>5. row' \in [Rows -> RowType]
    BY <2>3, <2>4 DEF StateInv, TypeOK, RowType
  <2>. QED BY <2>1, <2>3, <2>4, <2>5 DEF RowsKept, RowOK, StateInv
<1>. QED BY <1>1, <1>2 DEF OfferToPool

(* An assignment writes one free row and closes others.                    *)
LEMMA ReassignKeeps ==
  ASSUME StateInv, NEW t \in Tasks, Reassign(t)
  PROVE  RowsKept
<1>. PICK o \in Orders, r \in Riders : o = task[t].order /\ r = task[t].rider
  BY StepJob DEF Reassign, Reassigned, At, JobOK
<1>. PICK new \in Free :
       row' = [i \in Rows |->
                 IF i = new THEN [order |-> o, rider |-> r, status |-> "ASSIGNED"]
                 ELSE IF i \in task[t].seen /\ row[i].status \in Open
                   THEN [row[i] EXCEPT !.status = "CANCELLED"]
                 ELSE row[i]]
  BY DEF Reassign, Reassigned
<1>1. new \in Rows /\ row[new].status = "NONE" BY DEF Free
<1>2. row'[new] = [order |-> o, rider |-> r, status |-> "ASSIGNED"] BY <1>1
<1>3. \A i \in Rows \ {new} : \/ row'[i] = row[i]
                              \/ /\ row[i].status \in Open
                                 /\ row'[i] = [row[i] EXCEPT !.status = "CANCELLED"]
  OBVIOUS
<1>4. row \in [Rows -> RowType] BY DEF StateInv, TypeOK, RowType
<1>5. \A i \in Rows \ {new} : /\ row'[i] \in RowType
                              /\ row'[i].order = row[i].order /\ row'[i].rider = row[i].rider
                              /\ row[i].status = "NONE" <=> row'[i].status = "NONE"
  BY <1>3, <1>4 DEF RowType, Open, Claimed, Terminal
<1>6. row'[new] \in RowType BY <1>2 DEF RowType, Open
<1>7. row' \in [Rows -> RowType] BY <1>5, <1>6
<1>. QED BY <1>1, <1>2, <1>5, <1>7 DEF RowsKept, RowOK, StateInv

(* The other steps change the status of rows that exist.                   *)
LEMMA MoveKeeps ==
  ASSUME StateInv, NEW t \in Tasks,
         GiveUp(t) \/ PickUp(t) \/ Deliver(t) \/ Reject(t)
  PROVE  RowsKept
<1>. PICK i \in Rows : i = task[t].row
  BY StepJob DEF GiveUp, PickUp, Deliver, Move, Reject, At, RiderSteps
<1>1. row' = row \/ \E s \in {"CANCELLED", "IN_TRANSIT", "DELIVERED"} :
                      row' = [row EXCEPT ![i].status = s] /\ row[i].status # "NONE"
  BY DEF GiveUp, PickUp, Deliver, Move, Reject, Claimed, StateInv, TypeOK
<1>2. row \in [Rows -> RowType] BY DEF StateInv, TypeOK, RowType
<1>. QED BY <1>1, <1>2 DEF RowsKept, RowOK, StateInv, RowType, Open, Claimed, Terminal

(* An accept claims one row and closes the order's other offers.          *)
LEMMA ClaimKeeps ==
  ASSUME StateInv, NEW t \in Tasks, AcceptClaim(t)
  PROVE  RowsKept
<1>1. row \in [Rows -> RowType] BY DEF StateInv, TypeOK, RowType
<1>2. CASE row' = row BY <1>1, <1>2 DEF RowsKept, RowOK, StateInv
<1>3. CASE row' # row
  <2>1. \A j \in Rows : \/ row'[j] = row[j]
                        \/ /\ row[j].status = "ASSIGNED"
                           /\ \E s \in {"ACCEPTED", "CANCELLED"} :
                                row'[j] = [row[j] EXCEPT !.status = s]
    BY <1>3 DEF AcceptClaim
  <2>2. DOMAIN row' = Rows /\ row' = [j \in Rows |-> row'[j]] BY <1>3 DEF AcceptClaim
  <2>3. \A j \in Rows : /\ row'[j] \in RowType
                        /\ row'[j].order = row[j].order /\ row'[j].rider = row[j].rider
                        /\ row[j].status = "NONE" <=> row'[j].status = "NONE"
    BY <2>1, <1>1 DEF RowType, Open, Claimed, Terminal
  <2>. QED BY <2>2, <2>3 DEF RowsKept, RowOK, StateInv
<1>. QED BY <1>2, <1>3

(* A status the dashboard sets is copied to rows that exist.              *)
LEMMA SyncKeeps ==
  ASSUME StateInv, NEW t \in Tasks, UpdateStatus(t)
  PROVE  RowsKept
<1>1. row \in [Rows -> RowType] BY DEF StateInv, TypeOK, RowType
<1>2. CASE row' = row BY <1>1, <1>2 DEF RowsKept, RowOK, StateInv
<1>3. CASE row' # row
  <2>1. \A j \in Rows : \/ row'[j] = row[j]
                        \/ /\ row[j].status \in Open
                           /\ \E s \in Terminal : row'[j] = [row[j] EXCEPT !.status = s]
    BY <1>3 DEF UpdateStatus, WriteStatus, SyncTerminal, Sync
  <2>2. DOMAIN row' = Rows /\ row' = [j \in Rows |-> row'[j]]
    BY <1>3 DEF UpdateStatus, WriteStatus, SyncTerminal, Sync
  <2>3. \A j \in Rows : /\ row'[j] \in RowType
                        /\ row'[j].order = row[j].order /\ row'[j].rider = row[j].rider
                        /\ row[j].status = "NONE" <=> row'[j].status = "NONE"
    BY <2>1, <1>1 DEF RowType, Open, Claimed, Terminal
  <2>. QED BY <2>2, <2>3 DEF RowsKept, RowOK, StateInv
<1>. QED BY <1>2, <1>3

(* The rows a step leaves alone are kept.                                  *)
LEMMA SameRowsKept ==
  ASSUME StateInv, row' = row
  PROVE  RowsKept
  BY DEF StateInv, TypeOK, RowsKept, RowOK, RowType

(* A step of one task that keeps the rows preserves StateInv.              *)
LEMMA StateFrom ==
  ASSUME StateInv, NEW t \in Tasks, NEW job, JobOK(job), task' = [task EXCEPT ![t] = job],
         RowsKept, Bound(t)',
         order' \in [Orders -> OrderType], delivered' \in [Orders -> Nat],
         collected' \subseteq Orders, torn' \subseteq Orders
  PROVE  StateInv'
<1>1. /\ task' \in [Tasks -> TaskType]
      /\ \A u \in Tasks : u # t => task'[u] = task[u]
      /\ \A u \in Tasks : JobOK(task'[u])
  BY OneMoves
<1>2. TypeOK' BY <1>1 DEF TypeOK, RowsKept, RowType, OrderType
<1>3. ASSUME NEW u \in Tasks, u # t PROVE Bound(u)'
  BY <1>1, <1>3 DEF StateInv, Bound, RowsKept, JobOK
<1>4. \A u \in Tasks : JobOK(task[u])' BY <1>1 DEF JobOK
<1>. QED BY <1>2, <1>3, <1>4 DEF StateInv, RowsKept

(* A task that is done binds nothing.                                      *)
LEMMA StateFromDone ==
  ASSUME StateInv, NEW t \in Tasks, Done(t), RowsKept,
         order' \in [Orders -> OrderType], delivered' \in [Orders -> Nat],
         collected' \subseteq Orders, torn' \subseteq Orders
  PROVE  StateInv'
<1>1. task'[t] = Idle BY DoneTask
<1>2. Bound(t)' BY <1>1 DEF Bound, Idle, RiderSteps
<1>. QED BY <1>2, IdleOK, StateFrom DEF Done

(* The requests that begin.                                                *)
LEMMA StateHandler ==
  ASSUME StateInv, NEW t \in Tasks, Handler(t)
  PROVE  StateInv'
<1>. PICK job : task' = [task EXCEPT ![t] = job] /\ Knows(job) BY Begins
<1>1. UNCHANGED <<order, row, collected, delivered, torn>> BY Begins
<1>2. task'[t] = job BY OneMoves DEF Knows
<1>3. Bound(t)' BY <1>1, <1>2 DEF Bound, Knows
<1>. QED BY <1>1, <1>3, SameRowsKept, StateFrom DEF StateInv, TypeOK, OrderType, Knows

(* The steps of requests under way.                                        *)
LEMMA StateStep ==
  ASSUME StateInv, NEW t \in Tasks, Step(t) \/ Rollback(t)
  PROVE  StateInv'
<1>. /\ order \in [Orders -> OrderType] /\ delivered \in [Orders -> Nat]
     /\ collected \subseteq Orders /\ torn \subseteq Orders
  BY DEF StateInv, TypeOK, OrderType
<1>1. CASE OfferToPool(t) BY <1>1, OfferKeeps, StateFromDone DEF OfferToPool
<1>2. CASE AcceptLock(t)
  <2>1. CASE Done(t) BY <1>2, <2>1, SameRowsKept, StateFromDone DEF AcceptLock
  <2>2. CASE task' = [task EXCEPT ![t].at = "claim"]
    <3>. PICK job : job = [task[t] EXCEPT !.at = "claim"] OBVIOUS
    <3>1. task[t].at = "lock" BY <1>2 DEF AcceptLock, At
    <3>2. JobOK(task[t]) /\ Bound(t) BY DEF StateInv
    <3>3. job \in TaskType BY <3>2 DEF JobOK, TaskType
    <3>4. job.at = "claim" /\ job.order = task[t].order /\ job.row = task[t].row
      BY <3>2 DEF JobOK, TaskType
    <3>5. JobOK(job) BY <3>1, <3>2, <3>3, <3>4 DEF JobOK, RiderSteps
    <3>6. task' = [task EXCEPT ![t] = job] BY <2>2
    <3>7. task'[t] = job BY <3>5, <3>6, OneMoves
    <3>8. row' = row BY <1>2 DEF AcceptLock
    <3>9. Bound(t)' BY <3>1, <3>2, <3>4, <3>7, <3>8 DEF Bound, RiderSteps
    <3>. QED BY <1>2, <3>5, <3>6, <3>9, SameRowsKept, StateFrom DEF AcceptLock
  <2>. QED BY <1>2, <2>1, <2>2 DEF AcceptLock
<1>3. CASE AcceptClaim(t)
  <2>1. task[t].order \in Orders /\ task[t].row \in Rows /\ row[task[t].row].rider \in Riders
    BY <1>3, StepJob DEF AcceptClaim, At, RiderSteps
  <2>2. order' \in [Orders -> OrderType] BY <1>3, <2>1 DEF AcceptClaim, OrderType
  <2>. QED BY <1>3, <2>2, ClaimKeeps, StateFromDone DEF AcceptClaim
<1>4. CASE Reject(t) BY <1>4, MoveKeeps, StateFromDone DEF Reject
<1>5. CASE GiveUp(t) \/ PickUp(t) \/ Deliver(t)
  <2>1. task[t].order \in Orders
    BY <1>5, StepJob DEF GiveUp, PickUp, Deliver, Move, At
  <2>2. order' \in [Orders -> OrderType] /\ delivered' \in [Orders -> Nat]
    BY <1>5, <2>1 DEF GiveUp, PickUp, Deliver, Move, OrderType, Statuses, Terminal
  <2>. QED BY <1>5, <2>2, MoveKeeps, StateFromDone DEF GiveUp, PickUp, Deliver, Move
<1>6. CASE Collect(t)
  <2>1. task[t].order \in Orders BY <1>6, StepJob DEF Collect, At
  <2>. QED BY <1>6, <2>1, SameRowsKept, StateFromDone DEF Collect
<1>7. CASE Reassign(t)
  <2>1. task[t].order \in Orders /\ task[t].rider \in Riders
    BY <1>7, StepJob DEF Reassign, Reassigned, At, JobOK
  <2>2. order' \in [Orders -> OrderType] BY <1>7, <2>1 DEF Reassign, Reassigned, OrderType
  <2>. QED BY <1>7, <2>1, <2>2, ReassignKeeps, StateFromDone DEF Reassign, Reassigned
<1>8. CASE UpdateStatus(t)
  <2>1. task[t].order \in Orders /\ task[t].to \in Statuses
    BY <1>8, StepJob, Transitions DEF UpdateStatus, WriteStatus, At, JobOK
  <2>2. order' \in [Orders -> OrderType] BY <1>8, <2>1 DEF UpdateStatus, WriteStatus, OrderType
  <2>. QED BY <1>8, <2>1, <2>2, SyncKeeps, StateFromDone DEF UpdateStatus, WriteStatus
<1>9. CASE CancelWrite(t)
  <2>1. task[t].order \in Orders BY <1>9, StepJob DEF CancelWrite, At
  <2>2. order' \in [Orders -> OrderType]
    BY <1>9, <2>1 DEF CancelWrite, OrderType, Statuses, Terminal
  <2>. QED BY <1>9, <2>1, <2>2, SameRowsKept, StateFromDone DEF CancelWrite
<1>10. CASE Rollback(t) BY <1>10, SameRowsKept, StateFromDone DEF Rollback
<1>. QED BY <1>1, <1>2, <1>3, <1>4, <1>5, <1>6, <1>7, <1>8, <1>9, <1>10 DEF Step

(* What a settlement, its reversal and a failed payment leave alone, and   *)
(* what makes an order paid.                                               *)
LEMMA PaymentsKeep ==
  ASSUME StateInv, NEW o \in Orders, Payments(o)
  PROVE  /\ UNCHANGED <<row, collected, delivered, task>>
         /\ torn \subseteq torn' /\ torn' \subseteq Orders
         /\ order' \in [Orders -> OrderType]
         /\ \A p \in Orders :
              /\ order'[p].status = order[p].status /\ order'[p].rider = order[p].rider
              /\ order'[p].cod = order[p].cod /\ order'[p].due = order[p].due
              /\ order'[p].dropped = order[p].dropped
              /\ order[p].settled => order'[p].settled
              /\ order'[p].pay = "PAID" => order[p].pay = "PAID" \/ order'[p].settled
              /\ p \notin torn' /\ delivered[p] > 0 /\ order[p].pay = "PAID"
                   => order'[p].pay = "PAID"
<1>. /\ order \in [Orders -> OrderType] /\ delivered \in [Orders -> Nat] /\ torn \subseteq Orders
  BY DEF StateInv, TypeOK
<1>1. CASE RecordSettlement(o)
  <2>. PICK pay \in {"PENDING", "PAID"} :
         order' = [order EXCEPT ![o].received = @ + 1, ![o].settled = TRUE, ![o].pay = pay]
    BY <1>1 DEF RecordSettlement
  <2>1. \A p \in Orders : p # o => order'[p] = order[p] OBVIOUS
  <2>2. order'[o] = [order[o] EXCEPT !.received = @ + 1, !.settled = TRUE, !.pay = pay] OBVIOUS
  <2>3. order' \in [Orders -> OrderType]
    <3>. DEFINE w == [order[o] EXCEPT !.received = @ + 1, !.settled = TRUE, !.pay = pay]
    <3>1. w \in OrderType
      <4>1. order[o] \in OrderType OBVIOUS
      <4>2. order[o].received + 1 \in Nat BY <4>1 DEF OrderType
      <4>. QED BY <4>1, <4>2 DEF OrderType
    <3>2. order' = [order EXCEPT ![o] = w] OBVIOUS
    <3>. HIDE DEF w
    <3>. QED BY <3>1, <3>2
  <2>4. order'[o].settled BY <2>2 DEF OrderType
  <2>. QED BY <1>1, <2>1, <2>2, <2>3, <2>4 DEF RecordSettlement, OrderType
<1>2. CASE ReverseSettlement(o)
  <2>1. order' = [order EXCEPT ![o].received = @ - 1, ![o].pay = "PENDING"]
    BY <1>2 DEF ReverseSettlement
  <2>2. order' \in [Orders -> OrderType]
    <3>. DEFINE w == [order[o] EXCEPT !.received = @ - 1, !.pay = "PENDING"]
    <3>1. w \in OrderType
      <4>1. order[o] \in OrderType OBVIOUS
      <4>2. order[o].received - 1 \in Nat BY <1>2, <4>1 DEF OrderType, ReverseSettlement
      <4>. QED BY <4>1, <4>2 DEF OrderType
    <3>2. order' = [order EXCEPT ![o] = w] BY <2>1
    <3>. HIDE DEF w
    <3>. QED BY <3>1, <3>2
  <2>. QED BY <1>2, <2>1, <2>2 DEF ReverseSettlement, OrderType
<1>3. CASE PaymentFailed(o) BY <1>3 DEF PaymentFailed, OrderType
<1>. QED BY <1>1, <1>2, <1>3 DEF Payments

(* They keep StateInv.                                                     *)
LEMMA StatePayments ==
  ASSUME StateInv, NEW o \in Orders, Payments(o)
  PROVE  StateInv'
  BY PaymentsKeep DEF StateInv, TypeOK, RowOK, Bound, JobOK

(* It holds when the system starts.                                        *)
LEMMA StateInit == Init => StateInv
<1>. SUFFICES ASSUME Init PROVE StateInv OBVIOUS
<1>1. order \in [Orders -> OrderType]
  <2>. DEFINE New(kind, pay) ==
         [status |-> "CONFIRMED", pay |-> pay, cod |-> kind.cod, due |-> kind.due,
          received |-> 0, rider |-> NoRider, settled |-> FALSE, dropped |-> FALSE]
  <2>1. \A kind \in Kinds, pay \in {"PENDING", "PAID"} : New(kind, pay) \in OrderType
    BY ConstantsAssumption DEF OrderType, Statuses, Assignable
  <2>2. order \in [Orders -> {New(kind, pay) : kind \in Kinds, pay \in {"PENDING", "PAID"}}]
    BY DEF Init
  <2>. HIDE DEF New
  <2>. QED BY <2>1, <2>2
<1>2. row \in [Rows -> RowType] BY DEF Init, RowType
<1>3. \A t \in Tasks : task[t] = Idle BY DEF Init
<1>4. task \in [Tasks -> TaskType] BY IdleOK DEF Init, JobOK
<1>5. TypeOK BY <1>1, <1>2, <1>4 DEF Init, TypeOK, OrderType, RowType
<1>6. \A i \in Rows : RowOK(i) BY DEF Init, RowOK
<1>7. \A t \in Tasks : Bound(t) BY <1>3 DEF Bound, Idle, RiderSteps
<1>. QED BY <1>3, <1>5, <1>6, <1>7, IdleOK DEF StateInv

(* StateInv is inductive.                                                  *)
LEMMA StateInductive == StateInv /\ [Next]_vars => StateInv'
<1>. SUFFICES ASSUME StateInv, [Next]_vars PROVE StateInv' OBVIOUS
<1>1. CASE UNCHANGED vars
  BY <1>1 DEF vars, StateInv, TypeOK, Bound, RowOK, JobOK
<1>2. CASE Next BY <1>2, StateHandler, StateStep, StatePayments DEF Next
<1>. QED BY <1>1, <1>2

(* Types hold: every column holds what its CHECK constraint admits.        *)
THEOREM TypeCorrect == Spec => []TypeOK
<1>1. StateInv => TypeOK BY DEF StateInv
<1>. QED BY <1>1, StateInit, StateInductive, PTL DEF Spec

-----------------------------------------------------------------------------
(* Claims.                                                                 *)

(* What every step but a claim does to a claimed order: its claims are as  *)
(* old as the step, no new offer stands beside one, and the order is what  *)
(* it was or, with the same rider, not at its end but for the customer.    *)
Calm ==
  /\ torn \subseteq torn'
  /\ \A o \in Orders \ torn', i \in Rows : ClaimedBy(i, o)' =>
       /\ ClaimedBy(i, o) /\ row'[i].rider = row[i].rider
       /\ \A j \in Rows : row'[j].order = o /\ row'[j].status = "ASSIGNED"
                            => row[j].order = o /\ row[j].status = "ASSIGNED"
       /\ \/ order'[o] = order[o]
          \/ /\ order'[o].rider = order[o].rider
             /\ \/ order'[o].status \notin Terminal
                \/ order'[o].status = "CANCELLED" /\ order'[o].dropped

(* What the locked order of an accept may not see.                         *)
LockKept(t) ==
  /\ ~At(t, "claim")'
  /\ \A u \in Tasks \ {t} : At(u, "claim")' => /\ At(u, "claim")
                                              /\ task'[u].order = task[u].order
                                              /\ order'[task[u].order] = order[task[u].order]

(* Such a step keeps the claims exclusive.                                 *)
LEMMA CalmKeeps ==
  ASSUME StateInv, ClaimInv, Calm, NEW t \in Tasks, LockKept(t)
  PROVE  ClaimInv'
<1>1. \A o \in Orders \ torn' : o \in Intact BY DEF Calm, Intact
<1>2. OneClaimPerOrder' BY <1>1 DEF ClaimInv, OneClaimPerOrder, Calm, Intact
<1>3. ClaimMatchesRider'
  BY <1>1 DEF ClaimInv, ClaimMatchesRider, Calm, Intact, ClaimedBy
<1>4. OffersClosed'
  <2>. SUFFICES ASSUME NEW o \in Orders \ torn', NEW i \in Rows, ClaimedBy(i, o)', 
                       NEW j \in Rows, row'[j].order = o, row'[j].status = "ASSIGNED"
                PROVE  FALSE
    BY DEF OffersClosed, Intact, RowsOf
  <2>1. ClaimedBy(i, o) /\ row[j].order = o /\ row[j].status = "ASSIGNED" BY DEF Calm
  <2>. QED BY <1>1, <2>1 DEF ClaimInv, OffersClosed, RowsOf
<1>5. InStep' BY <1>1 DEF ClaimInv, InStep, Calm, Intact
<1>6. (\A o \in Intact, i \in Rows : ClaimedBy(i, o) => order[o].status # "DELIVERED")'
  BY <1>1 DEF ClaimInv, Calm, Intact, Terminal
<1>7. (\A u \in Tasks : At(u, "claim") => order[task[u].order].status \in Assignable)'
  BY DEF ClaimInv, LockKept
<1>. QED BY <1>2, <1>3, <1>4, <1>5, <1>6, <1>7 DEF ClaimInv

(* A step that leaves orders and rows alone is calm.                       *)
LEMMA StillCalm == 
  ASSUME order' = order, row' = row, torn' = torn
  PROVE  Calm
  BY DEF Calm, ClaimedBy

(* A finished task, and an order written while no accept locks it, keep    *)
(* the locks.                                                              *)
LEMMA DoneLocks ==
  ASSUME StateInv, NEW t \in Tasks, Done(t), NEW o, ~Locked(o),
         \A p \in Orders : p # o => order'[p] = order[p]
  PROVE  LockKept(t)
<1>1. /\ task'[t] = Idle
      /\ \A u \in Tasks : u # t => task'[u] = task[u]
  BY DoneTask
<1>2. ~At(t, "claim")' BY <1>1 DEF At, Idle
<1>3. ASSUME NEW u \in Tasks \ {t}, At(u, "claim")'
      PROVE  /\ At(u, "claim") /\ task'[u].order = task[u].order
             /\ order'[task[u].order] = order[task[u].order]
  BY <1>1, <1>3 DEF At, Locked, StateInv, JobOK
<1>. QED BY <1>2, <1>3 DEF LockKept

(* A finished task that wrote no order.                                    *)
LEMMA DoneQuietly ==
  ASSUME StateInv, NEW t \in Tasks, Done(t), order' = order
  PROVE  LockKept(t)
<1>1. /\ task'[t] = Idle
      /\ \A u \in Tasks : u # t => task'[u] = task[u]
  BY DoneTask
<1>. QED BY <1>1 DEF LockKept, At, Idle

(* Offers are made only while nobody has claimed the order.                *)
LEMMA OfferCalm ==
  ASSUME StateInv, NEW t \in Tasks, OfferToPool(t)
  PROVE  Calm
<1>. DEFINE o == task[t].order
<1>1. CASE row' = row BY <1>1, StillCalm DEF OfferToPool
<1>2. CASE row' # row
  <2>1. Offered(o, task[t].pool) /\ \A i \in RowsOf(o) : row[i].status \notin Claimed
    BY <1>2 DEF OfferToPool
  <2>2. PICK slots \in SUBSET Free : \E place :
          row' = [i \in Rows |->
                    IF i \in slots
                      THEN [order |-> o, rider |-> place[i], status |-> "ASSIGNED"]
                      ELSE row[i]]
    BY <2>1 DEF Offered
  <2>3. \A i \in Rows : row'[i] = row[i] \/ (row'[i].order = o /\ row'[i].status = "ASSIGNED")
    BY <2>2
  <2>4. order' = order /\ torn' = torn BY DEF OfferToPool
  <2>. HIDE DEF o
  <2>5. \A p \in Orders, i \in Rows : ClaimedBy(i, p)' => row'[i] = row[i] /\ ClaimedBy(i, p) /\ p # o
    BY <2>1, <2>3 DEF ClaimedBy, Claimed, RowsOf
  <2>. QED BY <2>3, <2>4, <2>5 DEF Calm
<1>. QED BY <1>1, <1>2

(* Rows that are closed, and orders left alone: a rejected offer.          *)
LEMMA RejectCalm ==
  ASSUME StateInv, NEW t \in Tasks, Reject(t)
  PROVE  Calm
<1>. PICK i \in Rows : i = task[t].row BY StepJob DEF Reject, At, RiderSteps
<1>1. row \in [Rows -> RowType] BY DEF StateInv, TypeOK, RowType
<1>2. \A j \in Rows : \/ row'[j].status = "CANCELLED"
                      \/ /\ row'[j].order = row[j].order /\ row'[j].rider = row[j].rider
                         /\ row'[j].status = row[j].status
  BY <1>1 DEF Reject, RowType
<1>3. order' = order /\ torn' = torn BY DEF Reject
<1>. QED BY <1>2, <1>3 DEF Calm, ClaimedBy, Claimed

(* A rider's transaction moves the only claim of the order with it.        *)
LEMMA MoveCalm ==
  ASSUME StateInv, ClaimInv, NEW t \in Tasks, NEW step \in RiderSteps,
         NEW statuses \in SUBSET Claimed, NEW rowStatus, NEW orderStatus,
         rowStatus # "ASSIGNED",
         rowStatus \notin Claimed \/ orderStatus \notin Terminal,
         Move(t, step, statuses, rowStatus, orderStatus)
  PROVE  Calm /\ LockKept(t)
<1>. PICK o \in Orders, i \in Rows : o = task[t].order /\ i = task[t].row /\ row[i].order = o
  BY StepJob DEF Move, At, RiderSteps
<1>0. Done(t) /\ ~Locked(o) /\ torn' = torn BY DEF Move
<1>1. CASE row[i].status \notin statuses
  BY <1>0, <1>1, StillCalm, DoneQuietly DEF Move
<1>2. CASE row[i].status \in statuses
  <2>1. row \in [Rows -> RowType] /\ order \in [Orders -> OrderType]
    BY DEF StateInv, TypeOK, RowType, OrderType
  <2>2. row' = [row EXCEPT ![i].status = rowStatus] BY <1>2 DEF Move
  <2>3. \E pay : order' = [order EXCEPT ![o].status = orderStatus, ![o].pay = pay]
    BY <1>2 DEF Move
  <2>4. \A j \in Rows \ {i} : row'[j] = row[j] BY <2>2, <2>1
  <2>5. row'[i].order = o /\ row'[i].rider = row[i].rider /\ row'[i].status = rowStatus
    BY <2>2, <2>1 DEF RowType
  <2>6. \A p \in Orders \ {o} : order'[p] = order[p] BY <2>3, <2>1
  <2>7. order'[o].rider = order[o].rider /\ order'[o].status = orderStatus
    BY <2>3, <2>1 DEF OrderType
  <2>8. ClaimedBy(i, o) BY <1>2 DEF ClaimedBy
  <2>9. ASSUME NEW p \in Orders \ torn', NEW j \in Rows, ClaimedBy(j, p)'
        PROVE  /\ ClaimedBy(j, p) /\ row'[j].rider = row[j].rider
               /\ \/ order'[p] = order[p]
                  \/ order'[p].rider = order[p].rider /\ order'[p].status \notin Terminal
    <3>1. CASE j = i BY <2>5, <2>7, <2>8, <2>9, <3>1 DEF ClaimedBy
    <3>2. CASE j # i
      <4>1. row'[j] = row[j] /\ ClaimedBy(j, p) BY <2>4, <2>9, <3>2 DEF ClaimedBy
      <4>2. p # o BY <1>0, <4>1, <2>8, <3>2 DEF ClaimInv, OneClaimPerOrder, Intact
      <4>. QED BY <4>1, <4>2, <2>6
    <3>. QED BY <3>1, <3>2
  <2>10. \A j \in Rows : row'[j].status = "ASSIGNED" => row'[j] = row[j]
    BY <2>4, <2>5
  <2>11. Calm BY <1>0, <2>9, <2>10 DEF Calm
  <2>. QED BY <1>0, <2>6, <2>11, DoneLocks
<1>. QED BY <1>1, <1>2

(* An assignment that saw every open row leaves no claim of the order.     *)
LEMMA ReassignCalm ==
  ASSUME StateInv, NEW t \in Tasks, Reassign(t)
  PROVE  Calm /\ LockKept(t)
<1>. PICK o \in Orders, r \in Riders : o = task[t].order /\ r = task[t].rider
  BY StepJob DEF Reassign, Reassigned, At, JobOK
<1>. PICK new \in Free :
       row' = [i \in Rows |->
                 IF i = new THEN [order |-> o, rider |-> r, status |-> "ASSIGNED"]
                 ELSE IF i \in task[t].seen /\ row[i].status \in Open
                   THEN [row[i] EXCEPT !.status = "CANCELLED"]
                 ELSE row[i]]
  BY DEF Reassign, Reassigned
<1>0. Done(t) /\ ~Locked(o) /\ torn \subseteq torn' BY DEF Reassign, Reassigned
<1>1. row \in [Rows -> RowType] /\ order \in [Orders -> OrderType]
  BY DEF StateInv, TypeOK, RowType, OrderType
<1>2. new \in Rows /\ row'[new] = [order |-> o, rider |-> r, status |-> "ASSIGNED"] BY DEF Free
<1>3. \A i \in Rows \ {new} : \/ row'[i] = row[i] /\ ~(i \in task[t].seen /\ row[i].status \in Open)
                              \/ row'[i].status = "CANCELLED"
  BY <1>1 DEF RowType
<1>4. \A p \in Orders \ {o} : order'[p] = order[p]
  BY <1>1 DEF Reassign, Reassigned
<1>5. o \notin torn' => OpenOf(o) \subseteq task[t].seen
  BY DEF Reassign, Reassigned
<1>6. ASSUME NEW p \in Orders \ torn', NEW i \in Rows, ClaimedBy(i, p)'
      PROVE  p # o /\ row'[i] = row[i] /\ ClaimedBy(i, p)
  <2>1. i # new BY <1>2, <1>6 DEF ClaimedBy, Claimed
  <2>2. row'[i] = row[i] /\ ~(i \in task[t].seen /\ row[i].status \in Open)
    BY <1>3, <1>6, <2>1 DEF ClaimedBy, Claimed
  <2>3. ClaimedBy(i, p) BY <1>6, <2>2 DEF ClaimedBy
  <2>4. p # o BY <1>5, <2>2, <2>3 DEF ClaimedBy, Open, OpenOf, RowsOf
  <2>. QED BY <2>2, <2>3, <2>4
<1>7. \A j \in Rows : row'[j].status = "ASSIGNED" => row'[j] = row[j] \/ row'[j].order = o
  BY <1>2, <1>3
<1>8. Calm BY <1>0, <1>4, <1>6, <1>7 DEF Calm
<1>. QED BY <1>0, <1>4, <1>8, DoneLocks

(* A final status closes every open row of the order with it.              *)
LEMMA StatusCalm ==
  ASSUME StateInv, NEW t \in Tasks, UpdateStatus(t)
  PROVE  Calm /\ LockKept(t)
<1>. PICK o \in Orders, to \in Statuses : o = task[t].order /\ to = task[t].to
  BY StepJob, Transitions DEF UpdateStatus, WriteStatus, At, JobOK
<1>0. Done(t) /\ ~Locked(o) /\ torn \subseteq torn' BY DEF UpdateStatus, WriteStatus, Unlocked
<1>1. row \in [Rows -> RowType] /\ order \in [Orders -> OrderType]
  BY DEF StateInv, TypeOK, RowType, OrderType
<1>2. order' = [order EXCEPT ![o].status = to] BY DEF UpdateStatus, WriteStatus
<1>3. /\ \A p \in Orders \ {o} : order'[p] = order[p]
      /\ order'[o].rider = order[o].rider /\ order'[o].status = to
  BY <1>1, <1>2 DEF OrderType
<1>4. to \notin Terminal => row' = row BY DEF UpdateStatus, WriteStatus, SyncTerminal
<1>5. to \in Terminal => \A i \in Rows : \/ row'[i] = row[i] /\ ~(row[i].order = o /\ row[i].status \in Open)
                                         \/ row'[i].status = to
  BY <1>1 DEF UpdateStatus, WriteStatus, SyncTerminal, Sync, RowType
<1>6. ASSUME NEW p \in Orders, NEW i \in Rows, ClaimedBy(i, p)'
      PROVE  row'[i] = row[i] /\ ClaimedBy(i, p) /\ (p # o \/ to \notin Terminal)
  <2>1. row'[i] = row[i] BY <1>4, <1>5, <1>6 DEF ClaimedBy, Claimed, Terminal
  <2>. QED BY <1>5, <1>6, <2>1 DEF ClaimedBy, Claimed, Open, Terminal
<1>7. \A j \in Rows : row'[j].status = "ASSIGNED" => row'[j] = row[j]
  BY <1>4, <1>5 DEF Terminal
<1>8. Calm BY <1>0, <1>3, <1>6, <1>7 DEF Calm
<1>. QED BY <1>0, <1>3, <1>8, DoneLocks

(* The customer's cancellation leaves the rows alone.                      *)
LEMMA CancelCalm ==
  ASSUME StateInv, NEW t \in Tasks, CancelWrite(t)
  PROVE  Calm /\ LockKept(t)
<1>. PICK o \in Orders : o = task[t].order BY StepJob DEF CancelWrite, At
<1>0. Done(t) /\ ~Locked(o) /\ torn \subseteq torn' /\ row' = row BY DEF CancelWrite
<1>1. order \in [Orders -> OrderType] BY DEF StateInv, TypeOK, OrderType
<1>2. order' = [order EXCEPT ![o].status = "CANCELLED", ![o].pay = "PENDING",
                            ![o].dropped = TRUE]
  BY DEF CancelWrite
<1>3. /\ \A p \in Orders \ {o} : order'[p] = order[p]
      /\ order'[o].rider = order[o].rider
      /\ order'[o].status = "CANCELLED" /\ order'[o].dropped
  BY <1>1, <1>2 DEF OrderType
<1>4. Calm BY <1>0, <1>3 DEF Calm, ClaimedBy
<1>. QED BY <1>0, <1>3, <1>4, DoneLocks

(* An accept: the lock it holds keeps the order open for claims, and its   *)
(* own offer being open says that nobody has claimed the order.            *)
LEMMA AcceptKeeps ==
  ASSUME StateInv, ClaimInv, NEW t \in Tasks, AcceptClaim(t)
  PROVE  ClaimInv'
<1>. PICK o \in Orders, i \in Rows :
       o = task[t].order /\ i = task[t].row /\ row[i].order = o /\ row[i].rider \in Riders
  BY StepJob DEF AcceptClaim, At, RiderSteps
<1>0. Done(t) /\ torn' = torn BY DEF AcceptClaim
<1>1. row \in [Rows -> RowType] /\ order \in [Orders -> OrderType]
  BY DEF StateInv, TypeOK, RowType, OrderType
<1>2. order[o].status \in Assignable BY DEF ClaimInv, AcceptClaim
<1>3. /\ task'[t] = Idle
      /\ \A u \in Tasks : u # t => task'[u] = task[u]
  BY <1>0, DoneTask
<1>4. CASE row[i].status # "ASSIGNED"
  <2>1. order' = order /\ row' = row BY <1>4 DEF AcceptClaim
  <2>. QED BY <1>0, <2>1, StillCalm, DoneQuietly, CalmKeeps
<1>5. CASE row[i].status = "ASSIGNED"
  <2>1. row' = [j \in Rows |->
                  IF j = i THEN [row[j] EXCEPT !.status = "ACCEPTED"]
                  ELSE IF row[j].order = o /\ row[j].status = "ASSIGNED"
                    THEN [row[j] EXCEPT !.status = "CANCELLED"]
                  ELSE row[j]]
    BY <1>5 DEF AcceptClaim
  <2>2. order' = [order EXCEPT ![o].rider = row[i].rider] BY <1>5 DEF AcceptClaim
  <2>3. /\ \A p \in Orders \ {o} : order'[p] = order[p]
        /\ order'[o].rider = row[i].rider /\ order'[o].status = order[o].status
        /\ order'[o].pay = order[o].pay
    BY <2>2, <1>1 DEF OrderType
  <2>4. row'[i].order = o /\ row'[i].rider = row[i].rider /\ row'[i].status = "ACCEPTED"
    BY <2>1, <1>1 DEF RowType
  <2>5. \A j \in Rows \ {i} : \/ row'[j] = row[j] /\ ~(row[j].order = o /\ row[j].status = "ASSIGNED")
                              \/ row'[j].status = "CANCELLED"
    BY <2>1, <1>1 DEF RowType
  <2>6. \A j \in Rows : o \in Intact => ~ClaimedBy(j, o)
    BY <1>5 DEF ClaimInv, OffersClosed, RowsOf
  <2>7. ASSUME NEW p \in Intact, NEW j \in Rows, ClaimedBy(j, p)'
        PROVE  \/ j = i /\ p = o
               \/ j # i /\ p # o /\ row'[j] = row[j] /\ ClaimedBy(j, p) /\ order'[p] = order[p]
    <3>1. CASE j = i BY <2>4, <2>7, <3>1 DEF ClaimedBy
    <3>2. CASE j # i
      <4>1. row'[j] = row[j] BY <2>5, <2>7, <3>2 DEF ClaimedBy, Claimed
      <4>2. ClaimedBy(j, p) BY <2>7, <4>1 DEF ClaimedBy
      <4>3. p # o BY <2>6, <4>2
      <4>. QED BY <2>3, <3>2, <4>1, <4>2, <4>3 DEF Intact
    <3>. QED BY <3>1, <3>2
  <2>8. Intact' = Intact BY <1>0 DEF Intact
  <2>9. OneClaimPerOrder' BY <2>7, <2>8 DEF ClaimInv, OneClaimPerOrder
  <2>10. ClaimMatchesRider' BY <2>3, <2>4, <2>7, <2>8 DEF ClaimInv, ClaimMatchesRider
  <2>11. OffersClosed'
    <3>. SUFFICES ASSUME NEW p \in Intact, NEW j \in Rows, ClaimedBy(j, p)', NEW k \in Rows,
                         row'[k].order = p, row'[k].status = "ASSIGNED"
                  PROVE  FALSE
      BY <2>8 DEF OffersClosed, RowsOf
    <3>1. row'[k] = row[k] /\ ~(row[k].order = o /\ row[k].status = "ASSIGNED")
      BY <2>4, <2>5
    <3>2. p # o BY <3>1
    <3>3. ClaimedBy(j, p) BY <2>7, <3>2
    <3>. QED BY <3>1, <3>3 DEF ClaimInv, OffersClosed, RowsOf
  <2>12. InStep'
    BY <1>2, <2>3, <2>7, <2>8 DEF ClaimInv, InStep, Assignable, Terminal
  <2>13. (\A p \in Intact, j \in Rows : ClaimedBy(j, p) => order[p].status # "DELIVERED")'
    BY <1>2, <2>3, <2>7, <2>8 DEF ClaimInv, Assignable
  <2>14. (\A u \in Tasks : At(u, "claim") => order[task[u].order].status \in Assignable)'
    <3>. SUFFICES ASSUME NEW u \in Tasks, task'[u].at = "claim"
                  PROVE  order'[task'[u].order].status \in Assignable
      BY DEF At
    <3>1. u # t /\ task'[u] = task[u] BY <1>3 DEF Idle
    <3>2. task[u].order \in Orders /\ order[task[u].order].status \in Assignable
      BY <3>1 DEF ClaimInv, At, StateInv, JobOK
    <3>. QED BY <2>3, <3>1, <3>2
  <2>. QED BY <2>9, <2>10, <2>11, <2>12, <2>13, <2>14 DEF ClaimInv
<1>. QED BY <1>4, <1>5

(* The requests that begin claim nothing.                                  *)
LEMMA HandlerCalm ==
  ASSUME StateInv, NEW t \in Tasks, Handler(t)
  PROVE  Calm /\ LockKept(t)
<1>. PICK job : task' = [task EXCEPT ![t] = job] /\ Knows(job) BY Begins
<1>1. UNCHANGED <<order, row, collected, delivered, torn>> BY Begins
<1>2. task'[t] = job /\ \A u \in Tasks : u # t => task'[u] = task[u] BY OneMoves DEF Knows
<1>3. LockKept(t) BY <1>1, <1>2 DEF LockKept, Knows, At
<1>. QED BY <1>1, <1>3, StillCalm

(* Every step but an accept's keeps the claims as they are.                *)
LEMMA StepCalm ==
  ASSUME StateInv, ClaimInv, NEW t \in Tasks, Step(t) \/ Rollback(t),
         ~AcceptClaim(t), ~AcceptLock(t)
  PROVE  Calm /\ LockKept(t)
<1>1. CASE OfferToPool(t) BY <1>1, OfferCalm, DoneQuietly DEF OfferToPool
<1>2. CASE Reject(t) BY <1>2, RejectCalm, DoneQuietly DEF Reject
<1>3. CASE GiveUp(t) \/ PickUp(t) \/ Deliver(t)
  <2>1. \E step \in RiderSteps, statuses \in SUBSET Claimed,
           rowStatus \in Claimed \cup Terminal, orderStatus \in Statuses :
          /\ rowStatus # "ASSIGNED"
          /\ rowStatus \notin Claimed \/ orderStatus \notin Terminal
          /\ Move(t, step, statuses, rowStatus, orderStatus)
    BY <1>3 DEF GiveUp, PickUp, Deliver, RiderSteps, Claimed, Terminal, Statuses
  <2>. QED BY <2>1, MoveCalm
<1>4. CASE Collect(t) BY <1>4, StillCalm, DoneQuietly DEF Collect
<1>5. CASE Reassign(t) BY <1>5, ReassignCalm
<1>6. CASE UpdateStatus(t) BY <1>6, StatusCalm
<1>7. CASE CancelWrite(t) BY <1>7, CancelCalm
<1>8. CASE Rollback(t) BY <1>8, StillCalm, DoneQuietly DEF Rollback
<1>. QED BY <1>1, <1>2, <1>3, <1>4, <1>5, <1>6, <1>7, <1>8 DEF Step

(* Locking the order: it is open for claims.                               *)
LEMMA LockKeeps ==
  ASSUME StateInv, ClaimInv, NEW t \in Tasks, AcceptLock(t)
  PROVE  ClaimInv'
<1>0. order' = order /\ row' = row /\ torn' = torn BY DEF AcceptLock
<1>1. CASE Done(t) BY <1>0, <1>1, StillCalm, DoneQuietly, CalmKeeps
<1>2. CASE ~Done(t)
  <2>1. task' = [task EXCEPT ![t].at = "claim"] /\ order[task[t].order].status \in Assignable
    BY <1>2 DEF AcceptLock
  <2>2. task \in [Tasks -> TaskType] BY DEF StateInv, TypeOK
  <2>3. task'[t].order = task[t].order /\ \A u \in Tasks : u # t => task'[u] = task[u]
    BY <2>1, <2>2 DEF TaskType
  <2>4. (\A u \in Tasks : At(u, "claim") => order[task[u].order].status \in Assignable)'
    BY <1>0, <2>1, <2>3 DEF ClaimInv, At
  <2>. QED BY <1>0, <2>4 DEF ClaimInv, OneClaimPerOrder, ClaimMatchesRider, OffersClosed, InStep,
              ClaimedBy, Intact, RowsOf
<1>. QED BY <1>1, <1>2

(* Payments change nobody's claim.                                         *)
LEMMA ClaimPayments ==
  ASSUME StateInv, ClaimInv, NEW o \in Orders, Payments(o)
  PROVE  ClaimInv'
<1>1. UNCHANGED <<row, task>> /\ Intact' \subseteq Intact BY PaymentsKeep DEF Intact
<1>2. \A p \in Orders : /\ order'[p].status = order[p].status /\ order'[p].rider = order[p].rider
                        /\ order'[p].dropped = order[p].dropped
  BY PaymentsKeep
<1>3. OneClaimPerOrder' /\ OffersClosed'
  BY <1>1 DEF ClaimInv, OneClaimPerOrder, OffersClosed, ClaimedBy, RowsOf
<1>4. ClaimMatchesRider' /\ InStep'
  BY <1>1, <1>2 DEF ClaimInv, ClaimMatchesRider, InStep, ClaimedBy, Intact
<1>5. (\A p \in Intact, i \in Rows : ClaimedBy(i, p) => order[p].status # "DELIVERED")'
  BY <1>1, <1>2 DEF ClaimInv, ClaimedBy, Intact
<1>6. (\A t \in Tasks : At(t, "claim") => order[task[t].order].status \in Assignable)'
  BY <1>1, <1>2 DEF ClaimInv, At, StateInv, JobOK
<1>. QED BY <1>3, <1>4, <1>5, <1>6 DEF ClaimInv

(* ClaimInv is inductive.                                                  *)
LEMMA ClaimInductive == StateInv /\ ClaimInv /\ [Next]_vars => ClaimInv'
<1>. SUFFICES ASSUME StateInv, ClaimInv, [Next]_vars PROVE ClaimInv' OBVIOUS
<1>1. CASE UNCHANGED vars
  BY <1>1 DEF vars, ClaimInv, OneClaimPerOrder, ClaimMatchesRider, OffersClosed, InStep,
              ClaimedBy, Intact, RowsOf, At
<1>2. ASSUME NEW t \in Tasks, Handler(t) PROVE ClaimInv' BY <1>2, HandlerCalm, CalmKeeps
<1>3. ASSUME NEW t \in Tasks, Step(t) \/ Rollback(t) PROVE ClaimInv'
  BY <1>3, AcceptKeeps, LockKeeps, StepCalm, CalmKeeps
<1>4. ASSUME NEW o \in Orders, Payments(o) PROVE ClaimInv' BY <1>4, ClaimPayments
<1>. QED BY <1>1, <1>2, <1>3, <1>4 DEF Next

(* It holds when the system starts.                                        *)
LEMMA ClaimInit == Init => ClaimInv
  BY DEF Init, ClaimInv, OneClaimPerOrder, ClaimMatchesRider, OffersClosed, InStep,
         ClaimedBy, Claimed, At, Idle

(* First accept wins: however many riders accept an order, one claims it,  *)
(* and it is the rider the order names.                                    *)
THEOREM ClaimIsTheRidersHolds == Spec => []ClaimIsTheRiders
<1>1. ClaimInv => ClaimIsTheRiders BY DEF ClaimInv, ClaimIsTheRiders
<1>. QED BY <1>1, StateInit, StateInductive, ClaimInit, ClaimInductive, PTL DEF Spec

(* A claimed order is offered to nobody.                                   *)
THEOREM OffersClosedHolds == Spec => []OffersClosed
<1>1. ClaimInv => OffersClosed BY DEF ClaimInv
<1>. QED BY <1>1, StateInit, StateInductive, ClaimInit, ClaimInductive, PTL DEF Spec

(* No rider is under way with an order at its end, but for a customer's    *)
(* cancellation.                                                           *)
THEOREM InStepHolds == Spec => []InStep
<1>1. ClaimInv => InStep BY DEF ClaimInv
<1>. QED BY <1>1, StateInit, StateInductive, ClaimInit, ClaimInductive, PTL DEF Spec

-----------------------------------------------------------------------------
(* Deliveries.                                                             *)

(* The request that is about to cancel an order it read as delivered.      *)
Cancelling(t, o) == At(t, "cancel") /\ task[t].from = "DELIVERED" /\ task[t].order = o

(* DoneInv, for one order.                                                 *)
DoneOf(o) ==
  /\ delivered[o] > 0 => Closed(o)
  /\ delivered[o] > 0 /\ order[o].status = "DELIVERED" => order[o].pay = "PAID"
  /\ \A t \in Tasks : Cancelling(t, o) => Closed(o) /\ delivered[o] = 0
  /\ delivered[o] <= 1

(* DoneInv is that of each order.                                          *)
LEMMA DoneByOrder ==
  ASSUME StateInv
  PROVE  DoneInv <=> \A o \in Intact : DoneOf(o)
  BY DEF DoneInv, DoneOf, DeliveredOnce, Cancelling

(* An order that is still open was not delivered.                          *)
LEMMA OpenUndelivered ==
  ASSUME StateInv, NEW o \in Intact, DoneOf(o), ~Closed(o)
  PROVE  delivered[o] = 0 /\ \A t \in Tasks : ~Cancelling(t, o)
  BY DEF DoneOf, Intact, StateInv, TypeOK

(* No step but a new request makes a request cancel.                       *)
LEMMA NoNewCancel ==
  ASSUME StateInv, NEW t \in Tasks, Step(t) \/ Rollback(t)
  PROVE  \A u \in Tasks, o \in Orders : Cancelling(u, o)' => Cancelling(u, o)
<1>1. CASE Done(t)
  <2>1. task'[t] = Idle /\ \A u \in Tasks : u # t => task'[u] = task[u] BY <1>1, DoneTask
  <2>. QED BY <2>1 DEF Cancelling, At, Idle
<1>2. CASE ~Done(t)
  <2>1. task' = [task EXCEPT ![t].at = "claim"]
    BY <1>2 DEF Step, Rollback, OfferToPool, AcceptLock, AcceptClaim, Reject, GiveUp, PickUp,
                Move, Collect, Deliver, Reassign, Reassigned, UpdateStatus, WriteStatus, CancelWrite
  <2>2. task \in [Tasks -> TaskType] BY DEF StateInv, TypeOK
  <2>3. task'[t].at = "claim" /\ \A u \in Tasks : u # t => task'[u] = task[u]
    BY <2>1, <2>2 DEF TaskType
  <2>. QED BY <2>3 DEF Cancelling, At
<1>. QED BY <1>1, <1>2

(* An order whose status, payment and count stay, and whose claims do not  *)
(* grow, stays at its end.                                                 *)
LEMMA DoneStays ==
  ASSUME StateInv, NEW o \in Orders, DoneOf(o),
         order'[o].status = order[o].status, order'[o].pay = order[o].pay,
         delivered'[o] = delivered[o],
         \A i \in Rows : ClaimedBy(i, o)' => ClaimedBy(i, o),
         \A u \in Tasks : Cancelling(u, o)' => Cancelling(u, o)
  PROVE  DoneOf(o)'
<1>1. Closed(o) => Closed(o)' BY DEF Closed
<1>. QED BY <1>1 DEF DoneOf

(* An order that stays undelivered owes nothing to anybody.                *)
LEMMA DoneNot ==
  ASSUME NEW o, delivered'[o] = 0, \A u \in Tasks : ~Cancelling(u, o)'
  PROVE  DoneOf(o)'
  BY DEF DoneOf

(* A customer who cancels read the order as unpaid.                        *)
LEMMA DoneHandler ==
  ASSUME StateInv, ClaimInv, DoneInv, NEW t \in Tasks, Handler(t)
  PROVE  DoneInv'
<1>. PICK job : task' = [task EXCEPT ![t] = job] /\ Knows(job) BY Begins
<1>1. UNCHANGED <<order, row, collected, delivered, torn>> BY Begins
<1>2. task'[t] = job /\ \A u \in Tasks : u # t => task'[u] = task[u] BY OneMoves DEF Knows
<1>3. ASSUME NEW o \in Intact PROVE DoneOf(o)'
  <2>1. DoneOf(o) BY DoneByOrder
  <2>2. Closed(o)' <=> Closed(o) BY <1>1 DEF Closed, ClaimedBy
  <2>3. ASSUME NEW u \in Tasks, Cancelling(u, o)'
        PROVE  Closed(o) /\ delivered[o] = 0
    <3>1. CASE u # t BY <1>2, <2>1, <2>3, <3>1 DEF DoneOf, Cancelling, At
    <3>2. CASE u = t
      <4>1. job.at = "cancel" /\ job.from = "DELIVERED" /\ job.order = o
        BY <1>2, <2>3, <3>2 DEF Cancelling, At
      <4>2. order[o].status = "DELIVERED" /\ order[o].pay # "PAID" BY <4>1 DEF Knows
      <4>3. \A i \in Rows : ~ClaimedBy(i, o) BY <4>2 DEF ClaimInv
      <4>4. Closed(o) BY <4>2, <4>3 DEF Closed, Terminal
      <4>5. delivered[o] \in Nat BY DEF StateInv, TypeOK, Intact
      <4>. QED BY <2>1, <4>2, <4>4, <4>5 DEF DoneOf
    <3>. QED BY <3>1, <3>2
  <2>. QED BY <1>1, <2>1, <2>2, <2>3 DEF DoneOf
<1>4. Intact' = Intact BY <1>1 DEF Intact
<1>5. StateInv' BY StateHandler
<1>. QED BY <1>3, <1>4, <1>5, DoneByOrder DEF DoneInv, DoneOf, DeliveredOnce, Cancelling

(* Steps that change no order and no count.                                *)
LEMMA DoneQuiet ==
  ASSUME StateInv, NEW t \in Tasks, NEW o \in Orders \ torn', DoneOf(o),
         Step(t) \/ Rollback(t), order'[o] = order[o], delivered' = delivered, Calm
  PROVE  DoneOf(o)'
<1>1. \A i \in Rows : ClaimedBy(i, o)' => ClaimedBy(i, o) BY DEF Calm
<1>. QED BY <1>1, NoNewCancel, DoneStays

(* A rider's transaction moves an order that is open.                      *)
LEMMA DoneMove ==
  ASSUME StateInv, ClaimInv, NEW t \in Tasks, GiveUp(t) \/ PickUp(t) \/ Deliver(t),
         NEW p \in Orders \ torn', DoneOf(p)
  PROVE  DoneOf(p)'
<1>. PICK step \in RiderSteps, statuses \in SUBSET Claimed,
          rowStatus \in Claimed \cup Terminal, orderStatus \in Statuses :
       /\ rowStatus # "ASSIGNED"
       /\ rowStatus \notin Claimed \/ orderStatus \notin Terminal
       /\ step = "deliver" => rowStatus = "DELIVERED" /\ orderStatus = "DELIVERED"
       /\ Move(t, step, statuses, rowStatus, orderStatus)
  BY DEF GiveUp, PickUp, Deliver, RiderSteps, Claimed, Terminal, Statuses
<1>. PICK o \in Orders, i \in Rows : o = task[t].order /\ i = task[t].row /\ row[i].order = o
  BY StepJob DEF Move, At, RiderSteps
<1>1. Calm /\ torn' = torn BY MoveCalm DEF Move
<1>2. CASE row[i].status \notin statuses
  BY <1>1, <1>2, DoneQuiet DEF Step, Move
<1>3. CASE row[i].status \in statuses
  <2>1. row \in [Rows -> RowType] /\ order \in [Orders -> OrderType] /\ delivered \in [Orders -> Nat]
    BY DEF StateInv, TypeOK, RowType, OrderType
  <2>2. /\ row' = [row EXCEPT ![i].status = rowStatus]
        /\ order' = [order EXCEPT ![o].status = orderStatus,
                       ![o].pay = IF step = "deliver" THEN "PAID" ELSE @]
        /\ delivered' = [delivered EXCEPT ![o] = IF step = "deliver" THEN @ + 1 ELSE @]
    BY <1>3 DEF Move
  <2>3. CASE p # o
    <3>1. order'[p] = order[p] /\ delivered'[p] = delivered[p] BY <2>1, <2>2, <2>3
    <3>2. \A j \in Rows : ClaimedBy(j, p)' => ClaimedBy(j, p) BY <1>1 DEF Calm
    <3>. QED BY <3>1, <3>2, NoNewCancel, DoneStays DEF Step
  <2>4. CASE p = o
    <3>1. ClaimedBy(i, p) /\ p \in Intact BY <1>1, <1>3, <2>4 DEF ClaimedBy, Intact
    <3>2. delivered[p] = 0 /\ \A u \in Tasks : ~Cancelling(u, p)
      BY <3>1, OpenUndelivered DEF Closed
    <3>3. \A u \in Tasks : ~Cancelling(u, p)' BY <3>2, NoNewCancel DEF Step
    <3>4. CASE step # "deliver"
      <4>1. delivered'[p] = 0 BY <2>1, <2>2, <3>2, <3>4
      <4>. QED BY <3>3, <4>1, DoneNot
    <3>5. CASE step = "deliver"
      <4>1. delivered'[p] = 1 BY <2>1, <2>2, <2>4, <3>2, <3>5
      <4>2. order'[p].status = "DELIVERED" /\ order'[p].pay = "PAID"
        BY <2>1, <2>2, <2>4, <3>5 DEF OrderType
      <4>3. row'[i].status = "DELIVERED" /\ \A j \in Rows \ {i} : row'[j] = row[j]
        BY <2>1, <2>2, <3>5 DEF RowType
      <4>4. \A j \in Rows : ~ClaimedBy(j, p)'
        BY <3>1, <4>3 DEF ClaimInv, OneClaimPerOrder, ClaimedBy, Claimed
      <4>5. Closed(p)' BY <4>2, <4>4 DEF Closed, Terminal
      <4>. QED BY <3>3, <4>1, <4>2, <4>5 DEF DoneOf
    <3>. QED BY <3>4, <3>5
  <2>. QED BY <2>3, <2>4
<1>. QED BY <1>2, <1>3

(* An accept claims an order that is open.                                 *)
LEMMA DoneAccept ==
  ASSUME StateInv, ClaimInv, NEW t \in Tasks, AcceptClaim(t),
         NEW p \in Orders \ torn', DoneOf(p)
  PROVE  DoneOf(p)'
<1>. PICK o \in Orders : o = task[t].order BY StepJob DEF AcceptClaim, At
<1>1. delivered' = delivered /\ torn' = torn /\ p \in Intact BY DEF AcceptClaim, Intact
<1>2. order[o].status \in Assignable BY DEF ClaimInv, AcceptClaim
<1>3. CASE p = o
  <2>1. ~Closed(p) BY <1>2, <1>3 DEF Closed, Assignable, Terminal
  <2>2. delivered[p] = 0 /\ \A u \in Tasks : ~Cancelling(u, p) BY <1>1, <2>1, OpenUndelivered
  <2>. QED BY <1>1, <2>2, NoNewCancel, DoneNot DEF Step
<1>4. CASE p # o
  <2>1. order \in [Orders -> OrderType] /\ row \in [Rows -> RowType]
    BY DEF StateInv, TypeOK, OrderType, RowType
  <2>2. order'[p] = order[p] BY <1>4, <2>1 DEF AcceptClaim
  <2>3. RowsKept BY ClaimKeeps
  <2>4. task[t].row \in Rows /\ row[task[t].row].order = o BY StepJob DEF AcceptClaim, At, RiderSteps
  <2>5. \A j \in Rows : row[j].order # o => row'[j] = row[j]
    BY <2>1, <2>4 DEF AcceptClaim
  <2>6. \A j \in Rows : row[j].order = o /\ row[j].status # "NONE" => row'[j].order = o
    BY <2>3 DEF RowsKept
  <2>7. \A j \in Rows : row[j].status = "NONE" => row'[j] = row[j]
    BY <2>1, <2>4 DEF AcceptClaim
  <2>8. \A j \in Rows : ClaimedBy(j, p)' => ClaimedBy(j, p)
    BY <1>4, <2>5, <2>6, <2>7 DEF ClaimedBy
  <2>. QED BY <1>1, <2>2, <2>8, NoNewCancel, DoneStays DEF Step
<1>. QED BY <1>3, <1>4

(* An assignment changes neither status nor payment.                       *)
LEMMA DoneReassign ==
  ASSUME StateInv, NEW t \in Tasks, Reassign(t), NEW p \in Orders \ torn', DoneOf(p)
  PROVE  DoneOf(p)'
<1>1. order \in [Orders -> OrderType] BY DEF StateInv, TypeOK, OrderType
<1>2. order'[p].status = order[p].status /\ order'[p].pay = order[p].pay
  BY <1>1 DEF Reassign, Reassigned, OrderType
<1>3. delivered' = delivered BY DEF Reassign, Reassigned
<1>4. \A i \in Rows : ClaimedBy(i, p)' => ClaimedBy(i, p) BY ReassignCalm DEF Calm
<1>. QED BY <1>2, <1>3, <1>4, NoNewCancel, DoneStays DEF Step

(* A status that was read as it stands leads on only from an open order.   *)
LEMMA DoneStatus ==
  ASSUME StateInv, NEW t \in Tasks, UpdateStatus(t), NEW p \in Orders \ torn', DoneOf(p)
  PROVE  DoneOf(p)'
<1>. PICK o \in Orders : o = task[t].order BY StepJob DEF UpdateStatus, WriteStatus, At
<1>1. delivered' = delivered /\ torn' = IF order[o].status = task[t].from THEN torn ELSE torn \cup {o}
  BY DEF UpdateStatus, WriteStatus
<1>2. task[t].from \in Statuses /\ task[t].to \in AllowedTransitions[task[t].from]
  BY StepJob DEF UpdateStatus, WriteStatus, At, JobOK
<1>3. CASE p = o
  <2>1. order[p].status = task[t].from /\ p \in Intact BY <1>1, <1>3 DEF Intact
  <2>2. ~Closed(p) BY <1>2, <2>1, Transitions DEF Closed
  <2>3. delivered[p] = 0 /\ \A u \in Tasks : ~Cancelling(u, p) BY <2>1, <2>2, OpenUndelivered
  <2>. QED BY <1>1, <2>3, NoNewCancel, DoneNot DEF Step
<1>4. CASE p # o
  <2>1. order \in [Orders -> OrderType] BY DEF StateInv, TypeOK, OrderType
  <2>2. order'[p] = order[p] BY <1>4, <2>1 DEF UpdateStatus, WriteStatus
  <2>3. \A i \in Rows : ClaimedBy(i, p)' => ClaimedBy(i, p) BY StatusCalm DEF Calm
  <2>. QED BY <1>1, <2>2, <2>3, NoNewCancel, DoneStays DEF Step
<1>. QED BY <1>3, <1>4

(* A cancellation closes the order; delivered or not, it has no claims     *)
(* if it had none.                                                         *)
LEMMA DoneCancel ==
  ASSUME StateInv, NEW t \in Tasks, CancelWrite(t), NEW p \in Orders \ torn', DoneOf(p)
  PROVE  DoneOf(p)'
<1>. PICK o \in Orders : o = task[t].order BY StepJob DEF CancelWrite, At
<1>1. delivered' = delivered /\ row' = row BY DEF CancelWrite
<1>2. order \in [Orders -> OrderType] BY DEF StateInv, TypeOK, OrderType
<1>3. CASE p = o
  <2>1. order'[p].status = "CANCELLED" BY <1>2, <1>3 DEF CancelWrite, OrderType
  <2>2. Closed(p) => Closed(p)' BY <1>1, <2>1 DEF Closed, ClaimedBy, Terminal
  <2>3. \A u \in Tasks : Cancelling(u, p)' => Cancelling(u, p) BY NoNewCancel DEF Step
  <2>. QED BY <1>1, <2>1, <2>2, <2>3 DEF DoneOf
<1>4. CASE p # o
  <2>1. order'[p] = order[p] BY <1>2, <1>4 DEF CancelWrite
  <2>2. \A i \in Rows : ClaimedBy(i, p)' => ClaimedBy(i, p) BY <1>1 DEF ClaimedBy
  <2>. QED BY <1>1, <2>1, <2>2, NoNewCancel, DoneStays DEF Step
<1>. QED BY <1>3, <1>4

(* What was delivered and paid stays paid, unless its order is torn.       *)
LEMMA DonePayments ==
  ASSUME StateInv, DoneInv, NEW o \in Orders, Payments(o)
  PROVE  DoneInv'
<1>1. /\ UNCHANGED <<row, delivered, task>> /\ Intact' \subseteq Intact
      /\ \A p \in Orders : order'[p].status = order[p].status
  BY PaymentsKeep DEF Intact
<1>2. \A p \in Orders : Closed(p)' <=> Closed(p) BY <1>1 DEF Closed, ClaimedBy
<1>3. \A p \in Intact' : delivered[p] > 0 /\ order[p].pay = "PAID" => order'[p].pay = "PAID"
  BY PaymentsKeep DEF Intact
<1>4. (\A p \in Intact : delivered[p] > 0 => Closed(p))' BY <1>1, <1>2 DEF DoneInv, Intact
<1>5. (\A p \in Intact : delivered[p] > 0 /\ order[p].status = "DELIVERED"
                           => order[p].pay = "PAID")'
  BY <1>1, <1>3 DEF DoneInv, Intact
<1>6. (\A t \in Tasks : At(t, "cancel") /\ task[t].from = "DELIVERED" /\ task[t].order \in Intact
         => Closed(task[t].order) /\ delivered[task[t].order] = 0)'
  BY <1>1, <1>2 DEF DoneInv, At, Intact
<1>7. DeliveredOnce' BY <1>1 DEF DoneInv, DeliveredOnce
<1>. QED BY <1>4, <1>5, <1>6, <1>7 DEF DoneInv

(* DoneInv is inductive.                                                   *)
LEMMA DoneInductive == StateInv /\ ClaimInv /\ DoneInv /\ [Next]_vars => DoneInv'
<1>. SUFFICES ASSUME StateInv, ClaimInv, DoneInv, [Next]_vars PROVE DoneInv' OBVIOUS
<1>1. CASE UNCHANGED vars
  BY <1>1 DEF vars, DoneInv, DeliveredOnce, Closed, ClaimedBy, Intact, At
<1>2. ASSUME NEW t \in Tasks, Handler(t) PROVE DoneInv' BY <1>2, DoneHandler
<1>3. ASSUME NEW t \in Tasks, Step(t) \/ Rollback(t) PROVE DoneInv'
  <2>1. torn \subseteq torn'
    BY <1>3 DEF Step, Rollback, OfferToPool, AcceptLock, AcceptClaim, Reject, GiveUp, PickUp,
                Move, Collect, Deliver, Reassign, Reassigned, UpdateStatus, WriteStatus, CancelWrite
  <2>2. ASSUME NEW o \in Orders \ torn' PROVE DoneOf(o)'
    <3>1. DoneOf(o) BY <2>1, DoneByOrder DEF Intact
    <3>2. CASE OfferToPool(t) \/ Reject(t) \/ Collect(t) \/ Rollback(t)
      <4>1. order' = order /\ delivered' = delivered
        BY <3>2 DEF OfferToPool, Reject, Collect, Rollback
      <4>2. Calm BY <3>2, OfferCalm, RejectCalm, StillCalm DEF Collect, Rollback
      <4>. QED BY <1>3, <3>1, <4>1, <4>2, DoneQuiet
    <3>3. CASE AcceptLock(t)
      <4>1. order' = order /\ delivered' = delivered /\ row' = row /\ torn' = torn
        BY <3>3 DEF AcceptLock
      <4>. QED BY <1>3, <3>1, <4>1, DoneQuiet, StillCalm
    <3>4. CASE AcceptClaim(t) BY <3>1, <3>4, DoneAccept
    <3>5. CASE GiveUp(t) \/ PickUp(t) \/ Deliver(t) BY <3>1, <3>5, DoneMove
    <3>6. CASE Reassign(t) BY <3>1, <3>6, DoneReassign
    <3>7. CASE UpdateStatus(t) BY <3>1, <3>7, DoneStatus
    <3>8. CASE CancelWrite(t) BY <3>1, <3>8, DoneCancel
    <3>. QED BY <1>3, <3>2, <3>3, <3>4, <3>5, <3>6, <3>7, <3>8 DEF Step
  <2>. QED BY <2>2 DEF DoneInv, DoneOf, DeliveredOnce, Cancelling, Intact
<1>4. ASSUME NEW o \in Orders, Payments(o) PROVE DoneInv' BY <1>4, DonePayments
<1>. QED BY <1>1, <1>2, <1>3, <1>4 DEF Next

(* It holds when the system starts.                                        *)
LEMMA DoneInit == Init => DoneInv
  BY DEF Init, DoneInv, DeliveredOnce, At, Idle, Intact

(* A delivered order is not delivered, cancelled or moved on again.        *)
LEMMA SticksStep ==
  ASSUME StateInv, ClaimInv, DoneInv, NEW t \in Tasks, Handler(t) \/ Step(t) \/ Rollback(t),
         NEW o \in Orders \ torn', delivered[o] > 0, order[o].status = "DELIVERED"
  PROVE  order'[o].status = "DELIVERED"
<1>0. torn \subseteq torn'
  BY Begins DEF Step, Rollback, OfferToPool, AcceptLock, AcceptClaim, Reject, GiveUp, PickUp,
                Move, Collect, Deliver, Reassign, Reassigned, UpdateStatus, WriteStatus, CancelWrite
<1>1. o \in Intact /\ Closed(o) /\ order \in [Orders -> OrderType]
  BY <1>0 DEF DoneInv, Intact, StateInv, TypeOK, OrderType
<1>2. CASE \/ Handler(t) \/ OfferToPool(t) \/ AcceptLock(t) \/ Reject(t) \/ Collect(t) \/ Rollback(t)
  BY <1>2, Begins DEF OfferToPool, AcceptLock, Reject, Collect, Rollback
<1>3. CASE AcceptClaim(t) \/ Reassign(t)
  BY <1>1, <1>3 DEF AcceptClaim, Reassign, Reassigned, OrderType
<1>4. CASE GiveUp(t) \/ PickUp(t) \/ Deliver(t)
  <2>1. PICK step \in RiderSteps, statuses \in SUBSET Claimed,
             rowStatus \in Claimed \cup Terminal, orderStatus \in Statuses :
          Move(t, step, statuses, rowStatus, orderStatus)
    BY <1>4 DEF GiveUp, PickUp, Deliver, RiderSteps, Claimed, Terminal, Statuses
  <2>2. PICK p \in Orders, i \in Rows : p = task[t].order /\ i = task[t].row /\ row[i].order = p
    BY <2>1, StepJob DEF Move, At, RiderSteps
  <2>3. CASE p = o
    <3>1. row[i].status \notin statuses BY <1>1, <2>2, <2>3 DEF Closed, ClaimedBy
    <3>. QED BY <2>1, <2>2, <3>1 DEF Move
  <2>4. CASE p # o BY <1>1, <2>1, <2>2, <2>4 DEF Move
  <2>. QED BY <2>3, <2>4
<1>5. CASE UpdateStatus(t)
  <2>1. PICK p \in Orders : p = task[t].order
    BY <1>5, StepJob DEF UpdateStatus, WriteStatus, At
  <2>2. task[t].from \in Statuses /\ task[t].to \in AllowedTransitions[task[t].from]
    BY <1>5, StepJob DEF UpdateStatus, WriteStatus, At, JobOK
  <2>3. p # o BY <1>5, <2>1, <2>2, Transitions DEF UpdateStatus, WriteStatus, Terminal
  <2>. QED BY <1>1, <1>5, <2>1, <2>3 DEF UpdateStatus, WriteStatus
<1>6. CASE CancelWrite(t)
  <2>1. PICK p \in Orders : p = task[t].order BY <1>6, StepJob DEF CancelWrite, At
  <2>2. p # o
    <3>. SUFFICES ASSUME p = o PROVE FALSE OBVIOUS
    <3>1. task[t].from = "DELIVERED" BY <1>6, <2>1 DEF CancelWrite
    <3>2. delivered[o] = 0 BY <1>1, <1>6, <2>1, <3>1 DEF DoneInv, CancelWrite
    <3>. QED BY <3>2
  <2>. QED BY <1>1, <1>6, <2>1, <2>2 DEF CancelWrite
<1>. QED BY <1>2, <1>3, <1>4, <1>5, <1>6 DEF Step

(* A delivery counts and is paid once, however often it is confirmed.      *)
LEMMA DeliveredOnceHolds == Spec => []DeliveredOnce
<1>1. DoneInv => DeliveredOnce BY DEF DoneInv
<1>. QED BY <1>1, StateInit, StateInductive, ClaimInit, ClaimInductive, DoneInit, DoneInductive,
            PTL DEF Spec

(* What a rider delivered stays delivered, whatever request comes late.    *)
THEOREM DeliveredSticksHolds == Spec => DeliveredSticks
<1>1. StateInv /\ ClaimInv /\ DoneInv /\ [Next]_vars =>
        [\A o \in Orders \ torn' :
           delivered[o] > 0 /\ order[o].status = "DELIVERED" => order'[o].status = "DELIVERED"]_vars
  BY SticksStep, PaymentsKeep DEF Next, vars
<1>. QED BY <1>1, StateInit, StateInductive, ClaimInit, ClaimInductive, DoneInit, DoneInductive,
            PTL DEF Spec, DeliveredSticks

-----------------------------------------------------------------------------
(* Cash.                                                                   *)

(* How a step may change what cash depends on: an order becomes paid or    *)
(* delivered only when a request that asked for its collection says so.    *)
CashStep ==
  /\ collected \subseteq collected'
  /\ \A o \in Orders :
       /\ order'[o].cod = order[o].cod /\ order'[o].due = order[o].due
       /\ order[o].settled => order'[o].settled
       /\ \/ /\ delivered'[o] = delivered[o]
             /\ order'[o].pay = "PAID" => order[o].pay = "PAID" \/ order'[o].settled
          \/ \E t \in Tasks : At(t, "deliver") /\ task[t].order = o
  /\ \A t \in Tasks : At(t, "deliver")' =>
       \/ At(t, "deliver") /\ task'[t].order = task[t].order
       \/ /\ task'[t].order \in Orders
          /\ order[task'[t].order].cod /\ Due(task'[t].order) => task'[t].order \in collected

(* Such a step asks for the cash.                                          *)
LEMMA CashKeeps ==
  ASSUME StateInv, CashInv, CashStep
  PROVE  CashInv'
<1>0. \A o \in Orders : Owes(o)' => Owes(o) BY DEF CashStep, Owes
<1>1. CollectedFirst' BY <1>0 DEF CashStep, CashInv, CollectedFirst, Owes
<1>2. (\A o \in Orders : Owes(o) /\ order[o].pay = "PAID" => o \in collected)'
  BY <1>0 DEF CashStep, CashInv, Owes
<1>3. \A t \in Tasks : At(t, "deliver") => task[t].order \in Orders
  BY DEF StateInv, JobOK, At
<1>4. (\A t \in Tasks : At(t, "deliver") /\ Owes(task[t].order) => task[t].order \in collected)'
  <2>. SUFFICES ASSUME NEW t \in Tasks, At(t, "deliver")', Owes(task[t].order)'
                PROVE  task'[t].order \in collected'
    OBVIOUS
  <2>1. CASE At(t, "deliver") /\ task'[t].order = task[t].order
    BY <1>0, <1>3, <2>1 DEF CashStep, CashInv, Owes
  <2>2. CASE /\ task'[t].order \in Orders
             /\ order[task'[t].order].cod /\ Due(task'[t].order) => task'[t].order \in collected
    <3>. PICK o \in Orders : o = task'[t].order BY <2>2
    <3>1. Owes(o)' BY DEF Owes
    <3>2. Owes(o) BY <1>0, <3>1
    <3>3. order[o].pay = "PAID" => o \in collected BY <2>2, <3>2 DEF CashInv
    <3>. QED BY <2>2, <3>2, <3>3 DEF CashStep, Owes, Due
  <2>. QED BY <2>1, <2>2 DEF CashStep
<1>. QED BY <1>1, <1>2, <1>4 DEF CashInv

(* A request to deliver begins only with the cash collected.               *)
LEMMA CashHandler ==
  ASSUME StateInv, NEW t \in Tasks, Handler(t)
  PROVE  CashStep
<1>. PICK job : task' = [task EXCEPT ![t] = job] /\ Knows(job) BY Begins
<1>1. UNCHANGED <<order, row, collected, delivered, torn>> BY Begins
<1>2. task'[t] = job /\ \A u \in Tasks : u # t => task'[u] = task[u] BY OneMoves DEF Knows
<1>3. job.at = "deliver" => /\ job.order \in Orders
                            /\ order[job.order].cod /\ Due(job.order) => job.order \in collected
  BY DEF Knows, JobOK
<1>. QED BY <1>1, <1>2, <1>3 DEF CashStep, At

(* No step under way turns into a delivery.                                *)
LEMMA NoNewDelivery ==
  ASSUME StateInv, NEW t \in Tasks, Step(t) \/ Rollback(t)
  PROVE  \A u \in Tasks : At(u, "deliver")' => At(u, "deliver") /\ task'[u].order = task[u].order
<1>1. CASE Done(t)
  <2>1. task'[t] = Idle /\ \A u \in Tasks : u # t => task'[u] = task[u] BY <1>1, DoneTask
  <2>. QED BY <2>1 DEF At, Idle
<1>2. CASE ~Done(t)
  <2>1. task' = [task EXCEPT ![t].at = "claim"]
    BY <1>2 DEF Step, Rollback, OfferToPool, AcceptLock, AcceptClaim, Reject, GiveUp, PickUp,
                Move, Collect, Deliver, Reassign, Reassigned, UpdateStatus, WriteStatus, CancelWrite
  <2>2. task \in [Tasks -> TaskType] BY DEF StateInv, TypeOK
  <2>3. task'[t].at = "claim" /\ \A u \in Tasks : u # t => task'[u] = task[u]
    BY <2>1, <2>2 DEF TaskType
  <2>. QED BY <2>3 DEF At
<1>. QED BY <1>1, <1>2

(* The steps of requests under way.                                        *)
LEMMA CashSteps ==
  ASSUME StateInv, NEW t \in Tasks, Step(t) \/ Rollback(t)
  PROVE  CashStep
<1>. order \in [Orders -> OrderType] /\ delivered \in [Orders -> Nat]
  BY DEF StateInv, TypeOK, OrderType
<1>1. collected \subseteq collected'
  BY DEF Step, Rollback, OfferToPool, AcceptLock, AcceptClaim, Reject, GiveUp, PickUp,
         Move, Collect, Deliver, Reassign, Reassigned, UpdateStatus, WriteStatus, CancelWrite
<1>2. ASSUME NEW o \in Orders
      PROVE  /\ order'[o].cod = order[o].cod /\ order'[o].due = order[o].due
             /\ order[o].settled => order'[o].settled
             /\ \/ delivered'[o] = delivered[o] /\ (order'[o].pay = "PAID" => order[o].pay = "PAID")
                \/ \E u \in Tasks : At(u, "deliver") /\ task[u].order = o
  <2>1. CASE OfferToPool(t) \/ AcceptLock(t) \/ Reject(t) \/ Collect(t) \/ Rollback(t)
    BY <2>1 DEF OfferToPool, AcceptLock, Reject, Collect, Rollback
  <2>2. CASE AcceptClaim(t) \/ Reassign(t) \/ UpdateStatus(t) \/ CancelWrite(t)
    BY <2>2 DEF AcceptClaim, Reassign, Reassigned, UpdateStatus, WriteStatus, CancelWrite, OrderType
  <2>3. CASE GiveUp(t) \/ PickUp(t)
    <3>1. PICK step \in {"giveUp", "pickUp"}, statuses \in SUBSET Claimed,
               rowStatus \in Claimed \cup Terminal, orderStatus \in Statuses :
            Move(t, step, statuses, rowStatus, orderStatus)
      BY <2>3 DEF GiveUp, PickUp, Claimed, Terminal, Statuses
    <3>. QED BY <3>1 DEF Move, OrderType
  <2>4. CASE Deliver(t)
    <3>1. CASE task[t].order = o
      <4>1. At(t, "deliver") BY <2>4 DEF Deliver, Move
      <4>2. order' = order \/ order' = [order EXCEPT ![o].status = "DELIVERED", ![o].pay = "PAID"]
        BY <2>4, <3>1 DEF Deliver, Move
      <4>3. /\ order'[o].cod = order[o].cod /\ order'[o].due = order[o].due
            /\ order'[o].settled = order[o].settled
        BY <4>2 DEF OrderType
      <4>. QED BY <3>1, <4>1, <4>3
    <3>2. CASE task[t].order # o BY <2>4, <3>2 DEF Deliver, Move, OrderType
    <3>. QED BY <3>1, <3>2
  <2>. QED BY <2>1, <2>2, <2>3, <2>4 DEF Step
<1>. QED BY <1>1, <1>2, NoNewDelivery DEF CashStep

(* Of the other writers only a settlement makes an order paid.             *)
LEMMA CashPayments ==
  ASSUME StateInv, NEW o \in Orders, Payments(o)
  PROVE  CashStep
  BY PaymentsKeep DEF CashStep, At

(* CashInv is inductive.                                                   *)
LEMMA CashInductive == StateInv /\ CashInv /\ [Next]_vars => CashInv'
<1>. SUFFICES ASSUME StateInv, CashInv, [Next]_vars PROVE CashInv' OBVIOUS
<1>1. CASE UNCHANGED vars BY <1>1 DEF vars, CashInv, CollectedFirst, Owes, At
<1>2. CASE Next BY <1>2, CashHandler, CashSteps, CashPayments, CashKeeps DEF Next
<1>. QED BY <1>1, <1>2

(* It holds when the system starts: a cash order is not paid yet.          *)
LEMMA CashInit == Init => CashInv
  BY DEF Init, CashInv, CollectedFirst, Owes, At, Idle

(* No rider completes a cash order before its collection is recorded.      *)
LEMMA CollectedFirstHolds == Spec => []CollectedFirst
<1>1. CashInv => CollectedFirst BY DEF CashInv
<1>. QED BY <1>1, StateInit, StateInductive, CashInit, CashInductive, PTL DEF Spec

(* A delivery counts once, and that of a cash order after its collection.  *)
THEOREM DeliveryCountsOnceHolds == Spec => []DeliveryCountsOnce
<1>1. DeliveredOnce /\ CollectedFirst => DeliveryCountsOnce BY DEF DeliveryCountsOnce
<1>. QED BY <1>1, DeliveredOnceHolds, CollectedFirstHolds, PTL
=============================================================================

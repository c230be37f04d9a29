------------------------------ MODULE Delivery ------------------------------
(***************************************************************************)
(* Offers, riders and orders on their way: the auto-assign worker offers   *)
(* an order to a pool of riders, a rider accepts, rejects, picks up,       *)
(* collects cash, delivers or gives up, the dashboard assigns riders and   *)
(* sets the status, the desk settles and reverses payments, Razorpay may   *)
(* report a failed payment, and the customer may cancel.                   *)
(*                                                                         *)
(* A task serves one HTTP request or one worker job.  What it read without *)
(* a lock when it began is in its record; its transaction is one step, or  *)
(* two where its own reads and writes are not protected by one row lock:   *)
(* accepting (the busy check reads rows of other orders) and assigning     *)
(* (rows inserted after its first statement began are not seen by it).     *)
(*                                                                         *)
(* What a rejection or a new status puts into the job queue is not         *)
(* followed: an auto-assign job may run whenever its checks let it.        *)
(***************************************************************************)
EXTENDS Naturals, Functions

CONSTANTS
  Orders,
  Riders,
  RowCap,   \* bound: rows of delivery_assignments
  Kinds,    \* what orders there are: cash on delivery or not, units due
  Tasks,
  NoRider, NoOrder

ASSUME ConstantsAssumption ==
  /\ RowCap \in Nat
  /\ Kinds \subseteq [cod : BOOLEAN, due : Nat]
  /\ NoRider \notin Riders /\ NoOrder \notin Orders

VARIABLES
  order,      \* the orders, see OrderType
  row,        \* delivery_assignments, numbered in the order of assigned_at
  collected,  \* orders with a row in delivery_collections
  delivered,  \* how often a rider's delivery of the order was counted
  torn,       \* orders one of whose writers overwrote what it did not heed
  task

vars == <<order, row, collected, delivered, torn, task>>

Rows == 1..RowCap
Assignable == {"CONFIRMED", "PACKED"}     \* CONFIRMED stands for PREPARING, too
Claimed == {"ACCEPTED", "IN_TRANSIT"}     \* no statement writes PICKED_UP
Open == {"ASSIGNED"} \cup Claimed
Terminal == {"DELIVERED", "CANCELLED"}

(* at is the next step; from and to the status an operator read and will   *)
(* write, or the customer read; pool the riders a job selected; seen the   *)
(* rows an assignment locked.                                              *)
Idle == [at |-> "idle", order |-> NoOrder, row |-> 0, rider |-> NoRider,
         from |-> "none", to |-> "none", pool |-> {}, seen |-> {}]

Begin(t, job) == task[t] = Idle /\ task' = [task EXCEPT ![t] = job]
At(t, step) == task[t].at = step
Done(t) == task' = [task EXCEPT ![t] = Idle]

RowsOf(o) == {i \in Rows : row[i].order = o}
OpenOf(o) == {i \in RowsOf(o) : row[i].status \in Open}
Free == {i \in Rows : row[i].status = "NONE"}

(* The locks that outlast a step: the orders row of an accept, and the     *)
(* assignments an operator's first statement cancelled.                    *)
Locked(o) == \E t \in Tasks : At(t, "claim") /\ task[t].order = o
RowLocked(i) == \E t \in Tasks : At(t, "reassign") /\ i \in task[t].seen
Unlocked(o) == ~Locked(o) /\ \A i \in RowsOf(o) : ~RowLocked(i)

(* The open row getAssignmentByOrderAndRider returns: the latest one.      *)
Current(o, i) == \A j \in OpenOf(o) : row[j].rider = row[i].rider => j <= i

(* Is there an amount due at the door?                                     *)
Due(o) == order[o].pay # "PAID" /\ order[o].due > 0

(* pay is payment_status, where PENDING stands for all but PAID: no code   *)
(* here tells them apart.  due is total_payable less wallet_amount, and    *)
(* received what the settlements of the desk that stand add up to.         *)
(* settled and dropped are history: the desk ever settled the order, the   *)
(* customer cancelled it.                                                  *)
Statuses == Assignable \cup {"OUT_FOR_DELIVERY"} \cup Terminal
OrderType ==
  [status : Statuses, pay : {"PENDING", "PAID"}, cod : BOOLEAN,
   due : Nat, received : Nat, rider : Riders \cup {NoRider},
   settled : BOOLEAN, dropped : BOOLEAN]

Init ==
  /\ order \in [Orders ->
                 {[status |-> "CONFIRMED", pay |-> pay, cod |-> kind.cod, due |-> kind.due,
                   received |-> 0, rider |-> NoRider, settled |-> FALSE, dropped |-> FALSE] :
                    kind \in Kinds, pay \in {"PENDING", "PAID"}}]
  /\ \A o \in Orders : order[o].cod => order[o].pay = "PENDING"
  /\ row = [i \in Rows |-> [order |-> NoOrder, rider |-> NoRider, status |-> "NONE"]]
  /\ collected = {}
  /\ delivered = [o \in Orders |-> 0]
  /\ torn = {}
  /\ task = [t \in Tasks |-> Idle]

-----------------------------------------------------------------------------
(* handleAutoAssign: unlocked reads choose riders without an open row, the *)
(* transaction checks the order again and offers to those without any row. *)

AutoAssign(t, o, pool) ==
  /\ order[o].status \in Assignable /\ order[o].rider = NoRider
  /\ \A r \in pool : \A i \in Rows : row[i].rider = r => row[i].status \notin Open
  /\ Begin(t, [Idle EXCEPT !.at = "offer", !.order = o, !.pool = pool])
  /\ UNCHANGED <<order, row, collected, delivered, torn>>

(* The first free row numbers, one for each rider who has no row yet.      *)
Offered(o, pool) ==
  LET new == {r \in pool : \A i \in RowsOf(o) : row[i].rider # r} IN
  \E slots \in SUBSET Free :
    /\ \A i \in slots, j \in Free \ slots : i < j
    /\ \E place \in Bijection(slots, new) :
         row' = [i \in Rows |->
                   IF i \in slots
                     THEN [order |-> o, rider |-> place[i], status |-> "ASSIGNED"]
                     ELSE row[i]]

(* Mutant: the order is not checked again under the lock.                  *)
OfferUnchecked(t) ==
  LET o == task[t].order IN
  /\ At(t, "offer") /\ ~Locked(o)
  /\ Offered(o, task[t].pool)
  /\ Done(t)
  /\ UNCHANGED <<order, collected, delivered, torn>>

OfferToPool(t) ==
  LET o == task[t].order
      takes == /\ order[o].status \in Assignable /\ order[o].rider = NoRider
               /\ \A i \in RowsOf(o) : row[i].status \notin Claimed
  IN
  /\ At(t, "offer") /\ ~Locked(o)
  /\ IF takes THEN Offered(o, task[t].pool) ELSE UNCHANGED row
  /\ Done(t)
  /\ UNCHANGED <<order, collected, delivered, torn>>

-----------------------------------------------------------------------------
(* A rider's request reads the rider's open row of the order, then acts.   *)

Request(t, o, i, statuses, step) ==
  /\ Current(o, i) /\ row[i].status \in statuses
  /\ Begin(t, [Idle EXCEPT !.at = step, !.order = o, !.row = i])
  /\ UNCHANGED <<order, row, collected, delivered, torn>>

AcceptOrder(t, o, i) == Request(t, o, i, {"ASSIGNED"}, "lock")
RejectOrder(t, o, i) == Request(t, o, i, {"ASSIGNED"}, "reject")
CancelDelivery(t, o, i) == Request(t, o, i, Claimed, "giveUp")
MarkPickedUp(t, o, i) == Request(t, o, i, {"ACCEPTED"}, "pickUp")
SaveCollection(t, o, i) == Due(o) /\ Request(t, o, i, {"IN_TRANSIT"}, "collect")

MarkDelivered(t, o, i) ==
  /\ order[o].cod /\ Due(o) => o \in collected
  /\ Request(t, o, i, {"IN_TRANSIT"}, "deliver")

(* acceptOrder: lock the order, check it, look for another claim.          *)
Busy(r, o) == \E i \in Rows : row[i].rider = r /\ row[i].order # o /\ row[i].status \in Claimed

AcceptLock(t) ==
  LET o == task[t].order
      r == row[task[t].row].rider
  IN
  /\ At(t, "lock") /\ ~Locked(o)
  /\ IF /\ order[o].status \in Assignable
        /\ order[o].rider \in {NoRider, r}
        /\ ~Busy(r, o)
       THEN task' = [task EXCEPT ![t].at = "claim"]
       ELSE Done(t)
  /\ UNCHANGED <<order, row, collected, delivered, torn>>

(* Then claim the row if it is still offered, and withdraw other offers.   *)
AcceptClaim(t) ==
  LET o == task[t].order
      i == task[t].row
  IN
  /\ At(t, "claim") /\ \A j \in RowsOf(o) : ~RowLocked(j)
  /\ IF row[i].status = "ASSIGNED"
       THEN /\ row' = [j \in Rows |->
                         IF j = i THEN [row[j] EXCEPT !.status = "ACCEPTED"]
                         ELSE IF row[j].order = o /\ row[j].status = "ASSIGNED"
                           THEN [row[j] EXCEPT !.status = "CANCELLED"]
                         ELSE row[j]]
            /\ order' = [order EXCEPT ![o].rider = row[i].rider]
       ELSE UNCHANGED <<row, order>>
  /\ Done(t)
  /\ UNCHANGED <<collected, delivered, torn>>

Reject(t) ==
  LET i == task[t].row IN
  /\ At(t, "reject") /\ ~RowLocked(i)
  /\ row' = [row EXCEPT ![i].status = IF @ = "ASSIGNED" THEN "CANCELLED" ELSE @]
  /\ Done(t)
  /\ UNCHANGED <<order, collected, delivered, torn>>

(* The rider's transactions that move row and order together.              *)
Move(t, step, statuses, rowStatus, orderStatus) ==
  LET i == task[t].row
      o == task[t].order
  IN
  /\ At(t, step) /\ ~Locked(o) /\ ~RowLocked(i)
  /\ IF row[i].status \in statuses
       THEN /\ row' = [row EXCEPT ![i].status = rowStatus]
            /\ order' = [order EXCEPT ![o].status = orderStatus,
                           ![o].pay = IF step = "deliver" THEN "PAID" ELSE @]
            /\ delivered' = [delivered EXCEPT ![o] = IF step = "deliver" THEN @ + 1 ELSE @]
       ELSE UNCHANGED <<row, order, delivered>>
  /\ Done(t)
  /\ UNCHANGED <<collected, torn>>

GiveUp(t) == Move(t, "giveUp", Claimed, "CANCELLED", "CANCELLED")
(* Mutant: a late pick-up moves a row that is past it.                     *)
PickUpLate(t) == Move(t, "pickUp", {"ACCEPTED", "DELIVERED"}, "IN_TRANSIT", "OUT_FOR_DELIVERY")
PickUp(t) == Move(t, "pickUp", {"ACCEPTED"}, "IN_TRANSIT", "OUT_FOR_DELIVERY")
(* Mutant: a delivery confirmed twice counts twice.                        *)
DeliverAgain(t) == Move(t, "deliver", {"IN_TRANSIT", "DELIVERED"}, "DELIVERED", "DELIVERED")
Deliver(t) == Move(t, "deliver", {"IN_TRANSIT"}, "DELIVERED", "DELIVERED")

Collect(t) ==
  /\ At(t, "collect")
  /\ collected' = collected \cup {task[t].order}
  /\ Done(t)
  /\ UNCHANGED <<order, row, delivered, torn>>

-----------------------------------------------------------------------------
(* The dashboard.  assignRider tests no status; of two that overlap the    *)
(* second waits for the first, but its statement keeps its snapshot.       *)

AssignRider(t, o, r) ==
  /\ Begin(t, [Idle EXCEPT !.at = "reassign", !.order = o, !.rider = r, !.seen = OpenOf(o)])
  /\ UNCHANGED <<order, row, collected, delivered, torn>>

(* Mutant: a claimed row survives the reassignment.                        *)
Reassigned(t, closes) ==
  LET o == task[t].order
      r == task[t].rider
  IN
  /\ At(t, "reassign") /\ ~Locked(o)
  /\ \E new \in Free :
       /\ \A i \in Free : new <= i
       /\ row' = [i \in Rows |->
                    IF i = new THEN [order |-> o, rider |-> r, status |-> "ASSIGNED"]
                    ELSE IF i \in task[t].seen /\ row[i].status \in closes
                      THEN [row[i] EXCEPT !.status = "CANCELLED"]
                    ELSE row[i]]
  /\ order' = [order EXCEPT ![o].rider = r]
  /\ torn' = IF OpenOf(o) \subseteq task[t].seen THEN torn ELSE torn \cup {o}
  /\ Done(t)
  /\ UNCHANGED <<collected, delivered>>
ReassignOffers(t) == Reassigned(t, {"ASSIGNED"})
Reassign(t) == Reassigned(t, Open)

(* updateStatus and cancelOrder: the status read decides, a later          *)
(* transaction writes.                                                     *)
AllowedTransitions ==
  [CONFIRMED |-> {"PACKED", "CANCELLED"}, PACKED |-> {"OUT_FOR_DELIVERY"},
   OUT_FOR_DELIVERY |-> {"DELIVERED", "CANCELLED"}, DELIVERED |-> {}, CANCELLED |-> {}]

SetStatus(t, o, status) ==
  /\ status \in AllowedTransitions[order[o].status]
  /\ Begin(t, [Idle EXCEPT !.at = "status", !.order = o,
                           !.from = order[o].status, !.to = status])
  /\ UNCHANGED <<order, row, collected, delivered, torn>>

Sync(o, statuses, to) ==
  row' = [i \in Rows |-> IF row[i].order = o /\ row[i].status \in statuses
                           THEN [row[i] EXCEPT !.status = to] ELSE row[i]]

(* Mutants: every status is copied to the rows; only offers are closed.    *)
SyncAlways(o, statuses, to) == Sync(o, statuses, to)
SyncTerminal(o, statuses, to) ==
  IF to \in Terminal THEN Sync(o, statuses, to) ELSE UNCHANGED row

WriteStatus(t, closes) ==
  LET o == task[t].order
      to == task[t].to
  IN
  /\ At(t, "status") /\ Unlocked(o)
  /\ order' = [order EXCEPT ![o].status = to]
  /\ SyncTerminal(o, closes, to)
  /\ torn' = IF order[o].status = task[t].from THEN torn ELSE torn \cup {o}
  /\ Done(t)
  /\ UNCHANGED <<collected, delivered>>
UpdateStatusOffers(t) == WriteStatus(t, {"ASSIGNED"})
UpdateStatus(t) == WriteStatus(t, Open)

(* The customer's cancelOrder; delivery_assignments are left as they are.  *)
CancelOrder(t, o) ==
  /\ order[o].pay # "PAID" /\ order[o].status # "CANCELLED"
  /\ Begin(t, [Idle EXCEPT !.at = "cancel", !.order = o, !.from = order[o].status])
  /\ UNCHANGED <<order, row, collected, delivered, torn>>

CancelWrite(t) ==
  LET o == task[t].order IN
  /\ At(t, "cancel") /\ ~Locked(o)
  /\ order' = [order EXCEPT ![o].status = "CANCELLED", ![o].pay = "PENDING",
                         ![o].dropped = TRUE]
  /\ torn' = IF order[o].status = task[t].from THEN torn ELSE torn \cup {o}
  /\ Done(t)
  /\ UNCHANGED <<row, collected, delivered>>

-----------------------------------------------------------------------------
(* Other writers of payment_status: recordSettlement, reverseSettlement    *)
(* book one unit an entry, and derive the status from the entries alone:   *)
(* a reversal writes over what a delivery wrote.                           *)
RecordSettlement(o) ==
  /\ ~Locked(o) /\ order[o].pay # "PAID" /\ order[o].received < order[o].due
  /\ order' = [order EXCEPT ![o].received = @ + 1, ![o].settled = TRUE,
                  ![o].pay = IF order[o].received + 1 < order[o].due THEN "PENDING" ELSE "PAID"]
  /\ UNCHANGED <<row, collected, delivered, torn, task>>

ReverseSettlement(o) ==
  /\ ~Locked(o) /\ order[o].received > 0
  /\ order' = [order EXCEPT ![o].received = @ - 1, ![o].pay = "PENDING"]
  /\ torn' = IF delivered[o] = 0 THEN torn ELSE torn \cup {o}
  /\ UNCHANGED <<row, collected, delivered, task>>

(* A report of Razorpay's that a payment failed.                           *)
PaymentFailed(o) ==
  /\ ~Locked(o) /\ ~order[o].cod
  /\ order' = [order EXCEPT ![o].pay = "PENDING"]
  /\ torn' = IF delivered[o] = 0 THEN torn ELSE torn \cup {o}
  /\ UNCHANGED <<row, collected, delivered, task>>

-----------------------------------------------------------------------------
(* A database error, a deadlock victim or a crash: nothing was committed.  *)
Rollback(t) ==
  /\ task[t] # Idle
  /\ Done(t)
  /\ UNCHANGED <<order, row, collected, delivered, torn>>

-----------------------------------------------------------------------------
Handler(t) ==
  \E o \in Orders :
    \/ \E i \in OpenOf(o) :
         \/ AcceptOrder(t, o, i) \/ RejectOrder(t, o, i) \/ CancelDelivery(t, o, i)
         \/ MarkPickedUp(t, o, i) \/ SaveCollection(t, o, i) \/ MarkDelivered(t, o, i)
    \/ \E pool \in (SUBSET Riders) \ {{}} : AutoAssign(t, o, pool)
    \/ \E r \in Riders : AssignRider(t, o, r)
    \/ \E status \in {"PACKED", "OUT_FOR_DELIVERY", "DELIVERED", "CANCELLED"} :
         SetStatus(t, o, status)
    \/ CancelOrder(t, o)

Step(t) ==
  \/ OfferToPool(t)
  \/ AcceptLock(t) \/ AcceptClaim(t) \/ Reject(t)
  \/ GiveUp(t) \/ PickUp(t) \/ Collect(t) \/ Deliver(t)
  \/ Reassign(t) \/ UpdateStatus(t) \/ CancelWrite(t)

Payments(o) == RecordSettlement(o) \/ ReverseSettlement(o) \/ PaymentFailed(o)

Next ==
  \/ \E t \in Tasks : Handler(t) \/ Step(t) \/ Rollback(t)
  \/ \E o \in Orders : Payments(o)

Spec == Init /\ [][Next]_vars

-----------------------------------------------------------------------------
TaskType ==
  [at : {"idle", "offer", "lock", "claim", "reject", "giveUp", "pickUp", "collect",
         "deliver", "reassign", "status", "cancel"},
   order : Orders \cup {NoOrder}, row : 0..RowCap, rider : Riders \cup {NoRider},
   from : Statuses \cup {"none"}, to : Statuses \cup {"none"},
   pool : SUBSET Riders, seen : SUBSET Rows]

(* Every column holds what its CHECK constraint admits.                    *)
TypeOK ==
  /\ order \in [Orders -> OrderType]
  /\ row \in [Rows -> [order : Orders \cup {NoOrder}, rider : Riders \cup {NoRider},
                       status : {"NONE"} \cup Open \cup Terminal]]
  /\ collected \subseteq Orders /\ torn \subseteq Orders
  /\ delivered \in [Orders -> Nat]
  /\ task \in [Tasks -> TaskType]

ClaimedBy(i, o) == row[i].order = o /\ row[i].status \in Claimed
Intact == Orders \ torn

OneClaimPerOrder ==
  \A o \in Intact, i, j \in Rows : ClaimedBy(i, o) /\ ClaimedBy(j, o) => i = j

ClaimMatchesRider ==
  \A o \in Intact, i \in Rows : ClaimedBy(i, o) => order[o].rider = row[i].rider

(* First accept wins: however many riders accept, reject and give up while *)
(* the dashboard assigns and the worker offers, an order is claimed once,  *)
(* and by the rider the order names.                                       *)
ClaimIsTheRiders == OneClaimPerOrder /\ ClaimMatchesRider

(* A claimed order is offered to nobody: an accept withdraws the other     *)
(* offers and a job that chose its riders before does not make new ones.   *)
OffersClosed ==
  \A o \in Intact, i \in Rows :
    ClaimedBy(i, o) => \A j \in RowsOf(o) : row[j].status # "ASSIGNED"

(* Rows and order stay in lock-step: no rider is under way with an order   *)
(* that was delivered or cancelled -- unless the customer cancelled it.    *)
InStep ==
  \A o \in Intact, i \in Rows :
    ClaimedBy(i, o) /\ ~order[o].dropped => order[o].status \notin Terminal

DeliveredOnce == \A o \in Intact : delivered[o] <= 1

CollectedFirst ==
  \A o \in Orders :
    /\ order[o].cod /\ order[o].due > 0 /\ ~order[o].settled
    /\ delivered[o] > 0
    => o \in collected

(* A delivery counts once, however often it is confirmed, and that of a    *)
(* cash order with an amount due, which the desk did not settle, not       *)
(* before its collection is recorded.                                      *)
DeliveryCountsOnce == DeliveredOnce /\ CollectedFirst

(* What a rider delivered stays delivered, whatever request comes late.    *)
DeliveredSticks ==
  [][\A o \in Orders \ torn' :
       delivered[o] > 0 /\ order[o].status = "DELIVERED" => order'[o].status = "DELIVERED"]_vars

=============================================================================

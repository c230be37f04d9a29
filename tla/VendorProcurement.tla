------------------------- MODULE VendorProcurement -------------------------
(***************************************************************************)
(* A shop's requirement for goods: drafted, published to the eligible      *)
(* vendors, answered by acceptance of a fixed offer or by quotes, awarded  *)
(* to one vendor, supplied, received and put on sale; or a purchase the    *)
(* shop makes itself, which starts at the supply order.                    *)
(*                                                                         *)
(* The repository methods whose name ends in Tx run on the transaction's   *)
(* connection; every other one runs on the pool and commits at once, also  *)
(* between a BEGIN and its COMMIT.  A task here takes one step for each    *)
(* pooled statement, and one for each commit with all that it publishes.   *)
(* One requirement with one item line, or one in-house purchase.           *)
(***************************************************************************)
EXTENDS Naturals, FiniteSets

CONSTANTS
  Vendors,     \* the candidates of findEligibleVendorCandidates
  Profile,     \* the service profile of each of them
  Wanted,      \* categories of the requirement
  Pincodes,    \* pincodes the shop serves, its own included
  City,        \* the shop's city
  Quotes,      \* rows of procurement_quotes
  Amounts,     \* totals of offers and quotes
  Quantities,  \* accepted quantities of a receipt, in tenths of a unit
  Tasks,       \* requests in progress
  Requests,    \* the kinds of request and of failure that occur
  NoVendor, NoQuote, NoReceipt, NoPlace

RequestKinds == {"draft", "edit", "publish", "close", "accept", "decline", "quote",
                 "award", "inHouse", "supply", "evidence", "receive", "crash"}

ASSUME ConstantsAssumption ==
  /\ Requests \subseteq RequestKinds
  /\ Amounts \subseteq Nat \ {0} /\ Quantities \subseteq Nat
  /\ NoVendor \notin Vendors /\ NoQuote \notin Quotes /\ NoReceipt \notin Nat

VARIABLES
  request,    \* the row of procurement_requests and the total of its items
  late,       \* the response deadline has passed
  recipient,  \* status of each vendor's row of procurement_recipients
  quote,      \* rows of procurement_quotes
  supply,     \* the row of procurement_supply_orders and the total of its items
  evidence,   \* quality evidence was attached
  receipt,    \* accepted quantity of the committed receipt
  lot,        \* quantity_on_hand of the inventory lot of this supply
  sellable,   \* PROCUREMENT_RECEIPT movements of shop_products.stock_quantity
  task

vars == <<request, late, recipient, quote, supply, evidence, receipt, lot, sellable, task>>
tenderVars == <<request, late, recipient, quote>>
goodsVars == <<supply, evidence, receipt, lot, sellable>>

RequestStatus == {"NONE", "DRAFT", "PUBLISHED", "AWARDED", "COMPLETED", "CANCELLED", "EXPIRED"}
RecipientStatus == {"NONE", "NEW", "VIEWED", "DECLINED", "RESPONDED", "AWARDED",
                    "NOT_SELECTED", "EXPIRED"}
QuoteStatus == {"SUBMITTED", "UPDATED", "SELECTED", "NOT_SELECTED", "WITHDRAWN"}
Live == {"SUBMITTED", "UPDATED"}

SupplyTransitions ==
  {<<"AWARDED", "ACCEPTED">>, <<"ACCEPTED", "PROCESSING">>, <<"PROCESSING", "CLEANING">>,
   <<"CLEANING", "PACKED">>, <<"VIDEO_SUBMITTED", "PACKED">>,
   <<"PACKED", "READY_FOR_DISPATCH">>, <<"READY_FOR_DISPATCH", "DISPATCHED">>}
SupplyStatus == {"NONE", "VIDEO_SUBMITTED", "DELIVERED_PENDING_RECEIPT", "RECEIVED",
                 "REJECTED_AT_RECEIPT"} \cup UNION {{e[1], e[2]} : e \in SupplyTransitions}

(***************************************************************************)
(* Tasks: the next step, the vendor, quote and amount the request is about *)
(* or has read, and the status it is about to write.                       *)
(***************************************************************************)
AwardSteps == {"select", "winner", "commit"}              \* between the lock and the commit
ReceiptSteps == {"markReceived", "complete", "commitReceipt"}
Steps == AwardSteps \cup ReceiptSteps \cup
         {"idle", "editHeader", "deleteItems", "insertItems", "publish", "recipients",
          "close", "expireRecipients", "decline", "respond", "insertQuote", "updateQuote",
          "withdraw", "award", "setSupply", "evidence", "insertReceipt", "inbound", "sync"}

Job(at, v, q, n, to) == [at |-> at, vendor |-> v, quote |-> q, amount |-> n, to |-> to]
Idle == Job("idle", NoVendor, NoQuote, 0, "none")

Begin(t, kind, job) ==
  /\ kind \in Requests
  /\ task[t] = Idle
  /\ task' = [task EXCEPT ![t] = job]
At(t, step) == task[t].at = step
GoTo(t, step) == task' = [task EXCEPT ![t].at = step]
Done(t) == task' = [task EXCEPT ![t] = Idle]

(* The requests row is locked FOR UPDATE until the award commits; the      *)
(* unique index makes a second receipt wait for the first one's commit.    *)
RequestLocked == \E t \in Tasks : task[t].at \in AwardSteps
ReceiptHeld == \E t \in Tasks : task[t].at \in ReceiptSteps

Init ==
  /\ request = [status |-> "NONE", mode |-> "RFQ", offer |-> 0, items |-> 0,
                awardee |-> NoVendor, award |-> 0]
  /\ late = FALSE
  /\ recipient = [v \in Vendors |-> "NONE"]
  /\ quote = [q \in Quotes |-> [vendor |-> NoVendor, status |-> "SUBMITTED", total |-> 0]]
  /\ supply = [status |-> "NONE", source |-> "NONE", vendor |-> NoVendor, award |-> 0, items |-> 0]
  /\ evidence = FALSE
  /\ receipt = NoReceipt
  /\ lot = 0
  /\ sellable = 0
  /\ task = [t \in Tasks |-> Idle]

-----------------------------------------------------------------------------
(* The draft.  The offer total and the item lines are written by separate  *)
(* statements, the lines by a DELETE and an INSERT.                        *)

CreateDraft(mode, a) ==
  /\ "draft" \in Requests /\ request.status = "NONE" /\ supply.status = "NONE"
  /\ request' = [request EXCEPT !.status = "DRAFT", !.mode = mode, !.items = a,
                                !.offer = IF mode = "FIXED_OFFER" THEN a ELSE 0]
  /\ UNCHANGED <<late, recipient, quote, goodsVars, task>>

UpdateDraft(t, a) ==
  /\ request.status = "DRAFT" /\ request.mode = "FIXED_OFFER"
  /\ Begin(t, "edit", Job("editHeader", NoVendor, NoQuote, a, "none"))
  /\ UNCHANGED <<tenderVars, goodsVars>>

WriteHeader(t) ==
  /\ At(t, "editHeader") /\ ~RequestLocked
  /\ request' = [request EXCEPT !.offer = task[t].amount]
  /\ GoTo(t, "deleteItems")
  /\ UNCHANGED <<late, recipient, quote, goodsVars>>

DeleteItems(t) ==
  /\ At(t, "deleteItems")
  /\ request' = [request EXCEPT !.items = 0]
  /\ GoTo(t, "insertItems")
  /\ UNCHANGED <<late, recipient, quote, goodsVars>>

InsertItems(t) ==
  /\ At(t, "insertItems")
  /\ request' = [request EXCEPT !.items = task[t].amount]
  /\ Done(t)
  /\ UNCHANGED <<late, recipient, quote, goodsVars>>

(* evaluateVendorEligibility: an empty list of categories or of areas is   *)
(* unknown, not a mismatch; an assignment to the shop overrides the area.  *)
Eligible(v) ==
  LET p == Profile[v] IN
  /\ p.active /\ p.member
  /\ p.categories # {} => p.categories \cap Wanted # {}
  /\ \/ p.assigned
     \/ p.areas \cap Pincodes # {}
     \/ p.areas = {} /\ (p.pincode \in Pincodes \/ p.city = City)
     \/ p.areas = {} /\ p.pincode = NoPlace /\ p.city = NoPlace

PublishRequest(t) ==
  /\ request.status = "DRAFT" /\ request.items > 0 /\ ~late
  /\ \E v \in Vendors : Eligible(v)
  /\ Begin(t, "publish", Job("publish", NoVendor, NoQuote, 0, "none"))
  /\ UNCHANGED <<tenderVars, goodsVars>>

WritePublished(t) ==
  /\ At(t, "publish") /\ ~RequestLocked
  /\ request' = [request EXCEPT !.status = "PUBLISHED"]
  /\ GoTo(t, "recipients")
  /\ UNCHANGED <<late, recipient, quote, goodsVars>>

InsertRecipients(t) ==
  /\ At(t, "recipients")
  /\ recipient' = [v \in Vendors |->
       IF Eligible(v) /\ recipient[v] = "NONE" THEN "NEW" ELSE recipient[v]]
  /\ Done(t)
  /\ UNCHANGED <<request, late, quote, goodsVars>>

DeadlinePasses ==
  /\ request.status # "NONE" /\ ~late
  /\ late' = TRUE
  /\ UNCHANGED <<request, recipient, quote, goodsVars, task>>

-----------------------------------------------------------------------------
(* Closing: the status that was read decides, the write is unconditional.  *)

CloseRequest(t, from, to) ==
  /\ request.status \in from
  /\ Begin(t, "close", Job("close", NoVendor, NoQuote, 0, to))
  /\ UNCHANGED <<tenderVars, goodsVars>>

CancelRequest(t) == CloseRequest(t, {"DRAFT", "PUBLISHED", "AWARDED"}, "CANCELLED")
ExpireRequest(t) == CloseRequest(t, {"PUBLISHED"}, "EXPIRED")

WriteClosed(t) ==
  /\ At(t, "close") /\ ~RequestLocked
  /\ request' = [request EXCEPT !.status = task[t].to]
  /\ GoTo(t, "expireRecipients")
  /\ UNCHANGED <<late, recipient, quote, goodsVars>>

ExpireRecipients(t) ==
  /\ At(t, "expireRecipients")
  /\ recipient' = [v \in Vendors |->
       IF recipient[v] \in {"NEW", "VIEWED"} THEN "EXPIRED" ELSE recipient[v]]
  /\ Done(t)
  /\ UNCHANGED <<request, late, quote, goodsVars>>

-----------------------------------------------------------------------------
(* The vendor's side.                                                      *)

ViewRequest(v) ==
  /\ recipient[v] = "NEW"
  /\ recipient' = [recipient EXCEPT ![v] = "VIEWED"]
  /\ UNCHANGED <<request, late, quote, goodsVars, task>>

AcceptFixedOffer(t, v) ==
  /\ request.mode = "FIXED_OFFER" /\ recipient[v] \in {"NEW", "VIEWED"} /\ ~late
  /\ Begin(t, "accept", Job("award", v, NoQuote, request.offer, "none"))
  /\ UNCHANGED <<tenderVars, goodsVars>>

DeclineRequest(t, v) ==
  /\ recipient[v] \in {"NEW", "VIEWED"}
  /\ Begin(t, "decline", Job("decline", v, NoQuote, 0, "none"))
  /\ UNCHANGED <<tenderVars, goodsVars>>

WriteDeclined(t) ==
  /\ At(t, "decline")
  /\ recipient' = [recipient EXCEPT ![task[t].vendor] = "DECLINED"]
  /\ Done(t)
  /\ UNCHANGED <<request, late, quote, goodsVars>>

LiveQuote(q) == quote[q].vendor # NoVendor /\ quote[q].status \in Live

SubmitQuote(t, v, a) ==
  /\ request.mode = "RFQ" /\ request.status = "PUBLISHED" /\ ~late
  /\ recipient[v] # "NONE"
  /\ \A q \in Quotes : ~(LiveQuote(q) /\ quote[q].vendor = v)
  /\ Begin(t, "quote", Job("respond", v, NoQuote, a, "none"))
  /\ UNCHANGED <<tenderVars, goodsVars>>

MarkResponded(t) ==
  LET v == task[t].vendor IN
  /\ At(t, "respond")
  /\ recipient' = IF recipient[v] \in {"NEW", "VIEWED", "RESPONDED"}
                    THEN [recipient EXCEPT ![v] = "RESPONDED"] ELSE recipient
  /\ GoTo(t, "insertQuote")
  /\ UNCHANGED <<request, late, quote, goodsVars>>

InsertQuote(t, q) ==
  /\ At(t, "insertQuote") /\ quote[q].vendor = NoVendor
  /\ quote' = [quote EXCEPT ![q] = [vendor |-> task[t].vendor, status |-> "SUBMITTED",
                                    total |-> task[t].amount]]
  /\ Done(t)
  /\ UNCHANGED <<request, late, recipient, goodsVars>>

UpdateQuote(t, q, a) ==
  /\ LiveQuote(q) /\ request.status = "PUBLISHED" /\ ~late
  /\ Begin(t, "quote", Job("updateQuote", NoVendor, q, a, "none"))
  /\ UNCHANGED <<tenderVars, goodsVars>>

WriteQuote(t) ==
  LET q == task[t].quote IN
  /\ At(t, "updateQuote")
  /\ quote' = [quote EXCEPT ![q].total = task[t].amount,
                            ![q].status = IF @ \in Live THEN "UPDATED" ELSE @]
  /\ Done(t)
  /\ UNCHANGED <<request, late, recipient, goodsVars>>

WithdrawQuote(t, q) ==
  /\ LiveQuote(q)
  /\ Begin(t, "quote", Job("withdraw", NoVendor, q, 0, "none"))
  /\ UNCHANGED <<tenderVars, goodsVars>>

WriteWithdrawn(t) ==
  /\ At(t, "withdraw")
  /\ quote' = [quote EXCEPT ![task[t].quote].status = "WITHDRAWN"]
  /\ Done(t)
  /\ UNCHANGED <<request, late, recipient, goodsVars>>

-----------------------------------------------------------------------------
(* The award, of a fixed offer or of a quote: the row lock, the pooled     *)
(* statements, then the commit with the conditional award, the losers and  *)
(* the supply order, which a second order of one request rolls back.       *)

AwardQuote(t, q) ==
  /\ LiveQuote(q) /\ request.status = "PUBLISHED"
  /\ Begin(t, "award", Job("award", quote[q].vendor, q, quote[q].total, "none"))
  /\ UNCHANGED <<tenderVars, goodsVars>>

LockRequest(t) ==
  /\ At(t, "award") /\ ~RequestLocked
  /\ IF request.status = "PUBLISHED"
       THEN GoTo(t, IF task[t].quote = NoQuote THEN "winner" ELSE "select")
       ELSE Done(t)
  /\ UNCHANGED <<tenderVars, goodsVars>>

SelectQuote(t) ==
  LET q == task[t].quote IN
  /\ At(t, "select")
  /\ IF \E r \in Quotes \ {q} : quote[r].vendor # NoVendor /\ quote[r].status = "SELECTED"
       THEN Done(t) /\ UNCHANGED quote
       ELSE GoTo(t, "winner") /\ quote' = [quote EXCEPT ![q].status = "SELECTED"]
  /\ UNCHANGED <<request, late, recipient, goodsVars>>

MarkWinner(t) ==
  /\ At(t, "winner")
  /\ recipient' = [recipient EXCEPT ![task[t].vendor] = "AWARDED"]
  /\ GoTo(t, "commit")
  /\ UNCHANGED <<request, late, quote, goodsVars>>

OthersNotSelected(winner) ==
  [v \in Vendors |-> IF v # winner /\ recipient[v] \in {"NEW", "VIEWED", "RESPONDED"}
                       THEN "NOT_SELECTED" ELSE recipient[v]]
OtherQuotesNotSelected(won) ==
  [q \in Quotes |-> IF won # NoQuote /\ q # won /\ LiveQuote(q)
                      THEN [quote[q] EXCEPT !.status = "NOT_SELECTED"] ELSE quote[q]]

(* Mutant: nothing keeps a request from having a second supply order.      *)
SupplyOrderFreeAlways == TRUE
SupplyOrderFree == supply.status = "NONE"

(* Mutant: a second supply order is left out, the award is written anyway. *)
CommitAwardAnyway(t) ==
  LET j == task[t] IN
  /\ At(t, "commit")
  /\ request' = [request EXCEPT !.status = "AWARDED", !.awardee = j.vendor, !.award = j.amount]
  /\ recipient' = OthersNotSelected(j.vendor)
  /\ quote' = OtherQuotesNotSelected(j.quote)
  /\ supply' = IF SupplyOrderFree
                  THEN [status |-> "AWARDED", source |-> "VENDOR", vendor |-> j.vendor,
                        award |-> j.amount, items |-> request.items]
                  ELSE supply
  /\ Done(t)
  /\ UNCHANGED <<late, evidence, receipt, lot, sellable>>

CommitAward(t) ==
  LET j == task[t] IN
  /\ At(t, "commit")
  /\ IF SupplyOrderFree
       THEN /\ request' = [request EXCEPT !.status = "AWARDED", !.awardee = j.vendor,
                                          !.award = j.amount]
            /\ recipient' = OthersNotSelected(j.vendor)
            /\ quote' = OtherQuotesNotSelected(j.quote)
            /\ supply' = [status |-> "AWARDED", source |-> "VENDOR", vendor |-> j.vendor,
                          award |-> j.amount,
                          items |-> IF j.quote = NoQuote THEN request.items
                                                         ELSE quote[j.quote].total]
       ELSE UNCHANGED <<request, recipient, quote, supply>>
  /\ Done(t)
  /\ UNCHANGED <<late, evidence, receipt, lot, sellable>>

-----------------------------------------------------------------------------
(* The supply order, a vendor's or the shop's own.  Every status change    *)
(* tests the status it read and writes without a condition.                *)

CreateInHouseSupply(a) ==
  /\ "inHouse" \in Requests /\ request.status = "NONE" /\ supply.status = "NONE"
  /\ supply' = [status |-> "ACCEPTED", source |-> "IN_HOUSE", vendor |-> NoVendor,
                award |-> a, items |-> a]
  /\ UNCHANGED <<tenderVars, evidence, receipt, lot, sellable, task>>

SetSupply(t, to) ==
  /\ Begin(t, "supply", Job("setSupply", NoVendor, NoQuote, 0, to))
  /\ UNCHANGED <<tenderVars, goodsVars>>

(* Mutant: packing does not ask for evidence.                              *)
UpdateSupplyStatusUnseen(t, to) ==
  supply.source = "VENDOR" /\ <<supply.status, to>> \in SupplyTransitions /\ SetSupply(t, to)

UpdateSupplyStatus(t, to) ==
  /\ supply.source = "VENDOR" /\ <<supply.status, to>> \in SupplyTransitions
  /\ to = "PACKED" => evidence
  /\ SetSupply(t, to)

MarkDelivered(t) ==
  supply.status = "DISPATCHED" /\ SetSupply(t, "DELIVERED_PENDING_RECEIPT")

MarkInHouseArrived(t) ==
  /\ supply.source = "IN_HOUSE" /\ supply.status = "ACCEPTED"
  /\ SetSupply(t, "DELIVERED_PENDING_RECEIPT")

WriteSupply(t) ==
  /\ At(t, "setSupply")
  /\ supply' = [supply EXCEPT !.status = task[t].to]
  /\ Done(t)
  /\ UNCHANGED <<tenderVars, evidence, receipt, lot, sellable>>

AttachEvidence(t) ==
  /\ supply.source = "VENDOR" /\ supply.status \in {"ACCEPTED", "PROCESSING", "CLEANING"}
  /\ Begin(t, "evidence", Job("evidence", NoVendor, NoQuote, 0,
                              IF supply.status = "CLEANING" THEN "VIDEO_SUBMITTED" ELSE "none"))
  /\ UNCHANGED <<tenderVars, goodsVars>>

AttachInHouseEvidence(t) ==
  /\ supply.source = "IN_HOUSE" /\ supply.status \in {"ACCEPTED", "DELIVERED_PENDING_RECEIPT"}
  /\ Begin(t, "evidence", Job("evidence", NoVendor, NoQuote, 0, "none"))
  /\ UNCHANGED <<tenderVars, goodsVars>>

InsertEvidence(t) ==
  /\ At(t, "evidence")
  /\ evidence' = TRUE
  /\ IF task[t].to = "none" THEN Done(t) ELSE GoTo(t, "setSupply")
  /\ UNCHANGED <<tenderVars, supply, receipt, lot, sellable>>

-----------------------------------------------------------------------------
(* The receipt, and after its commit the best-effort bridge into the lot   *)
(* and into the stock the shop sells from.                                 *)

Receive(t, n) ==
  /\ supply.status = "DELIVERED_PENDING_RECEIPT"
  /\ supply.source = "IN_HOUSE" => evidence
  /\ Begin(t, "receive", Job("insertReceipt", NoVendor, NoQuote, n, "none"))
  /\ UNCHANGED <<tenderVars, goodsVars>>

(* Mutant: no unique index on the receipt of a supply order.               *)
InsertReceiptAgain(t) ==
  /\ At(t, "insertReceipt")
  /\ GoTo(t, "markReceived")
  /\ UNCHANGED <<tenderVars, goodsVars>>

InsertReceipt(t) ==
  /\ At(t, "insertReceipt") /\ ~ReceiptHeld
  /\ IF receipt = NoReceipt THEN GoTo(t, "markReceived") ELSE Done(t)
  /\ UNCHANGED <<tenderVars, goodsVars>>

(* Mutant: a receipt closes the supply order at once.                      *)
MarkReceivedClosed(t) ==
  /\ At(t, "markReceived")
  /\ supply' = [supply EXCEPT !.status = "CLOSED"]
  /\ GoTo(t, "commitReceipt")
  /\ UNCHANGED <<tenderVars, evidence, receipt, lot, sellable>>

MarkReceived(t) ==
  LET kept == task[t].amount > 0 IN
  /\ At(t, "markReceived")
  /\ supply' = [supply EXCEPT !.status = IF kept THEN "RECEIVED" ELSE "REJECTED_AT_RECEIPT"]
  /\ GoTo(t, IF kept /\ supply.source = "VENDOR" THEN "complete" ELSE "commitReceipt")
  /\ UNCHANGED <<tenderVars, evidence, receipt, lot, sellable>>

CompleteRequest(t) ==
  /\ At(t, "complete") /\ ~RequestLocked
  /\ request' = IF request.status = "AWARDED"
                  THEN [request EXCEPT !.status = "COMPLETED"] ELSE request
  /\ GoTo(t, "commitReceipt")
  /\ UNCHANGED <<late, recipient, quote, goodsVars>>

CommitReceipt(t) ==
  /\ At(t, "commitReceipt")
  /\ receipt' = task[t].amount
  /\ IF task[t].amount > 0 THEN GoTo(t, "inbound") ELSE Done(t)
  /\ UNCHANGED <<tenderVars, supply, evidence, lot, sellable>>

RegisterInbound(t) ==
  /\ At(t, "inbound")
  /\ lot' = lot + task[t].amount
  /\ GoTo(t, "sync")
  /\ UNCHANGED <<tenderVars, supply, evidence, receipt, sellable>>

(* stock_quantity is an integer: Math.round of the accepted quantity, and  *)
(* nothing when that is zero.                                              *)
Rounded(n) == (n + 5) \div 10

SyncShopProductStock(t) ==
  /\ At(t, "sync")
  /\ sellable' = sellable + Rounded(task[t].amount)
  /\ Done(t)
  /\ UNCHANGED <<tenderVars, supply, evidence, receipt, lot>>

(* The process dies, or the statement throws: an open transaction is       *)
(* rolled back, what the pool committed stays.  The bridge logs a failure  *)
(* and goes on, which leaves the same state.                               *)
Crash(t) ==
  /\ "crash" \in Requests /\ task[t] # Idle
  /\ Done(t)
  /\ UNCHANGED <<tenderVars, goodsVars>>

-----------------------------------------------------------------------------
Drafting ==
  \/ \E mode \in {"FIXED_OFFER", "RFQ"}, a \in Amounts : CreateDraft(mode, a)
  \/ \E t \in Tasks, a \in Amounts : UpdateDraft(t, a)
  \/ \E t \in Tasks : WriteHeader(t) \/ DeleteItems(t) \/ InsertItems(t)
                      \/ PublishRequest(t) \/ WritePublished(t) \/ InsertRecipients(t)
  \/ DeadlinePasses

Closing ==
  \E t \in Tasks : CancelRequest(t) \/ ExpireRequest(t) \/ WriteClosed(t) \/ ExpireRecipients(t)

Answering ==
  \/ \E v \in Vendors : ViewRequest(v)
  \/ \E t \in Tasks, v \in Vendors : AcceptFixedOffer(t, v) \/ DeclineRequest(t, v)
  \/ \E t \in Tasks, v \in Vendors, a \in Amounts : SubmitQuote(t, v, a)
  \/ \E t \in Tasks, q \in Quotes : InsertQuote(t, q) \/ WithdrawQuote(t, q)
  \/ \E t \in Tasks, q \in Quotes, a \in Amounts : UpdateQuote(t, q, a)
  \/ \E t \in Tasks : WriteDeclined(t) \/ MarkResponded(t) \/ WriteQuote(t) \/ WriteWithdrawn(t)

Awarding ==
  \/ \E t \in Tasks, q \in Quotes : AwardQuote(t, q)
  \/ \E t \in Tasks : LockRequest(t) \/ SelectQuote(t) \/ MarkWinner(t) \/ CommitAward(t)

Supplying ==
  \/ \E a \in Amounts : CreateInHouseSupply(a)
  \/ \E t \in Tasks, to \in SupplyStatus : UpdateSupplyStatus(t, to)
  \/ \E t \in Tasks : MarkDelivered(t) \/ MarkInHouseArrived(t) \/ WriteSupply(t)
                      \/ AttachEvidence(t) \/ AttachInHouseEvidence(t) \/ InsertEvidence(t)

Receiving ==
  \/ \E t \in Tasks, n \in Quantities : Receive(t, n)
  \/ \E t \in Tasks : InsertReceipt(t) \/ MarkReceived(t) \/ CompleteRequest(t)
                      \/ CommitReceipt(t) \/ RegisterInbound(t) \/ SyncShopProductStock(t)

Next ==
  \/ Drafting \/ Closing \/ Answering \/ Awarding \/ Supplying \/ Receiving
  \/ \E t \in Tasks : Crash(t)

Spec == Init /\ [][Next]_vars

-----------------------------------------------------------------------------
JobType ==
  [at : Steps, vendor : Vendors \cup {NoVendor}, quote : Quotes \cup {NoQuote},
   amount : Amounts \cup Quantities \cup {0},
   to : SupplyStatus \cup {"none", "CANCELLED", "EXPIRED"}]

(* Values of the variables.                                                *)
TypeOK ==
  /\ request \in [status : RequestStatus, mode : {"FIXED_OFFER", "RFQ"},
                  offer : Amounts \cup {0}, items : Amounts \cup {0},
                  awardee : Vendors \cup {NoVendor}, award : Amounts \cup {0}]
  /\ late \in BOOLEAN
  /\ recipient \in [Vendors -> RecipientStatus]
  /\ quote \in [Quotes -> [vendor : Vendors \cup {NoVendor}, status : QuoteStatus,
                           total : Amounts \cup {0}]]
  /\ supply \in [status : SupplyStatus, source : {"NONE", "VENDOR", "IN_HOUSE"},
                 vendor : Vendors \cup {NoVendor}, award : Amounts \cup {0},
                 items : Amounts \cup {0}]
  /\ evidence \in BOOLEAN
  /\ receipt \in Quantities \cup {NoReceipt}
  /\ lot \in Nat /\ sellable \in Nat
  /\ task \in [Tasks -> JobType]

(* The supply order, and the award on the requirement, name one vendor and *)
(* one price, through concurrent acceptances, a second publication of an   *)
(* awarded requirement, cancellations and crashes.                         *)
AwardMatchesSupply ==
  supply.source = "VENDOR" =>
    supply.vendor = request.awardee /\ supply.award = request.award

(* A vendor's goods are packed, dispatched and received only with quality  *)
(* evidence, although every status is written without a condition.         *)
PackedWithEvidence ==
  /\ supply.source = "VENDOR"
  /\ supply.status \in {"VIDEO_SUBMITTED", "PACKED", "READY_FOR_DISPATCH", "DISPATCHED",
                        "DELIVERED_PENDING_RECEIPT", "RECEIVED", "REJECTED_AT_RECEIPT"}
  => evidence

(* What vendor procurement promises: won once, received once, stocked once *)
(* with what was accepted, and offered once.                               *)
Promise == INSTANCE Tender WITH
  source <- supply.source, winner <- request.awardee, price <- request.award,
  accepted <- receipt, stocked <- lot, offered <- sellable
TenderKept == Promise!Spec

(* The award cascade is one transaction: outside an award in progress, a   *)
(* quote is SELECTED only when its requirement was awarded.                *)
SelectedMeansAwarded ==
  (\E q \in Quotes : quote[q].vendor # NoVendor /\ quote[q].status = "SELECTED") /\ ~RequestLocked
    => request.awardee # NoVendor
=============================================================================

---------------------- MODULE VendorProcurementProofs ----------------------
(***************************************************************************)
(* Safety of VendorProcurement for any number of vendors, quotes and       *)
(* concurrent requests, and the refinement of Tender.  StateInv says what  *)
(* a request holds at each step; SupplyInv follows the supply order and    *)
(* its evidence; GoodsInv keeps the receipt, the lot and the stock in the  *)
(* hands of one request.  Last, what Tender promises of the rows, and when *)
(* an award is all or nothing (SelectInv).                                 *)
(***************************************************************************)
EXTENDS VendorProcurement, TLAPS

EditSteps == {"editHeader", "deleteItems", "insertItems"}
BridgeSteps == {"inbound", "sync"}

(* What a job holds at each step.                                          *)
JobOK(j) ==
  /\ j \in JobType
  /\ j.at \in EditSteps \cup {"respond", "insertQuote", "updateQuote"} => j.amount \in Amounts
  /\ j.at = "close" => j.to \in {"CANCELLED", "EXPIRED"}
  /\ j.at \in AwardSteps \cup {"award", "decline", "respond", "insertQuote"} => j.vendor \in Vendors
  /\ j.at \in AwardSteps \cup {"award"} => j.amount \in Amounts \cup {0}
  /\ j.at \in {"updateQuote", "withdraw", "select"} => j.quote \in Quotes
  /\ j.at = "setSupply" => j.to \in SupplyStatus \ {"NONE"}
  /\ j.at = "evidence" => j.to \in {"none", "VIDEO_SUBMITTED"}
  /\ j.at \in ReceiptSteps \cup BridgeSteps \cup {"insertReceipt"} => j.amount \in Quantities

JobsOK == task \in [Tasks -> JobType] /\ \A t \in Tasks : JobOK(task[t])

TendersOK ==
  /\ request \in [status : RequestStatus, mode : {"FIXED_OFFER", "RFQ"},
                  offer : Amounts \cup {0}, items : Amounts \cup {0},
                  awardee : Vendors \cup {NoVendor}, award : Amounts \cup {0}]
  /\ late \in BOOLEAN
  /\ recipient \in [Vendors -> RecipientStatus]
  /\ quote \in [Quotes -> [vendor : Vendors \cup {NoVendor}, status : QuoteStatus,
                           total : Amounts \cup {0}]]

GoodsOK ==
  /\ supply \in [status : SupplyStatus, source : {"NONE", "VENDOR", "IN_HOUSE"},
                 vendor : Vendors \cup {NoVendor}, award : Amounts \cup {0},
                 items : Amounts \cup {0}]
  /\ evidence \in BOOLEAN
  /\ receipt \in Quantities \cup {NoReceipt}
  /\ lot \in Nat /\ sellable \in Nat

StateInv == TendersOK /\ GoodsOK /\ JobsOK

(* TypeOK, in its three parts.                                             *)
LEMMA TypeParts == StateInv => TypeOK
  BY DEF StateInv, TendersOK, GoodsOK, JobsOK, TypeOK

-----------------------------------------------------------------------------
(* Jobs.                                                                   *)

(* The idle job is in order.                                               *)
LEMMA IdleOK == JobOK(Idle)
  BY DEF Idle, Job, JobOK, JobType, Steps, EditSteps, AwardSteps, ReceiptSteps, BridgeSteps

(* A task that moves is the only one that moves.                           *)
LEMMA OneMoves ==
  ASSUME JobsOK, NEW t \in Tasks, NEW job, JobOK(job), task' = [task EXCEPT ![t] = job]
  PROVE  /\ JobsOK'
         /\ task'[t] = job
         /\ \A s \in Tasks : s # t => task'[s] = task[s]
  BY DEF JobsOK, JobOK

(* A task that is done is idle.                                            *)
LEMMA DoneTask ==
  ASSUME JobsOK, NEW t \in Tasks, Done(t)
  PROVE  /\ JobsOK'
         /\ task'[t] = Idle
         /\ \A s \in Tasks : s # t => task'[s] = task[s]
  BY OneMoves, IdleOK DEF Done

(* A task that goes on has a job in order if the step suits what it holds. *)
LEMMA GoneTask ==
  ASSUME JobsOK, NEW t \in Tasks, NEW step, GoTo(t, step), JobOK([task[t] EXCEPT !.at = step])
  PROVE  /\ JobsOK'
         /\ task'[t] = [task[t] EXCEPT !.at = step]
         /\ \A s \in Tasks : s # t => task'[s] = task[s]
<1>1. task' = [task EXCEPT ![t] = [task[t] EXCEPT !.at = step]] BY DEF GoTo, JobsOK
<1>. QED BY <1>1, OneMoves

(* Which step follows which.                                               *)
Follows ==
  {<<"editHeader", "deleteItems">>, <<"deleteItems", "insertItems">>, <<"publish", "recipients">>,
   <<"close", "expireRecipients">>, <<"respond", "insertQuote">>, <<"award", "winner">>,
   <<"select", "winner">>, <<"winner", "commit">>, <<"insertReceipt", "markReceived">>,
   <<"markReceived", "complete">>, <<"markReceived", "commitReceipt">>,
   <<"complete", "commitReceipt">>, <<"commitReceipt", "inbound">>, <<"inbound", "sync">>}

(* What a step holds is what the next one needs.                           *)
LEMMA FollowsOK ==
  ASSUME NEW j, JobOK(j), NEW step, <<j.at, step>> \in Follows
  PROVE  JobOK([j EXCEPT !.at = step])
<1>1. j \in JobType BY DEF JobOK
<1>2. step \in Steps BY DEF Follows, Steps, AwardSteps, ReceiptSteps
<1>3. [j EXCEPT !.at = step] \in JobType BY <1>1, <1>2 DEF JobType
<1>. DEFINE k == [j EXCEPT !.at = step]
<1>4. k.at = step /\ k.vendor = j.vendor /\ k.quote = j.quote /\ k.amount = j.amount /\ k.to = j.to
  BY <1>1 DEF JobType
<1>. HIDE DEF k
<1>. QED BY <1>3, <1>4 DEF JobOK, Follows, EditSteps, AwardSteps, ReceiptSteps, BridgeSteps, k

(* The job each request begins with.                                       *)
LEMMA FirstJobs ==
  /\ \A a \in Amounts : JobOK(Job("editHeader", NoVendor, NoQuote, a, "none"))
  /\ JobOK(Job("publish", NoVendor, NoQuote, 0, "none"))
  /\ \A to \in {"CANCELLED", "EXPIRED"} : JobOK(Job("close", NoVendor, NoQuote, 0, to))
  /\ \A v \in Vendors : JobOK(Job("decline", v, NoQuote, 0, "none"))
  /\ \A v \in Vendors, a \in Amounts : JobOK(Job("respond", v, NoQuote, a, "none"))
  /\ \A q \in Quotes, a \in Amounts : JobOK(Job("updateQuote", NoVendor, q, a, "none"))
  /\ \A q \in Quotes : JobOK(Job("withdraw", NoVendor, q, 0, "none"))
  /\ \A v \in Vendors, q \in Quotes \cup {NoQuote}, a \in Amounts \cup {0} :
       JobOK(Job("award", v, q, a, "none"))
  /\ \A to \in SupplyStatus \ {"NONE"} : JobOK(Job("setSupply", NoVendor, NoQuote, 0, to))
  /\ \A to \in {"none", "VIDEO_SUBMITTED"} : JobOK(Job("evidence", NoVendor, NoQuote, 0, to))
  /\ \A n \in Quantities : JobOK(Job("insertReceipt", NoVendor, NoQuote, n, "none"))
<1>. USE DEF Job, JobOK, JobType, Steps, EditSteps, AwardSteps, ReceiptSteps, BridgeSteps
<1>1. "VIDEO_SUBMITTED" \in SupplyStatus BY DEF SupplyStatus
<1>2. \A a \in Amounts : JobOK(Job("editHeader", NoVendor, NoQuote, a, "none")) OBVIOUS
<1>3. JobOK(Job("publish", NoVendor, NoQuote, 0, "none")) OBVIOUS
<1>4. \A to \in {"CANCELLED", "EXPIRED"} : JobOK(Job("close", NoVendor, NoQuote, 0, to)) OBVIOUS
<1>5. \A v \in Vendors : JobOK(Job("decline", v, NoQuote, 0, "none")) OBVIOUS
<1>6. \A v \in Vendors, a \in Amounts : JobOK(Job("respond", v, NoQuote, a, "none")) OBVIOUS
<1>7. \A q \in Quotes, a \in Amounts : JobOK(Job("updateQuote", NoVendor, q, a, "none")) OBVIOUS
<1>8. \A q \in Quotes : JobOK(Job("withdraw", NoVendor, q, 0, "none")) OBVIOUS
<1>9. \A v \in Vendors, q \in Quotes \cup {NoQuote}, a \in Amounts \cup {0} :
        JobOK(Job("award", v, q, a, "none"))
  OBVIOUS
<1>10. \A to \in SupplyStatus \ {"NONE"} : JobOK(Job("setSupply", NoVendor, NoQuote, 0, to)) OBVIOUS
<1>11. \A to \in {"none", "VIDEO_SUBMITTED"} : JobOK(Job("evidence", NoVendor, NoQuote, 0, to))
  BY <1>1
<1>12. \A n \in Quantities : JobOK(Job("insertReceipt", NoVendor, NoQuote, n, "none")) OBVIOUS
<1>. QED BY <1>2, <1>3, <1>4, <1>5, <1>6, <1>7, <1>8, <1>9, <1>10, <1>11, <1>12

(* A task that begins, goes on in order, or ends, keeps the jobs in order. *)
LEMMA BegunJobs ==
  ASSUME JobsOK, NEW t \in Tasks, NEW kind, NEW job, JobOK(job), Begin(t, kind, job)
  PROVE  JobsOK' /\ task'[t] = job /\ task[t] = Idle
         /\ \A s \in Tasks : s # t => task'[s] = task[s]
  BY OneMoves DEF Begin
LEMMA GoneJobs ==
  ASSUME JobsOK, NEW t \in Tasks, NEW step, <<task[t].at, step>> \in Follows, GoTo(t, step)
  PROVE  JobsOK' /\ task'[t] = [task[t] EXCEPT !.at = step]
         /\ \A s \in Tasks : s # t => task'[s] = task[s]
<1>1. JobOK(task[t]) BY DEF JobsOK
<1>2. JobOK([task[t] EXCEPT !.at = step]) BY <1>1, FollowsOK
<1>. QED BY <1>2, GoneTask

-----------------------------------------------------------------------------
(* Every action keeps every column in its type and every job in order.     *)

Kept == TendersOK' /\ GoodsOK' /\ JobsOK'

LEMMA SameTenders == TendersOK /\ UNCHANGED tenderVars => TendersOK'
  BY DEF TendersOK, tenderVars
LEMMA SameGoods == GoodsOK /\ UNCHANGED goodsVars => GoodsOK'
  BY DEF GoodsOK, goodsVars

(* The draft.                                                              *)
LEMMA DraftingKept ==
  ASSUME StateInv, Drafting
  PROVE  Kept
<1>. USE DEF StateInv, Kept
<1>1. ASSUME NEW mode \in {"FIXED_OFFER", "RFQ"}, NEW a \in Amounts, CreateDraft(mode, a) PROVE Kept
  <2>1. TendersOK' BY <1>1 DEF CreateDraft, TendersOK, RequestStatus
  <2>. QED BY <1>1, <2>1, SameGoods DEF CreateDraft, JobsOK
<1>2. ASSUME NEW t \in Tasks, NEW a \in Amounts, UpdateDraft(t, a) PROVE Kept
  BY <1>2, SameTenders, SameGoods, BegunJobs, FirstJobs DEF UpdateDraft
<1>3. ASSUME NEW t \in Tasks, WriteHeader(t) PROVE Kept
  <2>1. JobOK(task[t]) /\ At(t, "editHeader") /\ task[t].amount \in Amounts
    BY <1>3 DEF WriteHeader, JobsOK, JobOK, At, EditSteps
  <2>0. <<task[t].at, "deleteItems">> \in Follows BY <1>3 DEF WriteHeader, At, Follows
  <2>2. JobsOK' BY <1>3, <2>0, <2>1, GoneJobs DEF WriteHeader
  <2>3. TendersOK' BY <1>3, <2>1 DEF WriteHeader, TendersOK
  <2>. QED BY <1>3, <2>2, <2>3, SameGoods DEF WriteHeader
<1>4. ASSUME NEW t \in Tasks, DeleteItems(t) PROVE Kept
  <2>0. <<task[t].at, "insertItems">> \in Follows BY <1>4 DEF DeleteItems, At, Follows
  <2>1. JobsOK' BY <1>4, <2>0, GoneJobs DEF DeleteItems
  <2>2. TendersOK' BY <1>4 DEF DeleteItems, TendersOK
  <2>. QED BY <1>4, <2>1, <2>2, SameGoods DEF DeleteItems
<1>5. ASSUME NEW t \in Tasks, InsertItems(t) PROVE Kept
  <2>1. task[t].amount \in Amounts BY <1>5 DEF InsertItems, JobsOK, JobOK, At, EditSteps
  <2>2. TendersOK' BY <1>5, <2>1 DEF InsertItems, TendersOK
  <2>. QED BY <1>5, <2>2, SameGoods, DoneTask DEF InsertItems
<1>6. ASSUME NEW t \in Tasks, PublishRequest(t) PROVE Kept
  BY <1>6, SameTenders, SameGoods, BegunJobs, FirstJobs DEF PublishRequest
<1>7. ASSUME NEW t \in Tasks, WritePublished(t) PROVE Kept
  <2>0. <<task[t].at, "recipients">> \in Follows BY <1>7 DEF WritePublished, At, Follows
  <2>1. JobsOK' BY <1>7, <2>0, GoneJobs DEF WritePublished
  <2>2. TendersOK' BY <1>7 DEF WritePublished, TendersOK, RequestStatus
  <2>. QED BY <1>7, <2>1, <2>2, SameGoods DEF WritePublished
<1>8. ASSUME NEW t \in Tasks, InsertRecipients(t) PROVE Kept
  <2>1. TendersOK' BY <1>8 DEF InsertRecipients, TendersOK, RecipientStatus
  <2>. QED BY <1>8, <2>1, SameGoods, DoneTask DEF InsertRecipients
<1>9. ASSUME DeadlinePasses PROVE Kept
  BY <1>9, SameGoods DEF DeadlinePasses, TendersOK, JobsOK
<1>. QED BY <1>1, <1>2, <1>3, <1>4, <1>5, <1>6, <1>7, <1>8, <1>9 DEF Drafting

(* Cancellation and expiry.                                                *)
LEMMA ClosingKept ==
  ASSUME StateInv, Closing
  PROVE  Kept
<1>. USE DEF StateInv, Kept
<1>1. ASSUME NEW t \in Tasks, CancelRequest(t) \/ ExpireRequest(t) PROVE Kept
  BY <1>1, SameTenders, SameGoods, BegunJobs, FirstJobs DEF CancelRequest, ExpireRequest, CloseRequest
<1>2. ASSUME NEW t \in Tasks, WriteClosed(t) PROVE Kept
  <2>0. <<task[t].at, "expireRecipients">> \in Follows BY <1>2 DEF WriteClosed, At, Follows
  <2>1. JobsOK' BY <1>2, <2>0, GoneJobs DEF WriteClosed
  <2>2. task[t].to \in {"CANCELLED", "EXPIRED"} BY <1>2 DEF WriteClosed, JobsOK, JobOK, At
  <2>3. TendersOK' BY <1>2, <2>2 DEF WriteClosed, TendersOK, RequestStatus
  <2>. QED BY <1>2, <2>1, <2>3, SameGoods DEF WriteClosed
<1>3. ASSUME NEW t \in Tasks, ExpireRecipients(t) PROVE Kept
  <2>1. TendersOK' BY <1>3 DEF ExpireRecipients, TendersOK, RecipientStatus
  <2>. QED BY <1>3, <2>1, SameGoods, DoneTask DEF ExpireRecipients
<1>. QED BY <1>1, <1>2, <1>3 DEF Closing

(* The vendors' answers.                                                   *)
LEMMA AnsweringKept ==
  ASSUME StateInv, Answering
  PROVE  Kept
<1>. USE DEF StateInv, Kept
<1>1. ASSUME NEW v \in Vendors, ViewRequest(v) PROVE Kept
  <2>1. TendersOK' BY <1>1 DEF ViewRequest, TendersOK, RecipientStatus
  <2>. QED BY <1>1, <2>1, SameGoods DEF ViewRequest, JobsOK
<1>2. ASSUME NEW t \in Tasks, NEW v \in Vendors, AcceptFixedOffer(t, v) PROVE Kept
  <2>1. request.offer \in Amounts \cup {0} BY DEF TendersOK
  <2>2. JobOK(Job("award", v, NoQuote, request.offer, "none")) BY <2>1, FirstJobs
  <2>. QED BY <1>2, <2>2, SameTenders, SameGoods, BegunJobs DEF AcceptFixedOffer
<1>3. ASSUME NEW t \in Tasks, NEW v \in Vendors, DeclineRequest(t, v) PROVE Kept
  BY <1>3, SameTenders, SameGoods, BegunJobs, FirstJobs DEF DeclineRequest
<1>4. ASSUME NEW t \in Tasks, NEW v \in Vendors, NEW a \in Amounts, SubmitQuote(t, v, a) PROVE Kept
  BY <1>4, SameTenders, SameGoods, BegunJobs, FirstJobs DEF SubmitQuote
<1>5. ASSUME NEW t \in Tasks, NEW q \in Quotes, InsertQuote(t, q) PROVE Kept
  <2>1. task[t].vendor \in Vendors /\ task[t].amount \in Amounts
    BY <1>5 DEF InsertQuote, JobsOK, JobOK, At
  <2>2. TendersOK' BY <1>5, <2>1 DEF InsertQuote, TendersOK, QuoteStatus
  <2>. QED BY <1>5, <2>2, SameGoods, DoneTask DEF InsertQuote
<1>6. ASSUME NEW t \in Tasks, NEW q \in Quotes, WithdrawQuote(t, q) PROVE Kept
  BY <1>6, SameTenders, SameGoods, BegunJobs, FirstJobs DEF WithdrawQuote
<1>7. ASSUME NEW t \in Tasks, NEW q \in Quotes, NEW a \in Amounts, UpdateQuote(t, q, a) PROVE Kept
  BY <1>7, SameTenders, SameGoods, BegunJobs, FirstJobs DEF UpdateQuote
<1>8. ASSUME NEW t \in Tasks, WriteDeclined(t) PROVE Kept
  <2>1. TendersOK' BY <1>8 DEF WriteDeclined, TendersOK, RecipientStatus
  <2>. QED BY <1>8, <2>1, SameGoods, DoneTask DEF WriteDeclined
<1>9. ASSUME NEW t \in Tasks, MarkResponded(t) PROVE Kept
  <2>0. <<task[t].at, "insertQuote">> \in Follows BY <1>9 DEF MarkResponded, At, Follows
  <2>1. JobsOK' BY <1>9, <2>0, GoneJobs DEF MarkResponded
  <2>2. TendersOK' BY <1>9 DEF MarkResponded, TendersOK, RecipientStatus
  <2>. QED BY <1>9, <2>1, <2>2, SameGoods DEF MarkResponded
<1>10. ASSUME NEW t \in Tasks, WriteQuote(t) PROVE Kept
  <2>1. task[t].quote \in Quotes /\ task[t].amount \in Amounts
    BY <1>10 DEF WriteQuote, JobsOK, JobOK, At
  <2>. DEFINE q == task[t].quote
              r == [quote[q] EXCEPT !.total = task[t].amount,
                                    !.status = IF @ \in Live THEN "UPDATED" ELSE @]
  <2>2. r \in [vendor : Vendors \cup {NoVendor}, status : QuoteStatus, total : Amounts \cup {0}]
    <3>1. quote[q] \in [vendor : Vendors \cup {NoVendor}, status : QuoteStatus,
                        total : Amounts \cup {0}]
      BY <2>1 DEF TendersOK
    <3>2. "UPDATED" \in QuoteStatus BY DEF QuoteStatus
    <3>. HIDE DEF q
    <3>. QED BY <2>1, <3>1, <3>2
  <2>4. quote' = [quote EXCEPT ![q] = r] BY <1>10, <2>1 DEF WriteQuote, TendersOK
  <2>. HIDE DEF r
  <2>3. TendersOK' BY <1>10, <2>1, <2>2, <2>4 DEF WriteQuote, TendersOK
  <2>. QED BY <1>10, <2>3, SameGoods, DoneTask DEF WriteQuote
<1>11. ASSUME NEW t \in Tasks, WriteWithdrawn(t) PROVE Kept
  <2>1. TendersOK' BY <1>11 DEF WriteWithdrawn, TendersOK, QuoteStatus
  <2>. QED BY <1>11, <2>1, SameGoods, DoneTask DEF WriteWithdrawn
<1>. QED BY <1>1, <1>2, <1>3, <1>4, <1>5, <1>6, <1>7, <1>8, <1>9, <1>10, <1>11 DEF Answering

(* The losers' recipients and quotes keep their types.                     *)
LEMMA LosersType ==
  ASSUME TendersOK, NEW v, NEW q
  PROVE  /\ OthersNotSelected(v) \in [Vendors -> RecipientStatus]
         /\ OtherQuotesNotSelected(q) \in [Quotes -> [vendor : Vendors \cup {NoVendor},
                                                     status : QuoteStatus, total : Amounts \cup {0}]]
<1>1. OthersNotSelected(v) \in [Vendors -> RecipientStatus]
  BY DEF OthersNotSelected, TendersOK, RecipientStatus
<1>2. ASSUME NEW p \in Quotes
      PROVE  [quote[p] EXCEPT !.status = "NOT_SELECTED"]
               \in [vendor : Vendors \cup {NoVendor}, status : QuoteStatus, total : Amounts \cup {0}]
  BY DEF TendersOK, QuoteStatus
<1>3. OtherQuotesNotSelected(q) \in [Quotes -> [vendor : Vendors \cup {NoVendor},
                                               status : QuoteStatus, total : Amounts \cup {0}]]
  BY <1>2 DEF OtherQuotesNotSelected, TendersOK
<1>. QED BY <1>1, <1>3

(* The award.                                                              *)
LEMMA AwardingKept ==
  ASSUME StateInv, Awarding
  PROVE  Kept
<1>. USE DEF StateInv, Kept
<1>1. ASSUME NEW t \in Tasks, NEW q \in Quotes, AwardQuote(t, q) PROVE Kept
  <2>1. quote[q].vendor \in Vendors /\ quote[q].total \in Amounts \cup {0}
    BY <1>1 DEF AwardQuote, LiveQuote, TendersOK
  <2>2. JobOK(Job("award", quote[q].vendor, q, quote[q].total, "none")) BY <2>1, FirstJobs
  <2>. QED BY <1>1, <2>2, SameTenders, SameGoods, BegunJobs DEF AwardQuote
<1>2. ASSUME NEW t \in Tasks, LockRequest(t) PROVE Kept
  <2>1. JobOK(task[t]) /\ At(t, "award") BY <1>2 DEF LockRequest, JobsOK
  <2>2. JobsOK'
    <3>1. CASE Done(t) BY <3>1, DoneTask
    <3>2. CASE GoTo(t, "winner")
      <4>1. <<task[t].at, "winner">> \in Follows BY <2>1 DEF At, Follows
      <4>. QED BY <3>2, <4>1, GoneJobs
    <3>3. CASE GoTo(t, "select") /\ task[t].quote # NoQuote
      <4>1. task[t].quote \in Quotes BY <2>1, <3>3 DEF JobOK, JobType
      <4>2. [task[t] EXCEPT !.at = "select"] \in JobType
        BY <2>1 DEF JobOK, JobType, Steps, AwardSteps
      <4>3. JobOK([task[t] EXCEPT !.at = "select"])
        BY <2>1, <4>1, <4>2 DEF JobOK, JobType, At, AwardSteps, EditSteps, ReceiptSteps, BridgeSteps
      <4>. QED BY <3>3, <4>3, GoneTask
    <3>. QED BY <1>2, <3>1, <3>2, <3>3 DEF LockRequest
  <2>. QED BY <1>2, <2>2, SameTenders, SameGoods DEF LockRequest
<1>3. ASSUME NEW t \in Tasks, SelectQuote(t) PROVE Kept
  <2>0. <<task[t].at, "winner">> \in Follows BY <1>3 DEF SelectQuote, At, Follows
  <2>1. JobsOK' BY <1>3, <2>0, DoneTask, GoneJobs DEF SelectQuote
  <2>2. TendersOK' BY <1>3 DEF SelectQuote, TendersOK, QuoteStatus
  <2>. QED BY <1>3, <2>1, <2>2, SameGoods DEF SelectQuote
<1>4. ASSUME NEW t \in Tasks, MarkWinner(t) PROVE Kept
  <2>0. <<task[t].at, "commit">> \in Follows BY <1>4 DEF MarkWinner, At, Follows
  <2>1. JobsOK' BY <1>4, <2>0, GoneJobs DEF MarkWinner
  <2>2. TendersOK' BY <1>4 DEF MarkWinner, TendersOK, RecipientStatus
  <2>. QED BY <1>4, <2>1, <2>2, SameGoods DEF MarkWinner
<1>5. ASSUME NEW t \in Tasks, CommitAward(t) PROVE Kept
  <2>1. /\ task[t].vendor \in Vendors /\ task[t].amount \in Amounts \cup {0}
        /\ task[t].quote \in Quotes \cup {NoQuote}
    BY <1>5 DEF CommitAward, JobsOK, JobOK, JobType, At, AwardSteps
  <2>2. JobsOK' BY <1>5, DoneTask DEF CommitAward
  <2>3. CASE SupplyOrderFree
    <3>. DEFINE items == IF task[t].quote = NoQuote THEN request.items ELSE quote[task[t].quote].total
    <3>1. items \in Amounts \cup {0} BY <2>1 DEF TendersOK
    <3>2. TendersOK'
      <4>1. recipient' = OthersNotSelected(task[t].vendor) /\ quote' = OtherQuotesNotSelected(task[t].quote)
        BY <1>5, <2>3 DEF CommitAward
      <4>. QED BY <1>5, <2>1, <2>3, <4>1, LosersType DEF CommitAward, TendersOK, RequestStatus
    <3>3. supply' = [status |-> "AWARDED", source |-> "VENDOR", vendor |-> task[t].vendor,
                     award |-> task[t].amount, items |-> items]
      BY <1>5, <2>3 DEF CommitAward
    <3>. HIDE DEF items
    <3>4. GoodsOK'
      <4>1. "AWARDED" \in SupplyStatus BY DEF SupplyStatus, SupplyTransitions
      <4>. QED BY <1>5, <2>1, <3>1, <3>3, <4>1 DEF CommitAward, GoodsOK
    <3>. QED BY <2>2, <3>2, <3>4
  <2>4. CASE ~SupplyOrderFree
    BY <1>5, <2>2, <2>4, SameTenders, SameGoods DEF CommitAward, tenderVars, goodsVars
  <2>. QED BY <2>3, <2>4
<1>. QED BY <1>1, <1>2, <1>3, <1>4, <1>5 DEF Awarding

(* The statuses of a supply order.                                         *)
LEMMA SupplyStatuses ==
  /\ {"AWARDED", "ACCEPTED", "PROCESSING", "CLEANING", "PACKED", "VIDEO_SUBMITTED",
      "READY_FOR_DISPATCH", "DISPATCHED", "DELIVERED_PENDING_RECEIPT", "RECEIVED",
      "REJECTED_AT_RECEIPT"} \subseteq SupplyStatus \ {"NONE"}
  /\ \A e \in SupplyTransitions : e[2] \in SupplyStatus \ {"NONE"} /\ e[1] # "NONE"
<1>1. {"AWARDED", "ACCEPTED", "PROCESSING", "CLEANING", "PACKED",
       "READY_FOR_DISPATCH", "DISPATCHED", "VIDEO_SUBMITTED"}
        \subseteq UNION {{e[1], e[2]} : e \in SupplyTransitions}
  BY DEF SupplyTransitions
<1>2. \A e \in SupplyTransitions : e[2] \in SupplyStatus BY DEF SupplyStatus
<1>3. \A e \in SupplyTransitions : e[1] # "NONE" /\ e[2] # "NONE" BY DEF SupplyTransitions
<1>. QED BY <1>1, <1>2, <1>3 DEF SupplyStatus

(* The supply order.                                                       *)
LEMMA SupplyingKept ==
  ASSUME StateInv, Supplying
  PROVE  Kept
<1>. USE DEF StateInv, Kept
<1>1. ASSUME NEW a \in Amounts, CreateInHouseSupply(a) PROVE Kept
  <2>1. GoodsOK' BY <1>1, SupplyStatuses DEF CreateInHouseSupply, GoodsOK
  <2>. QED BY <1>1, <2>1, SameTenders DEF CreateInHouseSupply, JobsOK
<1>2. ASSUME NEW t \in Tasks, NEW to \in SupplyStatus \ {"NONE"}, SetSupply(t, to) PROVE Kept
  BY <1>2, SameTenders, SameGoods, BegunJobs, FirstJobs DEF SetSupply
<1>3. ASSUME NEW t \in Tasks, NEW to \in SupplyStatus, UpdateSupplyStatus(t, to) PROVE Kept
  <2>1. to # "NONE" BY <1>3, SupplyStatuses DEF UpdateSupplyStatus
  <2>. QED BY <1>2, <1>3, <2>1 DEF UpdateSupplyStatus
<1>4. ASSUME NEW t \in Tasks, MarkDelivered(t) \/ MarkInHouseArrived(t) PROVE Kept
  BY <1>2, <1>4, SupplyStatuses DEF MarkDelivered, MarkInHouseArrived
<1>5. ASSUME NEW t \in Tasks, WriteSupply(t) PROVE Kept
  <2>1. task[t].to \in SupplyStatus BY <1>5 DEF WriteSupply, JobsOK, JobOK, At
  <2>2. GoodsOK' BY <1>5, <2>1 DEF WriteSupply, GoodsOK
  <2>. QED BY <1>5, <2>2, SameTenders, DoneTask DEF WriteSupply
<1>6. ASSUME NEW t \in Tasks, AttachEvidence(t) \/ AttachInHouseEvidence(t) PROVE Kept
  BY <1>6, SameTenders, SameGoods, BegunJobs, FirstJobs DEF AttachEvidence, AttachInHouseEvidence
<1>7. ASSUME NEW t \in Tasks, InsertEvidence(t) PROVE Kept
  <2>1. JobOK(task[t]) /\ At(t, "evidence") BY <1>7 DEF InsertEvidence, JobsOK
  <2>2. JobsOK'
    <3>1. CASE Done(t) BY <3>1, DoneTask
    <3>2. CASE GoTo(t, "setSupply") /\ task[t].to # "none"
      <4>1. task[t].to = "VIDEO_SUBMITTED" BY <2>1, <3>2 DEF JobOK, At
      <4>2. [task[t] EXCEPT !.at = "setSupply"] \in JobType BY <2>1 DEF JobOK, JobType, Steps
      <4>3. JobOK([task[t] EXCEPT !.at = "setSupply"])
        BY <2>1, <4>1, <4>2, SupplyStatuses
        DEF JobOK, JobType, At, AwardSteps, EditSteps, ReceiptSteps, BridgeSteps
      <4>. QED BY <3>2, <4>3, GoneTask
    <3>. QED BY <1>7, <3>1, <3>2 DEF InsertEvidence
  <2>3. GoodsOK' BY <1>7 DEF InsertEvidence, GoodsOK
  <2>. QED BY <1>7, <2>2, <2>3, SameTenders DEF InsertEvidence
<1>. QED BY <1>1, <1>3, <1>4, <1>5, <1>6, <1>7 DEF Supplying

(* Rounding gives a natural number.                                        *)
LEMMA RoundedType == \A n \in Nat : Rounded(n) \in Nat
  BY DEF Rounded

(* The receipt and its bridge.                                             *)
LEMMA ReceivingKept ==
  ASSUME StateInv, Receiving
  PROVE  Kept
<1>. USE DEF StateInv, Kept
<1>1. ASSUME NEW t \in Tasks, NEW n \in Quantities, Receive(t, n) PROVE Kept
  BY <1>1, SameTenders, SameGoods, BegunJobs, FirstJobs DEF Receive
<1>2. ASSUME NEW t \in Tasks, InsertReceipt(t) PROVE Kept
  <2>0. <<task[t].at, "markReceived">> \in Follows BY <1>2 DEF InsertReceipt, At, Follows
  <2>1. JobsOK' BY <1>2, <2>0, DoneTask, GoneJobs DEF InsertReceipt
  <2>. QED BY <1>2, <2>1, SameTenders, SameGoods DEF InsertReceipt
<1>3. ASSUME NEW t \in Tasks, MarkReceived(t) PROVE Kept
  <2>0. <<task[t].at, "complete">> \in Follows /\ <<task[t].at, "commitReceipt">> \in Follows BY <1>3 DEF MarkReceived, At, Follows
  <2>1. JobsOK' BY <1>3, <2>0, GoneJobs DEF MarkReceived
  <2>2. GoodsOK' BY <1>3, SupplyStatuses DEF MarkReceived, GoodsOK
  <2>. QED BY <1>3, <2>1, <2>2, SameTenders DEF MarkReceived
<1>4. ASSUME NEW t \in Tasks, CompleteRequest(t) PROVE Kept
  <2>0. <<task[t].at, "commitReceipt">> \in Follows BY <1>4 DEF CompleteRequest, At, Follows
  <2>1. JobsOK' BY <1>4, <2>0, GoneJobs DEF CompleteRequest
  <2>2. TendersOK' BY <1>4 DEF CompleteRequest, TendersOK, RequestStatus
  <2>. QED BY <1>4, <2>1, <2>2, SameGoods DEF CompleteRequest
<1>5. ASSUME NEW t \in Tasks, CommitReceipt(t) PROVE Kept
  <2>0. <<task[t].at, "inbound">> \in Follows BY <1>5 DEF CommitReceipt, At, Follows
  <2>1. JobsOK' BY <1>5, <2>0, DoneTask, GoneJobs DEF CommitReceipt
  <2>2. task[t].amount \in Quantities BY <1>5 DEF CommitReceipt, JobsOK, JobOK, At, ReceiptSteps
  <2>3. GoodsOK' BY <1>5, <2>2 DEF CommitReceipt, GoodsOK
  <2>. QED BY <1>5, <2>1, <2>3, SameTenders DEF CommitReceipt
<1>6. ASSUME NEW t \in Tasks, RegisterInbound(t) PROVE Kept
  <2>0. <<task[t].at, "sync">> \in Follows BY <1>6 DEF RegisterInbound, At, Follows
  <2>1. JobsOK' BY <1>6, <2>0, GoneJobs DEF RegisterInbound
  <2>2. task[t].amount \in Nat
    BY <1>6, ConstantsAssumption DEF RegisterInbound, JobsOK, JobOK, At, BridgeSteps
  <2>3. GoodsOK' BY <1>6, <2>2 DEF RegisterInbound, GoodsOK
  <2>. QED BY <1>6, <2>1, <2>3, SameTenders DEF RegisterInbound
<1>7. ASSUME NEW t \in Tasks, SyncShopProductStock(t) PROVE Kept
  <2>1. task[t].amount \in Nat
    BY <1>7, ConstantsAssumption DEF SyncShopProductStock, JobsOK, JobOK, At, BridgeSteps
  <2>2. Rounded(task[t].amount) \in Nat BY <2>1, RoundedType
  <2>3. GoodsOK' BY <1>7, <2>2 DEF SyncShopProductStock, GoodsOK
  <2>. QED BY <1>7, <2>3, SameTenders, DoneTask DEF SyncShopProductStock
<1>. QED BY <1>1, <1>2, <1>3, <1>4, <1>5, <1>6, <1>7 DEF Receiving

(* The types and the jobs hold in every state.                             *)
LEMMA StateInvHolds == Spec => []StateInv
<1>1. Init => StateInv
  <2>. SUFFICES ASSUME Init PROVE StateInv OBVIOUS
  <2>1. TendersOK BY DEF Init, TendersOK, RequestStatus, RecipientStatus, QuoteStatus
  <2>2. GoodsOK BY DEF Init, GoodsOK, SupplyStatus
  <2>3. JobsOK BY IdleOK DEF Init, JobsOK, JobOK
  <2>. QED BY <2>1, <2>2, <2>3 DEF StateInv
<1>2. StateInv /\ [Next]_vars => StateInv'
  <2>. SUFFICES ASSUME StateInv, [Next]_vars PROVE Kept BY DEF Kept, StateInv
  <2>1. ASSUME NEW t \in Tasks, Crash(t) PROVE Kept
    BY <2>1, SameTenders, SameGoods, DoneTask DEF Crash, StateInv, Kept
  <2>2. CASE UNCHANGED vars
    BY <2>2, SameTenders, SameGoods DEF vars, tenderVars, goodsVars, StateInv, Kept, JobsOK
  <2>. QED BY <2>1, <2>2, DraftingKept, ClosingKept, AnsweringKept, AwardingKept, SupplyingKept,
              ReceivingKept DEF Next
<1>. QED BY <1>1, <1>2, PTL DEF Spec

(* Every column keeps its type, whatever requests interleave and crash.    *)
THEOREM TypeCorrect == Spec => []TypeOK
  BY StateInvHolds, TypeParts, PTL

-----------------------------------------------------------------------------
(* The supply order, its evidence and its receipt.                         *)

WorkSteps == ReceiptSteps \cup BridgeSteps
SupplySteps == {"setSupply", "evidence", "insertReceipt"} \cup WorkSteps
Packed == {"VIDEO_SUBMITTED", "PACKED", "READY_FOR_DISPATCH", "DISPATCHED",
           "DELIVERED_PENDING_RECEIPT", "RECEIVED", "REJECTED_AT_RECEIPT"}

(* A request that is about to pack, or to receive, has seen the evidence.  *)
SawEvidence(t) ==
  \/ task[t].at = "setSupply" /\ task[t].to \in Packed
  \/ task[t].at \in {"insertReceipt"} \cup ReceiptSteps

SupplyInv ==
  /\ supply.source = "NONE" <=> supply.status = "NONE"
  /\ \A t \in Tasks : task[t].at \in SupplySteps => supply.source # "NONE"
  /\ AwardMatchesSupply
  /\ PackedWithEvidence
  /\ \A t \in Tasks : supply.source = "VENDOR" /\ SawEvidence(t) => evidence

(* One request has the receipt in hand, up to the sync of the stock.       *)
GoodsInv ==
  /\ \A s, t \in Tasks : task[s].at \in WorkSteps /\ task[t].at \in WorkSteps => s = t
  /\ \A t \in Tasks : task[t].at \in ReceiptSteps => receipt = NoReceipt
  /\ \A t \in Tasks : task[t].at \in BridgeSteps => receipt = task[t].amount /\ receipt > 0
  /\ \A t \in Tasks : task[t].at = "inbound" => lot = 0
  /\ \A t \in Tasks : task[t].at = "sync" => lot = receipt /\ sellable = 0
  /\ receipt = NoReceipt => lot = 0
  /\ lot = 0 => sellable = 0

(* Nothing happens to a task that is at work on the supply order.          *)
Aside ==
  \A s \in Tasks :
    task'[s] = task[s] \/ (task[s].at \notin SupplySteps /\ task'[s].at \notin SupplySteps)

(* A task that begins, goes on or ends elsewhere.                          *)
LEMMA BegunAside ==
  ASSUME JobsOK, NEW t \in Tasks, NEW kind, NEW job, job.at \notin SupplySteps, Begin(t, kind, job)
  PROVE  Aside
<1>1. task[t].at = "idle" BY DEF Begin, Idle, Job
<1>2. "idle" \notin SupplySteps BY DEF SupplySteps, WorkSteps, ReceiptSteps, BridgeSteps
<1>3. \A s \in Tasks : task'[s] = IF s = t THEN job ELSE task[s] BY DEF Begin, JobsOK
<1>. QED BY <1>1, <1>2, <1>3 DEF Aside
LEMMA GoneAside ==
  ASSUME JobsOK, NEW t \in Tasks, NEW step, task[t].at \notin SupplySteps, step \notin SupplySteps,
         GoTo(t, step)
  PROVE  Aside
<1>1. \A s \in Tasks : task'[s] = IF s = t THEN [task[t] EXCEPT !.at = step] ELSE task[s]
  BY DEF GoTo, JobsOK
<1>2. [task[t] EXCEPT !.at = step].at = step BY DEF JobsOK, JobType
<1>. QED BY <1>1, <1>2 DEF Aside
LEMMA DoneAside ==
  ASSUME JobsOK, NEW t \in Tasks, task[t].at \notin SupplySteps, Done(t)
  PROVE  Aside
<1>1. \A s \in Tasks : task'[s] = IF s = t THEN Idle ELSE task[s] BY DEF Done, JobsOK
<1>2. Idle.at \notin SupplySteps
  BY DEF Idle, Job, SupplySteps, WorkSteps, ReceiptSteps, BridgeSteps
<1>. QED BY <1>1, <1>2 DEF Aside

(* The steps of the tender are no steps of the supply order.               *)
LEMMA TenderSteps ==
  {"idle", "editHeader", "deleteItems", "insertItems", "publish", "recipients", "close",
   "expireRecipients", "decline", "respond", "insertQuote", "updateQuote", "withdraw", "award",
   "select", "winner", "commit"} \cap SupplySteps = {}
  BY DEF SupplySteps, WorkSteps, ReceiptSteps, BridgeSteps

(* The award on the requirement, which only a commit changes.              *)
SameAward == request'.awardee = request.awardee /\ request'.award = request.award

(* The tender's requests leave the supply order's alone.                   *)
LEMMA TenderAside ==
  ASSUME StateInv, Drafting \/ Closing \/ Answering \/ Awarding
  PROVE  Aside
<1>. USE TenderSteps DEF StateInv
<1>1. CASE Drafting
  <2>1. ASSUME NEW t \in Tasks, NEW a \in Amounts, UpdateDraft(t, a) PROVE Aside
    BY <2>1, BegunAside DEF UpdateDraft, Job
  <2>2. ASSUME NEW t \in Tasks, WriteHeader(t) PROVE Aside
    BY <2>2, GoneAside DEF WriteHeader, At
  <2>3. ASSUME NEW t \in Tasks, DeleteItems(t) PROVE Aside
    BY <2>3, GoneAside DEF DeleteItems, At
  <2>4. ASSUME NEW t \in Tasks, InsertItems(t) PROVE Aside
    BY <2>4, DoneAside DEF InsertItems, At
  <2>5. ASSUME NEW t \in Tasks, PublishRequest(t) PROVE Aside
    BY <2>5, BegunAside DEF PublishRequest, Job
  <2>6. ASSUME NEW t \in Tasks, WritePublished(t) PROVE Aside
    BY <2>6, GoneAside DEF WritePublished, At
  <2>7. ASSUME NEW t \in Tasks, InsertRecipients(t) PROVE Aside
    BY <2>7, DoneAside DEF InsertRecipients, At
  <2>8. CASE task' = task BY <2>8 DEF Aside
  <2>. QED BY <1>1, <2>1, <2>2, <2>3, <2>4, <2>5, <2>6, <2>7, <2>8
       DEF Drafting, CreateDraft, DeadlinePasses
<1>2. CASE Closing
  <2>1. ASSUME NEW t \in Tasks, CancelRequest(t) \/ ExpireRequest(t) PROVE Aside
    BY <2>1, BegunAside DEF CancelRequest, ExpireRequest, CloseRequest, Job
  <2>2. ASSUME NEW t \in Tasks, WriteClosed(t) PROVE Aside
    BY <2>2, GoneAside DEF WriteClosed, At
  <2>3. ASSUME NEW t \in Tasks, ExpireRecipients(t) PROVE Aside
    BY <2>3, DoneAside DEF ExpireRecipients, At
  <2>. QED BY <1>2, <2>1, <2>2, <2>3 DEF Closing
<1>3. CASE Answering
  <2>1. ASSUME NEW t \in Tasks, NEW v \in Vendors, AcceptFixedOffer(t, v) \/ DeclineRequest(t, v)
        PROVE  Aside
    BY <2>1, BegunAside DEF AcceptFixedOffer, DeclineRequest, Job
  <2>2. ASSUME NEW t \in Tasks, NEW v \in Vendors, NEW a \in Amounts, SubmitQuote(t, v, a) PROVE Aside
    BY <2>2, BegunAside DEF SubmitQuote, Job
  <2>3. ASSUME NEW t \in Tasks, NEW q \in Quotes, InsertQuote(t, q) PROVE Aside
    BY <2>3, DoneAside DEF InsertQuote, At
  <2>4. ASSUME NEW t \in Tasks, NEW q \in Quotes, WithdrawQuote(t, q) PROVE Aside
    BY <2>4, BegunAside DEF WithdrawQuote, Job
  <2>5. ASSUME NEW t \in Tasks, NEW q \in Quotes, NEW a \in Amounts, UpdateQuote(t, q, a) PROVE Aside
    BY <2>5, BegunAside DEF UpdateQuote, Job
  <2>6. ASSUME NEW t \in Tasks, WriteDeclined(t) \/ WriteQuote(t) \/ WriteWithdrawn(t) PROVE Aside
    <3>1. Done(t) /\ task[t].at \in {"decline", "updateQuote", "withdraw"}
      BY <2>6 DEF WriteDeclined, WriteQuote, WriteWithdrawn, At
    <3>. QED BY <3>1, DoneAside
  <2>7. ASSUME NEW t \in Tasks, MarkResponded(t) PROVE Aside
    BY <2>7, GoneAside DEF MarkResponded, At
  <2>8. CASE task' = task BY <2>8 DEF Aside
  <2>. QED BY <1>3, <2>1, <2>2, <2>3, <2>4, <2>5, <2>6, <2>7, <2>8 DEF Answering, ViewRequest
<1>4. CASE Awarding
  <2>1. ASSUME NEW t \in Tasks, NEW q \in Quotes, AwardQuote(t, q) PROVE Aside
    BY <2>1, BegunAside DEF AwardQuote, Job
  <2>2. ASSUME NEW t \in Tasks, LockRequest(t) PROVE Aside
    <3>1. task[t].at = "award" /\ \/ Done(t) \/ GoTo(t, "winner") \/ GoTo(t, "select")
      BY <2>2 DEF LockRequest, At
    <3>. QED BY <3>1, GoneAside, DoneAside
  <2>3. ASSUME NEW t \in Tasks, SelectQuote(t) PROVE Aside
    <3>1. task[t].at = "select" /\ (Done(t) \/ GoTo(t, "winner")) BY <2>3 DEF SelectQuote, At
    <3>. QED BY <3>1, GoneAside, DoneAside
  <2>4. ASSUME NEW t \in Tasks, MarkWinner(t) PROVE Aside
    BY <2>4, GoneAside DEF MarkWinner, At
  <2>5. ASSUME NEW t \in Tasks, CommitAward(t) PROVE Aside
    BY <2>5, DoneAside DEF CommitAward, At
  <2>. QED BY <1>4, <2>1, <2>2, <2>3, <2>4, <2>5 DEF Awarding
<1>. QED BY <1>1, <1>2, <1>3, <1>4

(* Apart from an award's commit they leave the award and the goods alone.  *)
LEMMA TenderKeeps ==
  ASSUME StateInv, Drafting \/ Closing \/ Answering \/ Awarding,
         \A t \in Tasks : ~(CommitAward(t) /\ SupplyOrderFree)
  PROVE  SameAward /\ UNCHANGED goodsVars
<1>. USE DEF SameAward, StateInv, TendersOK
<1>1. CASE Drafting
  <2>1. UNCHANGED goodsVars
    BY <1>1 DEF Drafting, CreateDraft, UpdateDraft, WriteHeader, DeleteItems, InsertItems,
       PublishRequest, WritePublished, InsertRecipients, DeadlinePasses
  <2>2. SameAward
    BY <1>1 DEF Drafting, CreateDraft, UpdateDraft, WriteHeader, DeleteItems, InsertItems,
       PublishRequest, WritePublished, InsertRecipients, DeadlinePasses, tenderVars
  <2>. QED BY <2>1, <2>2
<1>2. CASE Closing
  BY <1>2 DEF Closing, CancelRequest, ExpireRequest, CloseRequest, WriteClosed, ExpireRecipients,
     tenderVars
<1>3. CASE Answering
  BY <1>3 DEF Answering, ViewRequest, AcceptFixedOffer, DeclineRequest, SubmitQuote, InsertQuote,
     WithdrawQuote, UpdateQuote, WriteDeclined, MarkResponded, WriteQuote, WriteWithdrawn, tenderVars
<1>4. CASE Awarding
  BY <1>4 DEF Awarding, AwardQuote, LockRequest, SelectQuote, MarkWinner, CommitAward, tenderVars,
     goodsVars
<1>. QED BY <1>1, <1>2, <1>3, <1>4

(* What keeps the award and the goods and the tasks at work on them keeps  *)
(* the two invariants.                                                     *)
LEMMA AsideKeeps ==
  ASSUME SupplyInv, GoodsInv, SameAward, UNCHANGED goodsVars, Aside
  PROVE  SupplyInv' /\ GoodsInv'
<1>. USE DEF goodsVars
<1>1. \A s \in Tasks : task'[s].at \in SupplySteps => task'[s] = task[s] BY DEF Aside
<1>2. {"inbound", "sync"} \subseteq WorkSteps /\ ReceiptSteps \subseteq WorkSteps
      /\ BridgeSteps \subseteq WorkSteps /\ WorkSteps \subseteq SupplySteps
      /\ {"setSupply", "insertReceipt"} \subseteq SupplySteps
  BY DEF WorkSteps, SupplySteps, BridgeSteps
<1>3. GoodsInv'
  <2>1. \A s, t \in Tasks : task'[s].at \in WorkSteps /\ task'[t].at \in WorkSteps => s = t
    BY <1>1, <1>2 DEF GoodsInv
  <2>2. \A t \in Tasks : task'[t].at \in ReceiptSteps => receipt' = NoReceipt
    BY <1>1, <1>2 DEF GoodsInv
  <2>3. \A t \in Tasks : task'[t].at \in BridgeSteps => receipt' = task'[t].amount /\ receipt' > 0
    BY <1>1, <1>2 DEF GoodsInv
  <2>4. \A t \in Tasks : task'[t].at = "inbound" => lot' = 0
    BY <1>1, <1>2 DEF GoodsInv
  <2>5. \A t \in Tasks : task'[t].at = "sync" => lot' = receipt' /\ sellable' = 0
    BY <1>1, <1>2 DEF GoodsInv
  <2>. QED BY <2>1, <2>2, <2>3, <2>4, <2>5 DEF GoodsInv
<1>4. SupplyInv'
  <2>1. \A t \in Tasks : SawEvidence(t)' => SawEvidence(t) BY <1>1, <1>2 DEF SawEvidence
  <2>2. AwardMatchesSupply' BY DEF SupplyInv, AwardMatchesSupply, SameAward
  <2>3. PackedWithEvidence' BY DEF SupplyInv, PackedWithEvidence
  <2>. QED BY <1>1, <2>1, <2>2, <2>3 DEF SupplyInv
<1>. QED BY <1>3, <1>4

(* An award's commit creates the supply order, which nothing works on yet. *)
LEMMA CommitAwardKeeps ==
  ASSUME StateInv, SupplyInv, GoodsInv, NEW t \in Tasks, CommitAward(t), SupplyOrderFree
  PROVE  SupplyInv' /\ GoodsInv'
<1>1. supply.source = "NONE" BY DEF SupplyInv, SupplyOrderFree
<1>2. \A s \in Tasks : task[s].at \notin SupplySteps BY <1>1 DEF SupplyInv
<1>3. \A s \in Tasks : task'[s].at \notin SupplySteps
  BY <1>2, TenderAside DEF Awarding, Aside
<1>4. {"inbound", "sync"} \subseteq WorkSteps /\ ReceiptSteps \subseteq WorkSteps
      /\ BridgeSteps \subseteq WorkSteps /\ WorkSteps \subseteq SupplySteps
      /\ {"setSupply", "insertReceipt"} \subseteq SupplySteps
  BY DEF WorkSteps, SupplySteps, BridgeSteps
<1>5. GoodsInv' BY <1>3, <1>4 DEF GoodsInv, CommitAward
<1>6. /\ supply'.source = "VENDOR" /\ supply'.status = "AWARDED"
      /\ supply'.vendor = task[t].vendor /\ supply'.award = task[t].amount
  BY DEF CommitAward
<1>7. request'.awardee = task[t].vendor /\ request'.award = task[t].amount
  BY DEF CommitAward, StateInv, TendersOK
<1>8. AwardMatchesSupply' BY <1>6, <1>7 DEF AwardMatchesSupply
<1>9. PackedWithEvidence' BY <1>6 DEF PackedWithEvidence
<1>10. \A s \in Tasks : ~SawEvidence(s)' BY <1>3, <1>4 DEF SawEvidence
<1>. QED BY <1>3, <1>5, <1>6, <1>8, <1>9, <1>10 DEF SupplyInv

-----------------------------------------------------------------------------
(* The steps at work on the supply order.                                  *)

(* Only the task t moves.                                                  *)
Only(t) == \A s \in Tasks : s # t => task'[s] = task[s]

LEMMA StepSets ==
  /\ WorkSteps = {"markReceived", "complete", "commitReceipt", "inbound", "sync"}
  /\ SupplySteps = {"setSupply", "evidence", "insertReceipt", "markReceived", "complete",
                    "commitReceipt", "inbound", "sync"}
  BY DEF WorkSteps, SupplySteps, ReceiptSteps, BridgeSteps

(* A task that is not at work on the receipt leaves the goods in order.    *)
LEMMA OutOfWork ==
  ASSUME GoodsInv, NEW t \in Tasks, Only(t), task'[t].at \notin WorkSteps,
         UNCHANGED <<receipt, lot, sellable>>
  PROVE  GoodsInv'
<1>1. \A s \in Tasks : task'[s].at \in WorkSteps => task'[s] = task[s] BY DEF Only
<1>2. {"inbound", "sync"} \subseteq WorkSteps /\ ReceiptSteps \subseteq WorkSteps
      /\ BridgeSteps \subseteq WorkSteps
  BY DEF WorkSteps, BridgeSteps
<1>3. \A s, u \in Tasks : task'[s].at \in WorkSteps /\ task'[u].at \in WorkSteps => s = u
  BY <1>1 DEF GoodsInv
<1>4. \A s \in Tasks : task'[s].at \in ReceiptSteps => receipt' = NoReceipt
  BY <1>1, <1>2 DEF GoodsInv
<1>5. \A s \in Tasks : task'[s].at \in BridgeSteps => receipt' = task'[s].amount /\ receipt' > 0
  BY <1>1, <1>2 DEF GoodsInv
<1>6. \A s \in Tasks : task'[s].at = "inbound" => lot' = 0
  BY <1>1, <1>2 DEF GoodsInv
<1>7. \A s \in Tasks : task'[s].at = "sync" => lot' = receipt' /\ sellable' = 0
  BY <1>1, <1>2 DEF GoodsInv
<1>. QED BY <1>3, <1>4, <1>5, <1>6, <1>7 DEF GoodsInv

(* One that is at work on the receipt is alone there, before and after.    *)
LEMMA AtWork ==
  ASSUME GoodsInv, NEW t \in Tasks, Only(t), task[t].at \in WorkSteps
  PROVE  \A s \in Tasks : s # t => task'[s].at \notin WorkSteps
  BY DEF GoodsInv, Only

(* When the task t is the only one left at work, it has to be in order.    *)
LEMMA AloneAtWork ==
  ASSUME NEW t \in Tasks,
         \A s \in Tasks : s # t => task'[s].at \notin WorkSteps,
         task'[t].at \in ReceiptSteps => receipt' = NoReceipt,
         task'[t].at \in BridgeSteps => receipt' = task'[t].amount /\ receipt' > 0,
         task'[t].at = "inbound" => lot' = 0,
         task'[t].at = "sync" => lot' = receipt' /\ sellable' = 0,
         receipt' = NoReceipt => lot' = 0,
         lot' = 0 => sellable' = 0
  PROVE  GoodsInv'
<1>1. {"inbound", "sync"} \subseteq WorkSteps /\ ReceiptSteps \subseteq WorkSteps
      /\ BridgeSteps \subseteq WorkSteps
  BY DEF WorkSteps, BridgeSteps
<1>2. \A s \in Tasks : task'[s].at \in WorkSteps \cup ReceiptSteps \cup BridgeSteps => s = t
  BY <1>1
<1>3. \A s \in Tasks : task'[s].at \in {"inbound", "sync"} => s = t BY <1>1
<1>. QED BY <1>2, <1>3 DEF GoodsInv

(* A step that leaves the supply order as it is.                           *)
LEMMA SupplySame ==
  ASSUME SupplyInv, NEW t \in Tasks, Only(t), supply' = supply, SameAward, evidence => evidence',
         task'[t].at \in SupplySteps => supply.source # "NONE",
         supply.source = "VENDOR" /\ SawEvidence(t)' => evidence'
  PROVE  SupplyInv'
<1>1. \A s \in Tasks : task'[s].at \in SupplySteps => supply.source # "NONE"
  BY DEF SupplyInv, Only
<1>2. ASSUME NEW s \in Tasks, supply.source = "VENDOR", SawEvidence(s)' PROVE evidence'
  <2>1. CASE s = t BY <1>2, <2>1
  <2>2. CASE s # t BY <1>2, <2>2 DEF SupplyInv, Only, SawEvidence
  <2>. QED BY <2>1, <2>2
<1>3. AwardMatchesSupply' BY DEF SupplyInv, AwardMatchesSupply, SameAward
<1>4. PackedWithEvidence' BY DEF SupplyInv, PackedWithEvidence
<1>. QED BY <1>1, <1>2, <1>3, <1>4 DEF SupplyInv

(* A step that writes the status of the supply order.                      *)
LEMMA SupplyWritten ==
  ASSUME StateInv, SupplyInv, NEW t \in Tasks, Only(t), SameAward, evidence' = evidence,
         NEW x, supply' = [supply EXCEPT !.status = x], x # "NONE", supply.source # "NONE",
         supply.source = "VENDOR" /\ x \in Packed => evidence,
         supply.source = "VENDOR" /\ SawEvidence(t)' => evidence
  PROVE  SupplyInv'
<1>1. /\ supply'.source = supply.source /\ supply'.status = x
      /\ supply'.vendor = supply.vendor /\ supply'.award = supply.award
  BY DEF StateInv, GoodsOK
<1>2. ASSUME NEW s \in Tasks, supply.source = "VENDOR", SawEvidence(s)' PROVE evidence'
  <2>1. CASE s = t BY <1>2, <2>1
  <2>2. CASE s # t BY <1>2, <2>2 DEF SupplyInv, Only, SawEvidence
  <2>. QED BY <2>1, <2>2
<1>3. AwardMatchesSupply' BY <1>1 DEF SupplyInv, AwardMatchesSupply, SameAward
<1>4. PackedWithEvidence' BY <1>1 DEF PackedWithEvidence, Packed
<1>. QED BY <1>1, <1>2, <1>3, <1>4 DEF SupplyInv

(* Supplying.                                                              *)
LEMMA SupplyingKeeps ==
  ASSUME StateInv, SupplyInv, GoodsInv, Supplying
  PROVE  SupplyInv' /\ GoodsInv'
<1>. USE StepSets DEF StateInv, SameAward, tenderVars, goodsVars
<1>1. ASSUME NEW a \in Amounts, CreateInHouseSupply(a) PROVE SupplyInv' /\ GoodsInv'
  <2>1. supply.source = "NONE" BY <1>1 DEF CreateInHouseSupply, SupplyInv
  <2>2. \A s \in Tasks : task[s].at \notin SupplySteps BY <2>1 DEF SupplyInv
  <2>3. task' = task /\ supply'.source = "IN_HOUSE" /\ supply'.status = "ACCEPTED"
    BY <1>1 DEF CreateInHouseSupply
  <2>4. GoodsInv' BY <1>1 DEF CreateInHouseSupply, GoodsInv
  <2>5. AwardMatchesSupply' /\ PackedWithEvidence' BY <2>3 DEF AwardMatchesSupply, PackedWithEvidence
  <2>. QED BY <2>2, <2>3, <2>4, <2>5 DEF SupplyInv
<1>2. ASSUME NEW t \in Tasks, NEW to \in SupplyStatus \ {"NONE"}, SetSupply(t, to),
             supply.source # "NONE", supply.source = "VENDOR" /\ to \in Packed => evidence
      PROVE  SupplyInv' /\ GoodsInv'
  <2>. DEFINE job == Job("setSupply", NoVendor, NoQuote, 0, to)
  <2>1. JobOK(job) /\ job.at = "setSupply" /\ job.to = to BY FirstJobs DEF Job
  <2>2. Begin(t, "supply", job) /\ UNCHANGED <<tenderVars, goodsVars>> BY <1>2 DEF SetSupply
  <2>. HIDE DEF job
  <2>3. task'[t] = job /\ Only(t) BY <2>1, <2>2, BegunJobs DEF Only
  <2>4. GoodsInv' BY <2>1, <2>2, <2>3, OutOfWork
  <2>5. SawEvidence(t)' => to \in Packed BY <2>1, <2>3 DEF SawEvidence, ReceiptSteps
  <2>6. SupplyInv' BY <1>2, <2>1, <2>2, <2>3, <2>5, SupplySame
  <2>. QED BY <2>4, <2>6
<1>3. ASSUME NEW t \in Tasks, NEW to \in SupplyStatus, UpdateSupplyStatus(t, to)
      PROVE  SupplyInv' /\ GoodsInv'
  <2>1. to # "NONE" /\ supply.source = "VENDOR" /\ SetSupply(t, to)
    BY <1>3, SupplyStatuses DEF UpdateSupplyStatus
  <2>2. to \in Packed => evidence
    <3>1. <<supply.status, to>> \in SupplyTransitions /\ (to = "PACKED" => evidence)
      BY <1>3 DEF UpdateSupplyStatus
    <3>2. to \in Packed => to = "PACKED" \/ supply.status \in {"PACKED", "READY_FOR_DISPATCH"}
      BY <3>1 DEF SupplyTransitions, Packed
    <3>. QED BY <2>1, <3>1, <3>2 DEF SupplyInv, PackedWithEvidence
  <2>. QED BY <1>2, <2>1, <2>2
<1>4. ASSUME NEW t \in Tasks, MarkDelivered(t) \/ MarkInHouseArrived(t)
      PROVE  SupplyInv' /\ GoodsInv'
  <2>1. /\ SetSupply(t, "DELIVERED_PENDING_RECEIPT")
        /\ "DELIVERED_PENDING_RECEIPT" \in SupplyStatus \ {"NONE"}
    BY <1>4, SupplyStatuses DEF MarkDelivered, MarkInHouseArrived
  <2>2. supply.source # "NONE" BY <1>4 DEF MarkDelivered, MarkInHouseArrived, SupplyInv
  <2>3. supply.source = "VENDOR" => evidence
    BY <1>4 DEF MarkDelivered, MarkInHouseArrived, SupplyInv, PackedWithEvidence
  <2>. QED BY <1>2, <2>1, <2>2, <2>3
<1>5. ASSUME NEW t \in Tasks, WriteSupply(t) PROVE SupplyInv' /\ GoodsInv'
  <2>1. /\ task[t].at = "setSupply" /\ task[t].to # "NONE" /\ Done(t)
        /\ UNCHANGED <<tenderVars, evidence, receipt, lot, sellable>>
        /\ supply' = [supply EXCEPT !.status = task[t].to]
    BY <1>5 DEF WriteSupply, JobsOK, JobOK, At
  <2>2. task'[t] = Idle /\ Only(t) /\ Idle.at = "idle" BY <2>1, DoneTask DEF Only, Idle, Job
  <2>3. GoodsInv' BY <2>1, <2>2, OutOfWork
  <2>4. supply.source # "NONE" BY <2>1 DEF SupplyInv
  <2>5. supply.source = "VENDOR" /\ task[t].to \in Packed => evidence
    BY <2>1 DEF SupplyInv, SawEvidence
  <2>6. ~SawEvidence(t)' BY <2>2 DEF SawEvidence, ReceiptSteps
  <2>7. SupplyInv' BY <2>1, <2>2, <2>4, <2>5, <2>6, SupplyWritten
  <2>. QED BY <2>3, <2>7
<1>6. ASSUME NEW t \in Tasks, AttachEvidence(t) \/ AttachInHouseEvidence(t)
      PROVE  SupplyInv' /\ GoodsInv'
  <2>1. PICK to \in {"none", "VIDEO_SUBMITTED"} :
          Begin(t, "evidence", Job("evidence", NoVendor, NoQuote, 0, to))
    BY <1>6 DEF AttachEvidence, AttachInHouseEvidence
  <2>. DEFINE job == Job("evidence", NoVendor, NoQuote, 0, to)
  <2>2. JobOK(job) /\ job.at = "evidence" BY FirstJobs DEF Job
  <2>3. Begin(t, "evidence", job) BY <2>1
  <2>. HIDE DEF job
  <2>4. task'[t] = job /\ Only(t) BY <2>2, <2>3, BegunJobs DEF Only
  <2>5. UNCHANGED <<tenderVars, goodsVars>> /\ supply.source # "NONE"
    BY <1>6 DEF AttachEvidence, AttachInHouseEvidence
  <2>6. GoodsInv' BY <2>2, <2>4, <2>5, OutOfWork
  <2>7. ~SawEvidence(t)' BY <2>2, <2>4 DEF SawEvidence, ReceiptSteps
  <2>8. SupplyInv' BY <2>4, <2>5, <2>7, SupplySame
  <2>. QED BY <2>6, <2>8
<1>7. ASSUME NEW t \in Tasks, InsertEvidence(t) PROVE SupplyInv' /\ GoodsInv'
  <2>1. /\ task[t].at = "evidence" /\ evidence' /\ (Done(t) \/ GoTo(t, "setSupply"))
        /\ UNCHANGED <<tenderVars, supply, receipt, lot, sellable>>
    BY <1>7 DEF InsertEvidence, At
  <2>2. Only(t) /\ task'[t].at \in {"idle", "setSupply"}
    <3>1. CASE Done(t) BY <3>1, DoneTask DEF Only, Idle, Job
    <3>2. CASE GoTo(t, "setSupply") BY <3>2 DEF Only, GoTo, JobsOK, JobType
    <3>. QED BY <2>1, <3>1, <3>2
  <2>3. GoodsInv' BY <2>1, <2>2, OutOfWork
  <2>4. supply.source # "NONE" BY <2>1 DEF SupplyInv
  <2>5. SupplyInv' BY <2>1, <2>2, <2>4, SupplySame
  <2>. QED BY <2>3, <2>5
<1>. QED BY <1>1, <1>3, <1>4, <1>5, <1>6, <1>7 DEF Supplying

(* Receiving, and the bridge into the inventory.                           *)
LEMMA ReceivingKeeps ==
  ASSUME StateInv, SupplyInv, GoodsInv, Receiving
  PROVE  SupplyInv' /\ GoodsInv'
<1>. USE StepSets DEF StateInv, SameAward, tenderVars, goodsVars
<1>1. ASSUME NEW t \in Tasks, NEW n \in Quantities, Receive(t, n) PROVE SupplyInv' /\ GoodsInv'
  <2>. DEFINE job == Job("insertReceipt", NoVendor, NoQuote, n, "none")
  <2>1. JobOK(job) /\ job.at = "insertReceipt" BY FirstJobs DEF Job
  <2>2. Begin(t, "receive", job) /\ UNCHANGED <<tenderVars, goodsVars>> BY <1>1 DEF Receive
  <2>. HIDE DEF job
  <2>3. task'[t] = job /\ Only(t) BY <2>1, <2>2, BegunJobs DEF Only
  <2>4. GoodsInv' BY <2>1, <2>2, <2>3, OutOfWork
  <2>5. supply.source # "NONE" /\ (supply.source = "VENDOR" => evidence)
    BY <1>1 DEF Receive, SupplyInv, PackedWithEvidence
  <2>6. SupplyInv' BY <2>1, <2>2, <2>3, <2>5, SupplySame
  <2>. QED BY <2>4, <2>6
<1>2. ASSUME NEW t \in Tasks, InsertReceipt(t) PROVE SupplyInv' /\ GoodsInv'
  <2>1. task[t].at = "insertReceipt" /\ ~ReceiptHeld /\ UNCHANGED <<tenderVars, goodsVars>>
    BY <1>2 DEF InsertReceipt, At
  <2>2. supply.source # "NONE" /\ (supply.source = "VENDOR" => evidence)
    BY <2>1 DEF SupplyInv, SawEvidence
  <2>3. CASE Done(t)
    <3>1. Only(t) /\ task'[t].at = "idle" BY <2>3, DoneTask DEF Only, Idle, Job
    <3>2. GoodsInv' BY <2>1, <3>1, OutOfWork
    <3>3. SupplyInv' BY <2>1, <2>2, <3>1, SupplySame
    <3>. QED BY <3>2, <3>3
  <2>4. CASE receipt = NoReceipt /\ GoTo(t, "markReceived")
    <3>1. Only(t) /\ task'[t].at = "markReceived" BY <2>4 DEF Only, GoTo, JobsOK, JobType
    <3>2. \A s \in Tasks : task[s].at \notin BridgeSteps
      BY <2>4, ConstantsAssumption DEF GoodsInv, JobsOK, JobOK
    <3>3. \A s \in Tasks : s # t => task'[s].at \notin WorkSteps
      BY <2>1, <3>1, <3>2 DEF ReceiptHeld, Only, WorkSteps
    <3>4. GoodsInv'
      BY <2>1, <2>4, <3>1, <3>3, AloneAtWork DEF GoodsInv, BridgeSteps
    <3>5. SupplyInv' BY <2>1, <2>2, <3>1, SupplySame
    <3>. QED BY <3>4, <3>5
  <2>. QED BY <1>2, <2>3, <2>4 DEF InsertReceipt
<1>3. ASSUME NEW t \in Tasks, MarkReceived(t) PROVE SupplyInv' /\ GoodsInv'
  <2>1. /\ task[t].at = "markReceived" /\ (GoTo(t, "complete") \/ GoTo(t, "commitReceipt"))
        /\ UNCHANGED <<tenderVars, evidence, receipt, lot, sellable>>
    BY <1>3 DEF MarkReceived, At
  <2>2. PICK x \in {"RECEIVED", "REJECTED_AT_RECEIPT"} : supply' = [supply EXCEPT !.status = x]
    BY <1>3 DEF MarkReceived
  <2>3. Only(t) /\ task'[t].at \in {"complete", "commitReceipt"}
    BY <2>1 DEF Only, GoTo, JobsOK, JobType
  <2>4. supply.source # "NONE" /\ (supply.source = "VENDOR" => evidence)
    BY <2>1 DEF SupplyInv, SawEvidence, ReceiptSteps
  <2>5. SupplyInv' BY <2>1, <2>2, <2>3, <2>4, SupplyWritten
  <2>6. \A s \in Tasks : s # t => task'[s].at \notin WorkSteps BY <2>1, <2>3, AtWork
  <2>7. receipt = NoReceipt BY <2>1 DEF GoodsInv, ReceiptSteps
  <2>8. GoodsInv' BY <2>1, <2>3, <2>6, <2>7, AloneAtWork DEF GoodsInv, BridgeSteps
  <2>. QED BY <2>5, <2>8
<1>4. ASSUME NEW t \in Tasks, CompleteRequest(t) PROVE SupplyInv' /\ GoodsInv'
  <2>1. /\ task[t].at = "complete" /\ GoTo(t, "commitReceipt") /\ UNCHANGED goodsVars
    BY <1>4 DEF CompleteRequest, At
  <2>2. SameAward BY <1>4 DEF CompleteRequest, TendersOK
  <2>3. Only(t) /\ task'[t].at = "commitReceipt" BY <2>1 DEF Only, GoTo, JobsOK, JobType
  <2>4. supply.source # "NONE" /\ (supply.source = "VENDOR" => evidence)
    BY <2>1 DEF SupplyInv, SawEvidence, ReceiptSteps
  <2>5. SupplyInv' BY <2>1, <2>2, <2>3, <2>4, SupplySame
  <2>6. \A s \in Tasks : s # t => task'[s].at \notin WorkSteps BY <2>1, <2>3, AtWork
  <2>7. receipt = NoReceipt BY <2>1 DEF GoodsInv, ReceiptSteps
  <2>8. GoodsInv' BY <2>1, <2>3, <2>6, <2>7, AloneAtWork DEF GoodsInv, BridgeSteps
  <2>. QED BY <2>5, <2>8
<1>5. ASSUME NEW t \in Tasks, CommitReceipt(t) PROVE SupplyInv' /\ GoodsInv'
  <2>1. /\ task[t].at = "commitReceipt" /\ receipt' = task[t].amount
        /\ UNCHANGED <<tenderVars, supply, evidence, lot, sellable>>
        /\ IF task[t].amount > 0 THEN GoTo(t, "inbound") ELSE Done(t)
    BY <1>5 DEF CommitReceipt, At
  <2>2. task[t].amount \in Nat
    BY <2>1, ConstantsAssumption DEF JobsOK, JobOK, ReceiptSteps
  <2>3. receipt = NoReceipt /\ lot = 0 /\ sellable = 0 BY <2>1 DEF GoodsInv, ReceiptSteps
  <2>4. Only(t) /\ \/ task'[t].at = "inbound" /\ task'[t].amount = task[t].amount /\ task[t].amount > 0
                   \/ task'[t].at = "idle"
    <3>1. CASE task[t].amount > 0 /\ GoTo(t, "inbound") BY <3>1 DEF Only, GoTo, JobsOK, JobType
    <3>2. CASE Done(t) BY <3>2, DoneTask DEF Only, Idle, Job
    <3>. QED BY <2>1, <3>1, <3>2
  <2>5. \A s \in Tasks : s # t => task'[s].at \notin WorkSteps BY <2>1, <2>4, AtWork
  <2>6. GoodsInv' BY <2>1, <2>3, <2>4, <2>5, AloneAtWork DEF BridgeSteps, ReceiptSteps
  <2>7. supply.source # "NONE" BY <2>1 DEF SupplyInv
  <2>8. ~SawEvidence(t)' BY <2>4 DEF SawEvidence, ReceiptSteps
  <2>9. SupplyInv' BY <2>1, <2>4, <2>7, <2>8, SupplySame
  <2>. QED BY <2>6, <2>9
<1>6. ASSUME NEW t \in Tasks, RegisterInbound(t) PROVE SupplyInv' /\ GoodsInv'
  <2>1. /\ task[t].at = "inbound" /\ lot' = lot + task[t].amount /\ GoTo(t, "sync")
        /\ UNCHANGED <<tenderVars, supply, evidence, receipt, sellable>>
    BY <1>6 DEF RegisterInbound, At
  <2>2. receipt = task[t].amount /\ receipt > 0 /\ lot = 0 /\ sellable = 0 /\ task[t].amount \in Nat
    BY <2>1, ConstantsAssumption DEF GoodsInv, BridgeSteps, JobsOK, JobOK
  <2>3. Only(t) /\ task'[t].at = "sync" /\ task'[t].amount = task[t].amount
    BY <2>1 DEF Only, GoTo, JobsOK, JobType
  <2>4. \A s \in Tasks : s # t => task'[s].at \notin WorkSteps BY <2>1, <2>3, AtWork
  <2>5. lot' = receipt' /\ receipt' = task'[t].amount /\ receipt' > 0 /\ sellable' = 0
        /\ receipt' # NoReceipt
    BY <2>1, <2>2, <2>3, ConstantsAssumption
  <2>6. GoodsInv' BY <2>3, <2>4, <2>5, AloneAtWork DEF ReceiptSteps
  <2>7. supply.source # "NONE" BY <2>1 DEF SupplyInv
  <2>8. ~SawEvidence(t)' BY <2>3 DEF SawEvidence, ReceiptSteps
  <2>9. SupplyInv' BY <2>1, <2>3, <2>7, <2>8, SupplySame
  <2>. QED BY <2>6, <2>9
<1>7. ASSUME NEW t \in Tasks, SyncShopProductStock(t) PROVE SupplyInv' /\ GoodsInv'
  <2>1. /\ task[t].at = "sync" /\ Done(t)
        /\ UNCHANGED <<tenderVars, supply, evidence, receipt, lot>>
    BY <1>7 DEF SyncShopProductStock, At
  <2>2. Only(t) /\ task'[t].at = "idle" BY <2>1, DoneTask DEF Only, Idle, Job
  <2>3. receipt = task[t].amount /\ receipt > 0 /\ lot = receipt /\ task[t].amount \in Nat
    BY <2>1, ConstantsAssumption DEF GoodsInv, BridgeSteps, JobsOK, JobOK
  <2>4. \A s \in Tasks : s # t => task'[s].at \notin WorkSteps BY <2>1, <2>2, AtWork
  <2>5. GoodsInv' BY <2>1, <2>2, <2>3, <2>4, AloneAtWork, ConstantsAssumption DEF ReceiptSteps, BridgeSteps
  <2>6. ~SawEvidence(t)' BY <2>2 DEF SawEvidence, ReceiptSteps
  <2>7. SupplyInv' BY <2>1, <2>2, <2>6, SupplySame
  <2>. QED BY <2>5, <2>7
<1>. QED BY <1>1, <1>2, <1>3, <1>4, <1>5, <1>6, <1>7 DEF Receiving

(* SupplyInv and GoodsInv hold in every state.                             *)
LEMMA SupplyInvHolds == Spec => [](SupplyInv /\ GoodsInv)
<1>1. Init => SupplyInv /\ GoodsInv
  <2>. SUFFICES ASSUME Init PROVE SupplyInv /\ GoodsInv OBVIOUS
  <2>1. \A t \in Tasks : task[t].at = "idle" BY DEF Init, Idle, Job
  <2>2. GoodsInv BY <2>1, StepSets DEF Init, GoodsInv, ReceiptSteps, BridgeSteps
  <2>3. supply.source = "NONE" /\ supply.status = "NONE" BY DEF Init
  <2>4. SupplyInv
    BY <2>1, <2>3, StepSets DEF SupplyInv, AwardMatchesSupply, PackedWithEvidence, SawEvidence, ReceiptSteps
  <2>. QED BY <2>2, <2>4
<1>2. StateInv /\ SupplyInv /\ GoodsInv /\ [Next]_vars => SupplyInv' /\ GoodsInv'
  <2>. SUFFICES ASSUME StateInv, SupplyInv, GoodsInv, [Next]_vars PROVE SupplyInv' /\ GoodsInv'
    OBVIOUS
  <2>1. ASSUME NEW t \in Tasks, CommitAward(t), SupplyOrderFree PROVE SupplyInv' /\ GoodsInv'
    BY <2>1, CommitAwardKeeps
  <2>2. CASE (Drafting \/ Closing \/ Answering \/ Awarding)
             /\ \A t \in Tasks : ~(CommitAward(t) /\ SupplyOrderFree)
    BY <2>2, TenderAside, TenderKeeps, AsideKeeps
  <2>3. ASSUME NEW t \in Tasks, Crash(t) PROVE SupplyInv' /\ GoodsInv'
    <3>1. Only(t) /\ task'[t].at = "idle" /\ UNCHANGED goodsVars /\ SameAward
      BY <2>3, DoneTask DEF Crash, StateInv, Only, Idle, Job, SameAward, tenderVars, goodsVars
    <3>2. GoodsInv' BY <3>1, StepSets, OutOfWork DEF goodsVars
    <3>3. ~SawEvidence(t)' BY <3>1 DEF SawEvidence, ReceiptSteps
    <3>4. SupplyInv' BY <3>1, <3>3, StepSets, SupplySame DEF goodsVars
    <3>. QED BY <3>2, <3>4
  <2>4. CASE UNCHANGED vars
    BY <2>4, AsideKeeps DEF vars, goodsVars, SameAward, Aside
  <2>. QED BY <2>1, <2>2, <2>3, <2>4, SupplyingKeeps, ReceivingKeeps DEF Next
<1>. QED BY <1>1, <1>2, StateInvHolds, PTL DEF Spec

(* However awards, second publications, cancellations and crashes          *)
(* interleave, the supply order and the award on the requirement name one  *)
(* vendor and one price.                                                   *)
THEOREM AwardMatchesSupplyHolds == Spec => []AwardMatchesSupply
  BY SupplyInvHolds, PTL DEF SupplyInv

(* A vendor's goods are packed, dispatched and received only with quality  *)
(* evidence, though every status is written without a condition.           *)
THEOREM PackedWithEvidenceHolds == Spec => []PackedWithEvidence
  BY SupplyInvHolds, PTL DEF SupplyInv

-----------------------------------------------------------------------------
(* Vendor procurement implements Tender: a step of the program is an       *)
(* award, a purchase, an acceptance, a stocking, an offer, or nothing.     *)
THEOREM TenderKeptHolds == Spec => TenderKept
<1>1. Init => Promise!Init BY DEF Init, Promise!Init
<1>2. StateInv /\ SupplyInv /\ GoodsInv /\ [Next]_vars => [Promise!Next]_Promise!vars
  <2>. SUFFICES ASSUME StateInv, SupplyInv, GoodsInv, [Next]_vars
                PROVE  Promise!Next \/ UNCHANGED Promise!vars
    OBVIOUS
  <2>. USE DEF StateInv
  <2>1. ASSUME NEW t \in Tasks, CommitAward(t), SupplyOrderFree PROVE Promise!Award
    <3>1. supply.source = "NONE" BY <2>1 DEF SupplyInv, SupplyOrderFree
    <3>2. task[t].vendor \in Vendors /\ task[t].amount \in Nat
      BY <2>1, ConstantsAssumption DEF CommitAward, At, JobsOK, JobOK, AwardSteps
    <3>3. request'.awardee = task[t].vendor /\ request'.award = task[t].amount
      BY <2>1 DEF CommitAward, TendersOK
    <3>. QED BY <2>1, <3>1, <3>2, <3>3 DEF CommitAward, Promise!Award
  <2>2. CASE (Drafting \/ Closing \/ Answering \/ Awarding)
             /\ \A t \in Tasks : ~(CommitAward(t) /\ SupplyOrderFree)
    BY <2>2, TenderKeeps DEF SameAward, goodsVars, Promise!vars
  <2>3. ASSUME NEW a \in Amounts, CreateInHouseSupply(a) PROVE Promise!Purchase
    BY <2>3 DEF CreateInHouseSupply, SupplyInv, tenderVars, Promise!Purchase
  <2>4. CASE Supplying /\ ~\E a \in Amounts : CreateInHouseSupply(a)
    <3>1. supply'.source = supply.source /\ UNCHANGED <<request, receipt, lot, sellable>>
      BY <2>4 DEF Supplying, UpdateSupplyStatus, MarkDelivered, MarkInHouseArrived, SetSupply,
         WriteSupply, AttachEvidence, AttachInHouseEvidence, InsertEvidence, tenderVars, goodsVars,
         GoodsOK
    <3>. QED BY <3>1 DEF Promise!vars
  <2>5. ASSUME NEW t \in Tasks, CommitReceipt(t) PROVE Promise!Accept
    <3>1. task[t].at = "commitReceipt" BY <2>5 DEF CommitReceipt, At
    <3>2. supply.source # "NONE" /\ receipt = NoReceipt
      BY <3>1, StepSets DEF SupplyInv, GoodsInv, ReceiptSteps
    <3>3. task[t].amount \in Nat BY <3>1, ConstantsAssumption DEF JobsOK, JobOK, ReceiptSteps
    <3>. QED BY <2>5, <3>2, <3>3 DEF CommitReceipt, tenderVars, Promise!Accept
  <2>6. ASSUME NEW t \in Tasks, RegisterInbound(t) PROVE Promise!Stock
    <3>1. task[t].at = "inbound" BY <2>6 DEF RegisterInbound, At
    <3>2. receipt = task[t].amount /\ lot = 0 BY <3>1 DEF GoodsInv, BridgeSteps
    <3>3. task[t].amount \in Nat BY <3>1, ConstantsAssumption DEF JobsOK, JobOK, BridgeSteps
    <3>. QED BY <2>6, <3>2, <3>3, ConstantsAssumption DEF RegisterInbound, tenderVars, Promise!Stock
  <2>7. ASSUME NEW t \in Tasks, SyncShopProductStock(t) PROVE Promise!Offer
    <3>1. task[t].at = "sync" BY <2>7 DEF SyncShopProductStock, At
    <3>2. receipt = task[t].amount /\ receipt > 0 /\ lot = receipt /\ sellable = 0
      BY <3>1 DEF GoodsInv, BridgeSteps
    <3>3. task[t].amount \in Nat BY <3>1, ConstantsAssumption DEF JobsOK, JobOK, BridgeSteps
    <3>4. sellable' = Rounded(lot) BY <2>7, <3>2, <3>3, RoundedType DEF SyncShopProductStock
    <3>. QED BY <2>7, <3>2, <3>3, <3>4 DEF SyncShopProductStock, tenderVars, Promise!Offer
  <2>8. CASE Receiving /\ ~\E t \in Tasks : CommitReceipt(t) \/ RegisterInbound(t) \/ SyncShopProductStock(t)
    <3>1. /\ supply'.source = supply.source /\ UNCHANGED <<receipt, lot, sellable>>
          /\ request'.awardee = request.awardee /\ request'.award = request.award
      BY <2>8 DEF Receiving, Receive, InsertReceipt, MarkReceived, CompleteRequest, tenderVars,
         goodsVars, GoodsOK, TendersOK
    <3>. QED BY <3>1 DEF Promise!vars
  <2>9. CASE (\E t \in Tasks : Crash(t)) \/ UNCHANGED vars
    BY <2>9 DEF Crash, vars, tenderVars, goodsVars, Promise!vars
  <2>. QED BY <2>1, <2>2, <2>3, <2>4, <2>5, <2>6, <2>7, <2>8, <2>9 DEF Next, Promise!Next
<1>. QED BY <1>1, <1>2, StateInvHolds, SupplyInvHolds, PTL DEF Spec, TenderKept, Promise!Spec

(* What Tender promises, carried to the rows: goods are received only from *)
(* an award or a purchase, the lot holds what was accepted, and what is on *)
(* sale is the lot, rounded -- whatever crashed, raced or was repeated.    *)
THEOREM GoodsInOrderHolds == Spec => []Promise!InOrder
<1>1. Promise!Init => Promise!InOrder BY DEF Promise!Init, Promise!InOrder
<1>2. Promise!InOrder /\ [Promise!Next]_Promise!vars => Promise!InOrder'
  <2>. SUFFICES ASSUME Promise!InOrder, [Promise!Next]_Promise!vars PROVE Promise!InOrder'
    OBVIOUS
  <2>1. CASE Promise!Award \/ Promise!Purchase
    BY <2>1 DEF Promise!Award, Promise!Purchase, Promise!InOrder
  <2>2. CASE Promise!Accept BY <2>2 DEF Promise!Accept, Promise!InOrder
  <2>3. CASE Promise!Stock BY <2>3 DEF Promise!Stock, Promise!InOrder
  <2>4. CASE Promise!Offer BY <2>4 DEF Promise!Offer, Promise!InOrder
  <2>5. CASE UNCHANGED Promise!vars BY <2>5 DEF Promise!vars, Promise!InOrder
  <2>. QED BY <2>1, <2>2, <2>3, <2>4, <2>5 DEF Promise!Next
<1>. QED BY <1>1, <1>2, TenderKeptHolds, PTL DEF TenderKept, Promise!Spec

(* An award or a purchase, an accepted receipt, a lot and an offer are     *)
(* final: no later or repeated request of anybody changes them.            *)
THEOREM EachOnceHolds == Spec => [][Promise!EachOnce]_Promise!vars
<1>1. [Promise!Next]_Promise!vars => [Promise!EachOnce]_Promise!vars
  BY DEF Promise!Next, Promise!Award, Promise!Purchase, Promise!Accept, Promise!Stock,
         Promise!Offer, Promise!EachOnce
<1>. QED BY <1>1, TenderKeptHolds, PTL DEF TenderKept, Promise!Spec

-----------------------------------------------------------------------------
(* The promise of the award's comment.  One thing alone breaks it: a       *)
(* process that dies, or a statement that throws, between the pooled       *)
(* UPDATE of the quote and the commit.                                     *)

SelectedRow == \E q \in Quotes : quote[q].vendor # NoVendor /\ quote[q].status = "SELECTED"
Selecting(t) == task[t].at \in {"winner", "commit"} /\ task[t].quote # NoQuote

(* The steps of requests that found a requirement.                         *)
KnownSteps == AwardSteps \cup {"publish", "close"}

(* A SELECTED quote is awarded, or its award is in progress, which finds a *)
(* supply order only of an earlier award.                                  *)
SelectInv ==
  /\ SelectedRow => request.awardee # NoVendor \/ \E t \in Tasks : Selecting(t)
  /\ supply.source = "VENDOR" => request.awardee # NoVendor
  /\ supply.source = "IN_HOUSE" => request.status = "NONE"
  /\ \A t \in Tasks : task[t].at \in KnownSteps => request.status # "NONE"

(* What most steps leave as it is, of the rows and of the tasks.           *)
SelectSame ==
  /\ SelectedRow' => SelectedRow
  /\ request'.awardee = request.awardee /\ supply'.source = supply.source
  /\ request'.status = "NONE" <=> request.status = "NONE"
SelectingOn ==
  \A s \in Tasks :
    /\ Selecting(s) => Selecting(s)'
    /\ task'[s].at \in KnownSteps => task[s].at \in KnownSteps \/ request'.status # "NONE"

LEMMA SelectFrame ==
  ASSUME SelectInv, SelectSame, SelectingOn
  PROVE  SelectInv'
<1>1. SelectedRow' => request'.awardee # NoVendor \/ \E t \in Tasks : Selecting(t)'
  BY DEF SelectInv, SelectSame, SelectingOn
<1>2. \A t \in Tasks : task'[t].at \in KnownSteps => request'.status # "NONE"
  BY DEF SelectInv, SelectSame, SelectingOn
<1>. QED BY <1>1, <1>2 DEF SelectInv, SelectSame

(* A task that begins, goes on or ends.                                    *)
LEMMA BegunSelecting ==
  ASSUME JobsOK, NEW t \in Tasks, NEW kind, NEW job, Begin(t, kind, job),
         job.at \in KnownSteps => request'.status # "NONE"
  PROVE  SelectingOn
<1>1. task[t].at = "idle" BY DEF Begin, Idle, Job
<1>2. \A s \in Tasks : task'[s] = IF s = t THEN job ELSE task[s] BY DEF Begin, JobsOK
<1>. QED BY <1>1, <1>2 DEF SelectingOn, Selecting
LEMMA GoneSelecting ==
  ASSUME JobsOK, NEW t \in Tasks, NEW step, GoTo(t, step),
         Selecting(t) => step \in {"winner", "commit"},
         step \in KnownSteps => task[t].at \in KnownSteps \/ request'.status # "NONE"
  PROVE  SelectingOn
<1>1. \A s \in Tasks : task'[s] = IF s = t THEN [task[t] EXCEPT !.at = step] ELSE task[s]
  BY DEF GoTo, JobsOK
<1>2. [task[t] EXCEPT !.at = step].at = step /\ [task[t] EXCEPT !.at = step].quote = task[t].quote
  BY DEF JobsOK, JobType
<1>. QED BY <1>1, <1>2 DEF SelectingOn, Selecting
LEMMA DoneSelecting ==
  ASSUME JobsOK, NEW t \in Tasks, ~Selecting(t), Done(t)
  PROVE  SelectingOn
<1>1. \A s \in Tasks : task'[s] = IF s = t THEN Idle ELSE task[s] BY DEF Done, JobsOK
<1>2. Idle.at = "idle" BY DEF Idle, Job
<1>. QED BY <1>1, <1>2 DEF SelectingOn, Selecting, KnownSteps, AwardSteps
LEMMA SameSelecting == UNCHANGED task => SelectingOn
  BY DEF SelectingOn, Selecting

(* The draft and the closing of a requirement.                             *)
LEMMA DraftingSelects ==
  ASSUME StateInv, SelectInv, SupplyInv, Drafting \/ Closing
  PROVE  SelectInv'
<1>. USE DEF StateInv, KnownSteps, AwardSteps
<1>1. UNCHANGED <<quote, goodsVars>>
  BY DEF Drafting, Closing, CreateDraft, UpdateDraft, WriteHeader, DeleteItems, InsertItems,
     PublishRequest, WritePublished, InsertRecipients, DeadlinePasses, CancelRequest,
     ExpireRequest, CloseRequest, WriteClosed, ExpireRecipients, tenderVars
<1>2. (SelectedRow' => SelectedRow) /\ supply'.source = supply.source
  BY <1>1 DEF SelectedRow, goodsVars
<1>3. ASSUME NEW mode \in {"FIXED_OFFER", "RFQ"}, NEW a \in Amounts, CreateDraft(mode, a)
      PROVE  SelectInv'
  <2>1. supply.source = "NONE" BY <1>3 DEF CreateDraft, SupplyInv
  <2>2. request'.awardee = request.awardee /\ request'.status = "DRAFT" /\ UNCHANGED task
    BY <1>3 DEF CreateDraft, TendersOK
  <2>. QED BY <1>2, <2>1, <2>2 DEF SelectInv, Selecting
<1>4. ASSUME NEW t \in Tasks, UNCHANGED request,
             \/ \E a \in Amounts : UpdateDraft(t, a)
             \/ PublishRequest(t) \/ CancelRequest(t) \/ ExpireRequest(t)
      PROVE  SelectInv'
  <2>1. SelectSame BY <1>2, <1>4 DEF SelectSame
  <2>2. CASE \E a \in Amounts : UpdateDraft(t, a)
    BY <2>1, <2>2, BegunSelecting, SelectFrame DEF UpdateDraft, Job
  <2>3. CASE PublishRequest(t)
    <3>1. request'.status # "NONE" BY <1>4, <2>3 DEF PublishRequest
    <3>. QED BY <2>1, <2>3, <3>1, BegunSelecting, SelectFrame DEF PublishRequest
  <2>4. CASE CancelRequest(t) \/ ExpireRequest(t)
    <3>1. request'.status # "NONE" BY <1>4, <2>4 DEF CancelRequest, ExpireRequest, CloseRequest
    <3>2. \E kind, job : Begin(t, kind, job)
      BY <2>4 DEF CancelRequest, ExpireRequest, CloseRequest
    <3>. QED BY <2>1, <3>1, <3>2, BegunSelecting, SelectFrame
  <2>. QED BY <1>4, <2>2, <2>3, <2>4
<1>5. ASSUME NEW t \in Tasks, UNCHANGED <<quote, supply>>,
             \/ WriteHeader(t) \/ DeleteItems(t) \/ InsertItems(t) \/ WritePublished(t)
             \/ InsertRecipients(t) \/ WriteClosed(t) \/ ExpireRecipients(t)
      PROVE  SelectInv'
  <2>1. /\ request'.awardee = request.awardee
        /\ request'.status = "NONE" <=> request.status = "NONE"
    <3>1. CASE WriteHeader(t) \/ DeleteItems(t) \/ InsertItems(t) \/ InsertRecipients(t)
               \/ ExpireRecipients(t)
      BY <3>1 DEF WriteHeader, DeleteItems, InsertItems, InsertRecipients, ExpireRecipients,
                  TendersOK
    <3>2. CASE WritePublished(t) \/ WriteClosed(t)
      <4>1. request.status # "NONE" BY <3>2 DEF WritePublished, WriteClosed, At, SelectInv
      <4>2. task[t].at = "close" => task[t].to \in {"CANCELLED", "EXPIRED"} BY DEF JobsOK, JobOK
      <4>3. request' = [request EXCEPT !.status = "PUBLISHED"]
            \/ (request' = [request EXCEPT !.status = task[t].to] /\ task[t].at = "close")
        BY <3>2 DEF WritePublished, WriteClosed, At
      <4>. QED BY <4>1, <4>2, <4>3 DEF TendersOK
    <3>. QED BY <1>5, <3>1, <3>2
  <2>2. SelectSame BY <1>2, <2>1 DEF SelectSame
  <2>3. ~Selecting(t)
    BY <1>5 DEF WriteHeader, DeleteItems, InsertItems, InsertRecipients, ExpireRecipients,
       WritePublished, WriteClosed, At, Selecting
  <2>4. \/ Done(t)
        \/ \E step \in {"deleteItems", "insertItems", "recipients", "expireRecipients"} : GoTo(t, step)
    BY <1>5 DEF WriteHeader, DeleteItems, InsertItems, InsertRecipients, ExpireRecipients,
       WritePublished, WriteClosed
  <2>. QED BY <2>2, <2>3, <2>4, GoneSelecting, DoneSelecting, SelectFrame
<1>6. CASE DeadlinePasses
  <2>1. UNCHANGED <<request, task>> BY <1>6 DEF DeadlinePasses
  <2>. QED BY <1>2, <2>1, SameSelecting, SelectFrame DEF SelectSame
<1>7. \A t \in Tasks :
        (\E a \in Amounts : UpdateDraft(t, a)) \/ PublishRequest(t) \/ CancelRequest(t) \/ ExpireRequest(t)
        => UNCHANGED request
  BY DEF UpdateDraft, PublishRequest, CancelRequest, ExpireRequest, CloseRequest, tenderVars
<1>. QED BY <1>1, <1>3, <1>4, <1>5, <1>6, <1>7 DEF Drafting, Closing, goodsVars

(* The vendor's side writes no quote SELECTED.                             *)
LEMMA AnsweringSelects ==
  ASSUME StateInv, SelectInv, Answering
  PROVE  SelectInv'
<1>. USE DEF StateInv, KnownSteps, AwardSteps
<1>1. UNCHANGED <<request, supply>>
  BY DEF Answering, ViewRequest, AcceptFixedOffer, DeclineRequest, SubmitQuote, InsertQuote,
     WithdrawQuote, UpdateQuote, WriteDeclined, MarkResponded, WriteQuote, WriteWithdrawn,
     tenderVars, goodsVars
<1>2. SelectedRow' => SelectedRow
  <2>1. CASE UNCHANGED quote BY <2>1 DEF SelectedRow
  <2>2. ASSUME NEW t \in Tasks, NEW q \in Quotes, InsertQuote(t, q) PROVE SelectedRow' => SelectedRow
    <3>1. /\ \A r \in Quotes : r # q => quote'[r] = quote[r]
          /\ quote'[q].status = "SUBMITTED"
      BY <2>2 DEF InsertQuote, TendersOK
    <3>. QED BY <3>1 DEF SelectedRow
  <2>3. ASSUME NEW t \in Tasks, WriteQuote(t) \/ WriteWithdrawn(t) PROVE SelectedRow' => SelectedRow
    <3>. DEFINE q == task[t].quote
    <3>1. q \in Quotes BY <2>3 DEF WriteQuote, WriteWithdrawn, At, JobsOK, JobOK
    <3>2. CASE WriteQuote(t)
      <4>. DEFINE s == IF quote[q].status \in Live THEN "UPDATED" ELSE quote[q].status
      <4>1. quote' = [quote EXCEPT ![q].total = task[t].amount, ![q].status = s]
        BY <3>1, <3>2 DEF WriteQuote, TendersOK
      <4>2. s = "SELECTED" => quote[q].status = "SELECTED" OBVIOUS
      <4>. HIDE DEF s, q
      <4>3. \A r \in Quotes : quote'[r].vendor = quote[r].vendor
                              /\ (quote'[r].status = "SELECTED" => quote[r].status = "SELECTED")
        BY <3>1, <4>1, <4>2 DEF TendersOK
      <4>. QED BY <4>3 DEF SelectedRow
    <3>3. CASE WriteWithdrawn(t)
      <4>1. quote' = [quote EXCEPT ![q].status = "WITHDRAWN"] BY <3>3 DEF WriteWithdrawn
      <4>. HIDE DEF q
      <4>2. \A r \in Quotes : quote'[r].vendor = quote[r].vendor
                              /\ (quote'[r].status = "SELECTED" => quote[r].status = "SELECTED")
        BY <3>1, <4>1 DEF TendersOK
      <4>. QED BY <4>2 DEF SelectedRow
    <3>. QED BY <2>3, <3>2, <3>3
  <2>. QED BY <2>1, <2>2, <2>3
       DEF Answering, ViewRequest, AcceptFixedOffer, DeclineRequest, SubmitQuote,
           WithdrawQuote, UpdateQuote, WriteDeclined, MarkResponded, tenderVars
<1>3. SelectSame BY <1>1, <1>2 DEF SelectSame
<1>4. SelectingOn
  <2>1. ASSUME NEW v \in Vendors, ViewRequest(v) PROVE SelectingOn
    BY <2>1, SameSelecting DEF ViewRequest
  <2>2. ASSUME NEW t \in Tasks,
               \/ \E v \in Vendors : AcceptFixedOffer(t, v) \/ DeclineRequest(t, v)
               \/ \E v \in Vendors, a \in Amounts : SubmitQuote(t, v, a)
               \/ \E q \in Quotes : WithdrawQuote(t, q)
               \/ \E q \in Quotes, a \in Amounts : UpdateQuote(t, q, a)
        PROVE  SelectingOn
    <3>1. ASSUME NEW kind, NEW at, NEW v, NEW q, NEW a, NEW to, at \notin KnownSteps,
                 Begin(t, kind, Job(at, v, q, a, to))
          PROVE  SelectingOn
      <4>1. Job(at, v, q, a, to).at = at BY DEF Job
      <4>. QED BY <3>1, <4>1, BegunSelecting
    <3>2. CASE \E v \in Vendors : AcceptFixedOffer(t, v) \/ DeclineRequest(t, v)
      BY <3>1, <3>2 DEF AcceptFixedOffer, DeclineRequest
    <3>3. CASE \E v \in Vendors, a \in Amounts : SubmitQuote(t, v, a)
      BY <3>1, <3>3 DEF SubmitQuote
    <3>4. CASE \E q \in Quotes : WithdrawQuote(t, q) BY <3>1, <3>4 DEF WithdrawQuote
    <3>5. CASE \E q \in Quotes, a \in Amounts : UpdateQuote(t, q, a)
      BY <3>1, <3>5 DEF UpdateQuote
    <3>. QED BY <2>2, <3>2, <3>3, <3>4, <3>5
  <2>3. ASSUME NEW t \in Tasks,
               \/ \E q \in Quotes : InsertQuote(t, q)
               \/ WriteDeclined(t) \/ MarkResponded(t) \/ WriteQuote(t) \/ WriteWithdrawn(t)
        PROVE  SelectingOn
    <3>1. ~Selecting(t) /\ (Done(t) \/ GoTo(t, "insertQuote"))
      BY <2>3 DEF InsertQuote, WriteDeclined, MarkResponded, WriteQuote, WriteWithdrawn, At, Selecting
    <3>. QED BY <3>1, DoneSelecting, GoneSelecting
  <2>. QED BY <2>1, <2>2, <2>3 DEF Answering
<1>. QED BY <1>3, <1>4, SelectFrame

(* The award: the quote is SELECTED by a task that goes on to the commit.  *)
LEMMA AwardingSelects ==
  ASSUME StateInv, SelectInv, SupplyInv, Awarding
  PROVE  SelectInv'
<1>. USE DEF StateInv, KnownSteps, AwardSteps
<1>1. ASSUME NEW t \in Tasks, NEW q \in Quotes, AwardQuote(t, q) PROVE SelectInv'
  <2>1. SelectSame BY <1>1 DEF AwardQuote, tenderVars, goodsVars, SelectSame, SelectedRow
  <2>. PICK job : job = Job("award", quote[q].vendor, q, quote[q].total, "none") OBVIOUS
  <2>2. job.at \notin KnownSteps BY DEF Job
  <2>. QED BY <1>1, <2>1, <2>2, BegunSelecting, SelectFrame DEF AwardQuote
<1>2. ASSUME NEW t \in Tasks, LockRequest(t) PROVE SelectInv'
  <2>1. SelectSame /\ ~Selecting(t)
    BY <1>2 DEF LockRequest, tenderVars, goodsVars, SelectSame, SelectedRow, At, Selecting
  <2>2. \/ Done(t)
        \/ /\ request'.status # "NONE"
           /\ GoTo(t, "winner") \/ GoTo(t, "select")
    BY <1>2 DEF LockRequest, tenderVars
  <2>. QED BY <2>1, <2>2, GoneSelecting, DoneSelecting, SelectFrame
<1>3. ASSUME NEW t \in Tasks, SelectQuote(t) PROVE SelectInv'
  <2>1. UNCHANGED <<request, supply>> /\ ~Selecting(t) /\ task[t].at = "select"
    BY <1>3 DEF SelectQuote, goodsVars, At, Selecting
  <2>2. CASE Done(t) /\ UNCHANGED quote
    <3>1. SelectSame BY <2>1, <2>2 DEF SelectSame, SelectedRow
    <3>. QED BY <2>1, <2>2, <3>1, DoneSelecting, SelectFrame
  <2>3. CASE GoTo(t, "winner")
    <3>1. SelectingOn BY <2>1, <2>3, GoneSelecting
    <3>2. task[t].quote # NoQuote BY <2>1, ConstantsAssumption DEF JobsOK, JobOK
    <3>3. Selecting(t)'
      <4>1. task'[t] = [task[t] EXCEPT !.at = "winner"] BY <2>3 DEF GoTo, JobsOK
      <4>2. task'[t].at = "winner" /\ task'[t].quote = task[t].quote
        BY <4>1 DEF JobsOK, JobType
      <4>. QED BY <3>2, <4>2 DEF Selecting
    <3>4. \A s \in Tasks : task'[s].at \in KnownSteps => request'.status # "NONE"
      BY <2>1, <3>1 DEF SelectInv, SelectingOn
    <3>. QED BY <2>1, <3>3, <3>4 DEF SelectInv
  <2>. QED BY <1>3, <2>2, <2>3 DEF SelectQuote
<1>4. ASSUME NEW t \in Tasks, MarkWinner(t) PROVE SelectInv'
  <2>1. SelectSame /\ task[t].at = "winner" /\ GoTo(t, "commit")
    BY <1>4 DEF MarkWinner, goodsVars, SelectSame, SelectedRow, At
  <2>. QED BY <2>1, GoneSelecting, SelectFrame
<1>5. ASSUME NEW t \in Tasks, CommitAward(t) PROVE SelectInv'
  <2>1. task[t].at = "commit" /\ Done(t) BY <1>5 DEF CommitAward, At
  <2>2. task[t].vendor # NoVendor BY <2>1, ConstantsAssumption DEF JobsOK, JobOK
  <2>3. \A s \in Tasks : task'[s] = IF s = t THEN Idle ELSE task[s] BY <2>1 DEF Done, JobsOK
  <2>4. Idle.at = "idle" BY DEF Idle, Job
  <2>5. request.status # "NONE" BY <2>1 DEF SelectInv
  <2>6. CASE SupplyOrderFree
    <3>1. supply'.source = "VENDOR" BY <1>5, <2>6 DEF CommitAward
    <3>2. request' = [request EXCEPT !.status = "AWARDED", !.awardee = task[t].vendor,
                                     !.award = task[t].amount]
      BY <1>5, <2>6 DEF CommitAward
    <3>3. request'.awardee = task[t].vendor /\ request'.status = "AWARDED"
      BY <3>2 DEF TendersOK
    <3>. QED BY <2>2, <3>1, <3>3 DEF SelectInv
  <2>7. CASE ~SupplyOrderFree
    <3>1. UNCHANGED <<request, supply>> BY <1>5, <2>7 DEF CommitAward
    <3>2. supply.source = "VENDOR"
      BY <2>5, <2>7 DEF SupplyOrderFree, SupplyInv, SelectInv, GoodsOK
    <3>3. request.awardee # NoVendor BY <3>2 DEF SelectInv
    <3>. QED BY <2>3, <2>4, <3>1, <3>3 DEF SelectInv
  <2>. QED BY <2>6, <2>7
<1>. QED BY <1>1, <1>2, <1>3, <1>4, <1>5 DEF Awarding

(* The supply order and the receipt touch neither quotes nor the award.    *)
LEMMA GoodsSelect ==
  ASSUME StateInv, SelectInv, Supplying \/ Receiving
  PROVE  SelectInv'
<1>. USE DEF StateInv, KnownSteps, AwardSteps
<1>1. ASSUME NEW a \in Amounts, CreateInHouseSupply(a) PROVE SelectInv'
  <2>1. request.status = "NONE" /\ supply'.source = "IN_HOUSE" /\ UNCHANGED <<tenderVars, task>>
    BY <1>1 DEF CreateInHouseSupply
  <2>. QED BY <2>1 DEF SelectInv, tenderVars, SelectedRow, Selecting
<1>2. CASE Receiving \/ (Supplying /\ ~\E a \in Amounts : CreateInHouseSupply(a))
  <2>1. /\ UNCHANGED quote /\ supply'.source = supply.source
        /\ request'.awardee = request.awardee
        /\ request'.status = "NONE" <=> request.status = "NONE"
    <3>1. CASE Receiving
      BY <3>1 DEF Receiving, Receive, InsertReceipt, MarkReceived, CompleteRequest, CommitReceipt,
         RegisterInbound, SyncShopProductStock, tenderVars, goodsVars, TendersOK, GoodsOK
    <3>2. CASE Supplying /\ ~\E a \in Amounts : CreateInHouseSupply(a)
      BY <3>2 DEF Supplying, UpdateSupplyStatus, MarkDelivered, MarkInHouseArrived, SetSupply,
         WriteSupply, AttachEvidence, AttachInHouseEvidence, InsertEvidence, tenderVars,
         goodsVars, GoodsOK
    <3>. QED BY <1>2, <3>1, <3>2
  <2>2. SelectSame BY <2>1 DEF SelectSame, SelectedRow
  <2>3. SelectingOn
    <3>1. ASSUME NEW t \in Tasks, NEW kind, NEW at, NEW v, NEW q, NEW a, NEW to, at \notin KnownSteps,
                 Begin(t, kind, Job(at, v, q, a, to))
          PROVE  SelectingOn
      <4>1. Job(at, v, q, a, to).at = at BY DEF Job
      <4>. QED BY <3>1, <4>1, BegunSelecting
    <3>2. ASSUME NEW t \in Tasks, NEW to, SetSupply(t, to) PROVE SelectingOn
      BY <3>1, <3>2 DEF SetSupply
    <3>3. ASSUME NEW t \in Tasks, AttachEvidence(t) \/ AttachInHouseEvidence(t) PROVE SelectingOn
      BY <3>1, <3>3 DEF AttachEvidence, AttachInHouseEvidence
    <3>4. ASSUME NEW t \in Tasks, NEW n \in Quantities, Receive(t, n) PROVE SelectingOn
      BY <3>1, <3>4 DEF Receive
    <3>5. ASSUME NEW t \in Tasks,
                 \/ WriteSupply(t) \/ InsertEvidence(t) \/ InsertReceipt(t) \/ MarkReceived(t)
                 \/ CompleteRequest(t) \/ CommitReceipt(t) \/ RegisterInbound(t)
                 \/ SyncShopProductStock(t)
          PROVE  SelectingOn
      <4>1. ~Selecting(t)
        BY <3>5 DEF WriteSupply, InsertEvidence, InsertReceipt, MarkReceived, CompleteRequest,
           CommitReceipt, RegisterInbound, SyncShopProductStock, At, Selecting
      <4>2. \/ Done(t)
            \/ \E step \in {"setSupply", "markReceived", "complete", "commitReceipt", "inbound",
                            "sync"} : GoTo(t, step)
        BY <3>5 DEF WriteSupply, InsertEvidence, InsertReceipt, MarkReceived, CompleteRequest,
           CommitReceipt, RegisterInbound, SyncShopProductStock
      <4>. QED BY <4>1, <4>2, DoneSelecting, GoneSelecting
    <3>. QED BY <1>2, <3>2, <3>3, <3>4, <3>5
         DEF Supplying, Receiving, UpdateSupplyStatus, MarkDelivered, MarkInHouseArrived
  <2>. QED BY <2>2, <2>3, SelectFrame
<1>. QED BY <1>1, <1>2

(* No process dies, and no statement throws, inside an award that has      *)
(* SELECTED its quote.                                                     *)
AwardSurvives == \A t \in Tasks : Selecting(t) => ~Crash(t)

(* The award is all or nothing, as its comment says, but for that one      *)
(* gap: among any number of acceptances, awards, withdrawals,              *)
(* cancellations, second publications and crashes elsewhere, a quote is    *)
(* left SELECTED only on a requirement that was awarded.                   *)
THEOREM SelectedMeansAwardedHolds ==
  Spec /\ [][AwardSurvives]_vars => []SelectedMeansAwarded
<1>1. Init => SelectInv
  BY DEF Init, SelectInv, SelectedRow, KnownSteps, AwardSteps, Idle, Job
<1>2. StateInv /\ SupplyInv /\ SelectInv /\ [Next]_vars /\ [AwardSurvives]_vars => SelectInv'
  <2>. SUFFICES ASSUME StateInv, SupplyInv, SelectInv, [Next]_vars, [AwardSurvives]_vars
                PROVE  SelectInv'
    OBVIOUS
  <2>1. CASE UNCHANGED vars
    BY <2>1, SameSelecting, SelectFrame DEF vars, SelectSame, SelectedRow
  <2>2. ASSUME NEW t \in Tasks, Crash(t), AwardSurvives PROVE SelectInv'
    <3>1. ~Selecting(t) BY <2>2 DEF AwardSurvives
    <3>2. SelectSame BY <2>2 DEF Crash, tenderVars, goodsVars, SelectSame, SelectedRow
    <3>. QED BY <2>2, <3>1, <3>2, DoneSelecting, SelectFrame DEF Crash, StateInv
  <2>. QED BY <2>1, <2>2, DraftingSelects, AnsweringSelects, AwardingSelects, GoodsSelect DEF Next
<1>3. SelectInv => SelectedMeansAwarded
  BY DEF SelectInv, SelectedMeansAwarded, SelectedRow, Selecting, RequestLocked, AwardSteps
<1>. QED BY <1>1, <1>2, <1>3, StateInvHolds, SupplyInvHolds, PTL DEF Spec
=============================================================================

----------------------------- MODULE ShopStock -----------------------------
(***************************************************************************)
(* The stock of a shop's products and the transactions that move it: the   *)
(* checkout, which writes the orders of a cart and takes their lines; the  *)
(* cancels of the customer, the shop and the dashboard, which give them    *)
(* back; bulk orders; the count of a product.                              *)
(*                                                                         *)
(* A transaction borrows a connection of the pool and locks rows one after *)
(* the other, each until it commits: a row of order_number_sequences, an   *)
(* order, a bulk order, rows of shop_products.  A step of it is a          *)
(* statement that locks a row and computes what to write there; Commit     *)
(* writes it all.  Every line is of one unit.  What an order owes, its     *)
(* later statuses and the lots its lines came from are left out.  No       *)
(* product is de-listed: the line of one is skipped when an order gives    *)
(* its lines back, and its stock never gets that unit again.               *)
(***************************************************************************)
EXTENDS Integers, Sequences, FiniteSets

CONSTANTS
  Shops, Products,
  ShopOf,    \* the shop of each shop_products row
  Attempts,  \* attempts of customers at a checkout
  WithRef,   \* those that carry a clientOrderRef
  Cart,      \* the rows a checkout locks: of each shop its number, then its lines
  Bulks,     \* bulk orders
  BulkLines, \* and the products of each
  Tasks,     \* requests in progress
  Requests,  \* the kinds of request and of failure that occur
  Connections, \* DB_POOL_MAX
  Initial,   \* stock every product starts with
  Levels,    \* what the dashboard sets the stock of each product to
  Nothing

RequestKinds == {"place", "cancel", "shopCancel", "deskCancel", "status", "bulk", "adjust", "crash"}

Orders == Attempts \X Shops
Books == Orders \cup Bulks
Rows == Shops \cup Products \cup Books

ASSUME ConstantsAssumption ==
  /\ IsFiniteSet(Tasks)
  /\ Requests \subseteq RequestKinds /\ WithRef \subseteq Attempts
  /\ ShopOf \in [Products -> Shops]
  /\ Cart \in [Attempts -> Seq(Shops \cup Products)]
  /\ BulkLines \in [Bulks -> Seq(Products)]
  /\ Connections \in Nat \ {0} /\ Initial \in Nat /\ Levels \in [Products -> SUBSET Nat]
  /\ Shops \cap Products = {} /\ (Shops \cup Products) \cap Books = {}
  /\ Orders \cap Bulks = {} /\ Attempts \cap Books = {}
  /\ Nothing \notin Books \cup Attempts

VARIABLES
  stock,    \* shop_products.stock_quantity
  moved,    \* the sum of all changes of each stock
  book,     \* orders and bulk_orders: status, how often its lines were
            \* taken from the stock and given back
  doubtful, \* books whose count the code does not keep
  task

vars == <<stock, moved, book, doubtful, task>>

InSeq(q) == {q[i] : i \in DOMAIN q}
ShopsOf(a) == InSeq(Cart[a]) \cap Shops
OrdersOf(a) == {<<a, s>> : s \in ShopsOf(a)}
Lines(o) == {p \in InSeq(Cart[o[1]]) \cap Products : ShopOf[p] = o[2]}

Live(status) == status \notin {"NONE", "DRAFT", "SUBMITTED", "CANCELLED"}

(* The rows it holds locked, the value it will write to each product, the  *)
(* rows that are still to come.                                            *)
Job(at, kind, of, to, todo) ==
  [at |-> at, kind |-> kind, of |-> of, to |-> to, todo |-> todo, held |-> {},
   value |-> [p \in Products |-> 0], failed |-> FALSE]
Idle == Job("idle", "none", Nothing, "NONE", <<>>)

At(t, step) == task[t].at = step
Begin(t, request, job) ==
  /\ request \in Requests /\ task[t] = Idle
  /\ task' = [task EXCEPT ![t] = job]
Becomes(t, job) ==
  /\ task' = [task EXCEPT ![t] = job]
  /\ UNCHANGED <<stock, moved, book, doubtful>>

On(x) == {t \in Tasks : task[t].of = x}

(* Requests that decide on a status they read without a lock.              *)
Unlocked(kind) == kind \in {"cancel", "move", "deskCancel", "deskRestore"}

(* Two requests change a book at once, one of them on such a read: it      *)
(* becomes doubtful.  Bound: a doubtful book gets no further request.      *)
Overlap(x, kind) ==
  /\ x \notin doubtful
  /\ doubtful' = IF \E t \in On(x) : Unlocked(kind) \/ Unlocked(task[t].kind)
                   THEN doubtful \cup {x} ELSE doubtful

(* The request fails and is rolled back.  What the dashboard cancelled     *)
(* stays cancelled when giving its lines back fails.                       *)
Fail(t) ==
  /\ task' = [task EXCEPT ![t] = Idle]
  /\ doubtful' = IF task[t].kind = "deskRestore" THEN doubtful \cup {task[t].of} ELSE doubtful
  /\ UNCHANGED <<stock, moved, book>>

(* Mutant: SELECT without FOR UPDATE.                                      *)
FreeAlways(t, r) == TRUE
Free(t, r) == \A s \in Tasks \ {t} : r \notin task[s].held

Borrowing == {t \in Tasks : task[t].at \in {"work", "warehouse", "items"}}
Spare == Cardinality(Borrowing) < Connections

Init ==
  /\ stock = [p \in Products |-> Initial]
  /\ moved = [p \in Products |-> 0]
  /\ book = [x \in Books |-> [status |-> IF x \in Bulks THEN "DRAFT" ELSE "NONE",
                              taken |-> 0, restored |-> 0]]
  /\ doubtful = {}
  /\ task = [t \in Tasks |-> Idle]

-----------------------------------------------------------------------------
(* Requests as they arrive: what they test before their transaction.       *)

(* placeOrder: an attempt whose orders are found by its ref gets those;    *)
(* the cart is validated against the stock.  Without a ref a second        *)
(* request is an attempt of its own.                                       *)
PlaceOrder(t, a) ==
  /\ \A o \in OrdersOf(a) : book[o].taken = 0
  /\ a \notin WithRef => On(a) = {}
  /\ \A p \in InSeq(Cart[a]) \cap Products : stock[p] >= 1
  /\ Begin(t, "place", Job("connect", "place", a, "ORDER_PLACED", Cart[a]))
  /\ UNCHANGED <<stock, moved, book, doubtful>>

CancelOrder(t, o) ==
  /\ book[o].status \notin {"NONE", "CANCELLED"}
  /\ Begin(t, "cancel", Job("connect", "cancel", o, "CANCELLED", <<o>>))
  /\ Overlap(o, "cancel")
  /\ UNCHANGED <<stock, moved, book>>

ShopCancel(t, o) ==
  /\ book[o].status # "NONE"
  /\ Begin(t, "shopCancel", Job("connect", "shopCancel", o, "CANCELLED", <<o>>))
  /\ Overlap(o, "shopCancel")
  /\ UNCHANGED <<stock, moved, book>>

(* The dashboard's cancel: the status is written by a transaction of its   *)
(* own, the lines are given back by a second one.                          *)
DeskCancel(t, o) ==
  /\ book[o].status \in {"ORDER_PLACED", "CONFIRMED"}
  /\ Begin(t, "deskCancel", Job("connect", "deskCancel", o, "CANCELLED", <<o>>))
  /\ Overlap(o, "deskCancel")
  /\ UNCHANGED <<stock, moved, book>>

(* A status that is read and tested, and written by a statement of its     *)
(* own that overwrites whatever it finds.                                  *)
Move(t, request, x, to) ==
  /\ Begin(t, request, Job("connect", "move", x, to, <<x>>))
  /\ Overlap(x, "move")
  /\ UNCHANGED <<stock, moved, book>>

(* ALLOWED_TRANSITIONS.  Cancelling through here gives no line back.       *)
MoveOrder(t, o, to) ==
  /\ \/ book[o].status = "ORDER_PLACED" /\ to \in {"CONFIRMED", "CANCELLED"}
     \/ book[o].status = "CONFIRMED" /\ to = "CANCELLED"
  /\ Move(t, "status", o, to)

(* STATE_MACHINE, up to PROCESSING: what follows moves no stock.           *)
NextStatus(from) ==
  CASE from = "DRAFT" -> {"SUBMITTED", "CANCELLED"}
    [] from = "SUBMITTED" -> {"CONFIRMED", "CANCELLED"}
    [] from = "CONFIRMED" -> {"PROCESSING", "CANCELLED"}
    [] OTHER -> {}

MovesStock(from, to) == <<from, to>> \in {<<"SUBMITTED", "CONFIRMED">>, <<"CONFIRMED", "CANCELLED">>}

MoveBulk(t, b, to) ==
  /\ to \in NextStatus(book[b].status) /\ ~MovesStock(book[b].status, to)
  /\ Move(t, "bulk", b, to)

MoveBulkStock(t, b, to) ==
  /\ MovesStock(book[b].status, to)
  /\ Begin(t, "bulk", Job("connect", IF to = "CONFIRMED" THEN "confirm" ELSE "restore", b, to, <<b>>))
  /\ Overlap(b, "bulk")
  /\ UNCHANGED <<stock, moved, book>>

(* adjustStock, updateStock, createManualInventoryLot: one row, one        *)
(* transaction, taken as one step.                                         *)
AdjustStock(p, n) ==
  /\ "adjust" \in Requests /\ n # stock[p]
  /\ \A t \in Tasks : p \notin task[t].held
  /\ stock' = [stock EXCEPT ![p] = n]
  /\ moved' = [moved EXCEPT ![p] = @ + n - stock[p]]
  /\ UNCHANGED <<book, doubtful, task>>

-----------------------------------------------------------------------------
(* The statements of a transaction.                                        *)

GetsConnection(t, step) == At(t, step) /\ Spare

Connect(t) ==
  /\ GetsConnection(t, "connect")
  /\ Becomes(t, [task[t] EXCEPT !.at = "work"])

Row(t) == Head(task[t].todo)
Reaches(t, rows) == At(t, "work") /\ task[t].todo # <<>> /\ Row(t) \in rows /\ Free(t, Row(t))
Locks(j) == [j EXCEPT !.held = @ \cup {Head(j.todo)}, !.todo = Tail(@)]

(* idx_orders_customer_client_ref: one order per customer and ref, be it   *)
(* of another request or of another shop of this cart.                     *)
(* Mutant: no such index.                                                  *)
DuplicateNever(t) == FALSE
Duplicate(t) ==
  LET a == task[t].of IN
  /\ a \in WithRef
  /\ \/ \E o \in OrdersOf(a) : book[o].taken > 0
     \/ task[t].held \cap Shops # {}

(* The next number of the shop locks its row for the day; the order is     *)
(* inserted.                                                               *)
InsertOrder(t) ==
  /\ Reaches(t, Shops)
  /\ IF Duplicate(t) THEN Fail(t) ELSE Becomes(t, Locks(task[t]))

(* The order or the bulk order is locked, and its status is tested again,  *)
(* or not.                                                                 *)
(* Mutant: never.                                                          *)
StillAllowedAlways(t) == TRUE
StillAllowed(t) ==
  LET status == book[task[t].of].status IN
  CASE Unlocked(task[t].kind) -> TRUE
    [] task[t].kind = "shopCancel" -> status = "CONFIRMED"
    [] OTHER -> task[t].to \in NextStatus(status)

(* Nothing promises an order among the lines of an order: they share their *)
(* created_at.                                                             *)
Listings(S) == {q \in [1..Cardinality(S) -> S] : InSeq(q) = S}

LinesOf(t) ==
  LET x == task[t].of IN
  CASE task[t].kind \in {"move", "deskCancel"} -> {<<>>}
    [] task[t].kind = "restore" /\ book[x].status # "CONFIRMED" -> {<<>>}
    [] x \in Bulks -> {BulkLines[x]}
    [] OTHER -> Listings(Lines(x))

LockBook(t) ==
  /\ Reaches(t, Books)
  /\ IF ~StillAllowed(t) THEN Fail(t)
     ELSE \/ /\ task[t].kind = "cancel"
             /\ Becomes(t, [Locks(task[t]) EXCEPT !.at = "items"])
          \/ /\ task[t].kind # "cancel"
             /\ \E q \in LinesOf(t) : Becomes(t, [Locks(task[t]) EXCEPT !.todo = q])

Takes(j) == j.kind \in {"place", "confirm"}
Delta(j) == IF Takes(j) THEN -1 ELSE 1

(* Mutant: a stock may become negative.                                    *)
EnoughAlways(n) == TRUE
Enough(n) == n >= 0

(* applyStockChange, and what bulk orders do in its place.  A checkout     *)
(* that finds too little fails; a bulk order goes through its other lines  *)
(* to report them all.                                                     *)
ChangeStock(t) ==
  LET j == task[t]
      p == Row(t)
      after == stock[p] + Delta(j)
  IN
  /\ Reaches(t, Products)
  /\ CASE Enough(after) ->
            Becomes(t, [Locks(j) EXCEPT !.value[p] = after,
                                        !.at = IF j.kind = "place" THEN "warehouse" ELSE "work"])
       [] j.kind = "confirm" -> Becomes(t, [Locks(j) EXCEPT !.failed = TRUE])
       [] OTHER -> Fail(t)

(* Which batch a line came from is looked up through the pool while the    *)
(* transaction holds a connection; so are the lines of a cancelled order.  *)
FindWarehouse(t) ==
  /\ GetsConnection(t, "warehouse")
  /\ Becomes(t, [task[t] EXCEPT !.at = "work"])

GetOrderItems(t) ==
  /\ GetsConnection(t, "items")
  /\ \E q \in LinesOf(t) : Becomes(t, [task[t] EXCEPT !.at = "work", !.todo = q])

(* DB_CONNECTION_TIMEOUT.  A line can do without its batch.                *)
(* Mutant: inside a transaction a connection is awaited for ever.          *)
TimesOutConnecting(t) == At(t, "connect") /\ ~Spare
TimesOut(t) == task[t].at \in {"connect", "warehouse", "items"} /\ ~Spare

TimeOut(t) ==
  /\ TimesOut(t)
  /\ IF At(t, "warehouse") THEN Becomes(t, [task[t] EXCEPT !.at = "work"]) ELSE Fail(t)

(* PostgreSQL aborts a transaction that waits in a cycle.  Where a cancel  *)
(* catches the error of a line, COMMIT rolls the transaction back and says *)
(* so to nobody.                                                           *)
WaitsFor(t, s) == At(t, "work") /\ task[t].todo # <<>> /\ Row(t) \in task[s].held
Deadlocked(t) ==
  \E S \in SUBSET Tasks :
    /\ t \in S
    /\ \A s \in S : (\E r \in S \ {s} : WaitsFor(s, r)) /\ (\E r \in S \ {s} : WaitsFor(r, s))

DeadlockVictim(t) == Deadlocked(t) /\ Fail(t)

(* What a transaction makes of the books it is about.                     *)
Writes(j) == IF j.kind = "place" THEN OrdersOf(j.of) ELSE {j.of}
Returns(j, x) ==
  \/ j.kind \in {"cancel", "shopCancel", "deskRestore"}
  \/ j.kind = "restore" /\ book[x].status = "CONFIRMED"

Written(j, x) ==
  IF x \notin Writes(j) THEN book[x]
  ELSE [status |-> IF j.kind = "deskRestore" THEN book[x].status ELSE j.to,
        taken |-> book[x].taken + (IF Takes(j) THEN 1 ELSE 0),
        restored |-> book[x].restored + (IF Returns(j, x) THEN 1 ELSE 0)]

ReadyToCommit(t) == At(t, "work") /\ task[t].todo = <<>>

Commit(t) ==
  LET j == task[t]
      written == ~j.failed
  IN
  /\ ReadyToCommit(t)
  /\ stock' = [p \in Products |-> IF written /\ p \in j.held THEN j.value[p] ELSE stock[p]]
  /\ moved' = [p \in Products |-> IF written /\ p \in j.held THEN moved[p] + Delta(j) ELSE moved[p]]
  /\ book' = [x \in Books |-> IF written THEN Written(j, x) ELSE book[x]]
  /\ doubtful' = IF j.kind = "move" /\ j.of \in Orders /\ j.to = "CANCELLED"
                   THEN doubtful \cup {j.of} ELSE doubtful
  /\ IF j.kind = "deskCancel"
       THEN \E q \in Listings(Lines(j.of)) :
              task' = [task EXCEPT ![t] = Job("connect", "deskRestore", j.of, j.to, q)]
       ELSE task' = [task EXCEPT ![t] = Idle]

(* The process dies: what it had open is rolled back.                      *)
Crash(t) ==
  /\ "crash" \in Requests /\ task[t] # Idle
  /\ Fail(t)

-----------------------------------------------------------------------------
Arrive(t) ==
  \/ \E a \in Attempts : PlaceOrder(t, a)
  \/ \E o \in Orders : CancelOrder(t, o) \/ ShopCancel(t, o) \/ DeskCancel(t, o)
  \/ \E o \in Orders, to \in {"CONFIRMED", "CANCELLED"} : MoveOrder(t, o, to)
  \/ \E b \in Bulks, to \in {"SUBMITTED", "CONFIRMED", "PROCESSING", "CANCELLED"} :
       MoveBulk(t, b, to) \/ MoveBulkStock(t, b, to)

Step(t) ==
  \/ Connect(t) \/ InsertOrder(t) \/ LockBook(t) \/ ChangeStock(t)
  \/ FindWarehouse(t) \/ GetOrderItems(t) \/ TimeOut(t) \/ DeadlockVictim(t)
  \/ Commit(t)

Next ==
  \/ \E t \in Tasks : Arrive(t) \/ Step(t) \/ Crash(t)
  \/ \E p \in Products : \E n \in Levels[p] : AdjustStock(p, n)

Spec == Init /\ [][Next]_vars

-----------------------------------------------------------------------------
JobType ==
  [at : {"idle", "connect", "work", "warehouse", "items"},
   kind : {"none", "place", "cancel", "shopCancel", "move", "deskCancel", "deskRestore",
           "confirm", "restore"},
   of : Attempts \cup Books \cup {Nothing},
   to : {"NONE", "ORDER_PLACED", "SUBMITTED", "CONFIRMED", "PROCESSING", "CANCELLED"},
   todo : Seq(Rows), held : SUBSET Rows, value : [Products -> Nat], failed : BOOLEAN]

BookType ==
  [status : {"NONE", "ORDER_PLACED", "DRAFT", "SUBMITTED", "CONFIRMED", "PROCESSING", "CANCELLED"},
   taken : Nat, restored : Nat]

(* Values of the variables; no stock is ever negative.                     *)
TypeOK ==
  /\ stock \in [Products -> Nat]
  /\ moved \in [Products -> Int]
  /\ book \in [Books -> BookType]
  /\ doubtful \subseteq Books
  /\ task \in [Tasks -> JobType]

(* A stock is what it was at first and the sum of its changes: no change   *)
(* is lost, though each is read, computed and written by three statements. *)
StockIsSum == \A p \in Products : stock[p] = Initial + moved[p]

GivesBack(x) == \E t \in On(x) : task[t].kind = "deskRestore"

(* An order holds its lines once while it lives and not at all before and  *)
(* after, whatever fails and is repeated -- unless two requests on it      *)
(* overlapped and one of them trusted an unlocked read, or the dashboard   *)
(* cancelled it by its status, or could not give its lines back.           *)
HeldOnce ==
  \A x \in Books \ doubtful :
    book[x].taken - book[x].restored = IF Live(book[x].status) \/ GivesBack(x) THEN 1 ELSE 0

(* An attempt gets the orders of all its shops or none, and gets them once *)
(* however often its request is repeated.                                  *)
OncePerAttempt ==
  \A a \in Attempts : \E n \in {0, 1} : \A o \in OrdersOf(a) : book[o].taken = n

(* The request may go on: Step(t) is enabled.  These are the guards of its *)
(* actions, and that there is an order for the lines to be given back in.  *)
MayStep(t) ==
  \/ GetsConnection(t, "connect") \/ GetsConnection(t, "warehouse")
  \/ GetsConnection(t, "items") /\ LinesOf(t) # {}
  \/ TimesOut(t)
  \/ Reaches(t, Shops \cup Products)
  \/ Reaches(t, Books) /\ (StillAllowed(t) /\ task[t].kind # "cancel" => LinesOf(t) # {})
  \/ Deadlocked(t)
  \/ ReadyToCommit(t) /\ (task[t].kind = "deskCancel" => Listings(Lines(task[t].of)) # {})

(* Transactions that wait for rows in a circle, and hold the connections   *)
(* they wait for, never wait for each other for ever: some request can go  *)
(* on, and each step brings it closer to its end.                          *)
NoStandstill == (\A t \in Tasks : task[t] = Idle) \/ (\E t \in Tasks : MayStep(t))
=============================================================================

-------------------------- MODULE ShopStockProofs --------------------------
(***************************************************************************)
(* Safety of ShopStock for any number of shops, products, carts, bulk      *)
(* orders and requests.  StateInv says what a request may hold and has to  *)
(* do, LockInv that what it will write is right, PlaceInv that a checkout  *)
(* is alone with the orders it will write, BookInv what a request knows of *)
(* the status of the book it holds or read.                                *)
(***************************************************************************)
EXTENDS ShopStock, FiniteSetTheorems, TLAPS

CancelKinds == {"cancel", "shopCancel", "deskCancel", "deskRestore"}
LockingKinds == {"cancel", "shopCancel", "deskCancel", "move", "confirm", "restore"}

(* What a job is about, and the rows it has locked or will lock.           *)
JobOK(j) ==
  /\ j.kind = "none" \/ j.at = "idle" => j = Idle
  /\ j.at = "items" => j.kind = "cancel" /\ j.of \in j.held
  /\ j.kind = "place" => /\ j.of \in Attempts /\ j.to = "ORDER_PLACED"
                         /\ j.held \cup InSeq(j.todo) = InSeq(Cart[j.of])
  /\ j.kind \in CancelKinds => j.of \in Orders /\ j.to = "CANCELLED"
  /\ j.kind = "confirm" => j.of \in Bulks /\ j.to = "CONFIRMED"
  /\ j.kind = "restore" => j.of \in Bulks /\ j.to = "CANCELLED"
  /\ j.kind = "move" => /\ j.of \in Books
                        /\ j.of \in Orders => j.to \in {"CONFIRMED", "CANCELLED"}
                        /\ j.of \in Bulks => j.to \in {"SUBMITTED", "PROCESSING", "CANCELLED"}
  /\ j.failed => j.kind = "confirm"
  /\ j.kind \in LockingKinds => j.of \in j.held \/ j.todo = <<j.of>>

StateInv == TypeOK /\ \A t \in Tasks : JobOK(task[t])

(* Nobody but its holder has locked a row, and the value it will write     *)
(* there is one more or one less than the stock.                           *)
LockInv ==
  /\ \A s, t \in Tasks : s # t => task[s].held \cap task[t].held = {}
  /\ \A t \in Tasks : ~task[t].failed =>
       \A p \in task[t].held \cap Products : task[t].value[p] = stock[p] + Delta(task[t])
  /\ StockIsSum

-----------------------------------------------------------------------------
(* Sequences of rows.                                                      *)

(* What is left of a sequence and its first row are its rows.              *)
LEMMA RowsOfTail ==
  ASSUME NEW S, NEW q \in Seq(S), q # <<>>
  PROVE  /\ Head(q) \in S /\ Tail(q) \in Seq(S)
         /\ InSeq(q) = {Head(q)} \cup InSeq(Tail(q))
<1>1. /\ Head(q) \in S /\ Tail(q) \in Seq(S)
      /\ Len(q) \in Nat \ {0} /\ DOMAIN q = 1..Len(q) /\ Head(q) = q[1]
      /\ DOMAIN Tail(q) = 1..(Len(q) - 1)
      /\ \A i \in 1..(Len(q) - 1) : Tail(q)[i] = q[i + 1]
  OBVIOUS
<1>2. \A x \in InSeq(q) : x \in {Head(q)} \cup InSeq(Tail(q))
  <2>1. SUFFICES ASSUME NEW i \in DOMAIN q PROVE q[i] \in {Head(q)} \cup InSeq(Tail(q))
    BY DEF InSeq
  <2>2. CASE i = 1 BY <1>1, <2>2
  <2>3. CASE i # 1
    <3>1. i - 1 \in 1..(Len(q) - 1) /\ i = (i - 1) + 1 BY <1>1, <2>3
    <3>2. Tail(q)[i - 1] = q[i] BY <1>1, <3>1
    <3> QED BY <1>1, <3>1, <3>2 DEF InSeq
  <2> QED BY <2>2, <2>3
<1>3. \A x \in {Head(q)} \cup InSeq(Tail(q)) : x \in InSeq(q)
  <2>1. Head(q) \in InSeq(q) BY <1>1 DEF InSeq
  <2>2. ASSUME NEW i \in DOMAIN Tail(q) PROVE Tail(q)[i] \in InSeq(q)
    <3>1. i + 1 \in DOMAIN q /\ Tail(q)[i] = q[i + 1] BY <1>1
    <3> QED BY <3>1 DEF InSeq
  <2> QED BY <2>1, <2>2 DEF InSeq
<1> QED BY <1>1, <1>2, <1>3

(* The rows of a sequence over S are in S, and finitely many.              *)
LEMMA RowsOfSeq ==
  ASSUME NEW S, NEW q \in Seq(S)
  PROVE  InSeq(q) \subseteq S /\ IsFiniteSet(InSeq(q))
<1>1. Len(q) \in Nat /\ DOMAIN q = 1..Len(q) /\ q \in [1..Len(q) -> S] OBVIOUS
<1>2. InSeq(q) \subseteq S BY <1>1 DEF InSeq
<1>3. q \in [1..Len(q) -> InSeq(q)] BY <1>1 DEF InSeq
<1>4. \A x \in InSeq(q) : \E i \in 1..Len(q) : q[i] = x BY <1>1 DEF InSeq
<1>5. q \in Surjection(1..Len(q), InSeq(q)) BY <1>3, <1>4 DEF Surjection
<1>6. IsFiniteSet(1..Len(q)) BY <1>1, FS_Interval
<1> QED BY <1>2, <1>5, <1>6, FS_Surjection

(* An order has finitely many lines, and a listing of them is a sequence   *)
(* of products.                                                            *)
LEMMA ListingsOfLines ==
  ASSUME ConstantsAssumption, NEW o \in Orders
  PROVE  Listings(Lines(o)) \subseteq Seq(Products)
<1>1. o[1] \in Attempts /\ Cart[o[1]] \in Seq(Shops \cup Products)
  BY DEF Orders, ConstantsAssumption
<1>2. Lines(o) \subseteq InSeq(Cart[o[1]]) /\ Lines(o) \subseteq Products BY DEF Lines
<1>3. IsFiniteSet(Lines(o)) BY <1>1, <1>2, RowsOfSeq, FS_Subset
<1>4. Cardinality(Lines(o)) \in Nat BY <1>3, FS_CardinalityType
<1>5. [1..Cardinality(Lines(o)) -> Products] \subseteq Seq(Products) BY <1>4
<1> QED BY <1>2, <1>5 DEF Listings

-----------------------------------------------------------------------------
(* What the actions have in common: a request arrives, or its transaction  *)
(* goes on without a lock, or locks a shop's number, a book or a product.  *)

Decided(j) ==
  LET status == book[j.of].status IN
  \/ /\ j.of \in Orders /\ j.to = "CANCELLED"
     /\ \/ j.kind = "cancel" /\ status \notin {"NONE", "CANCELLED"}
        \/ j.kind = "shopCancel" /\ status # "NONE"
        \/ j.kind = "deskCancel" /\ status \in {"ORDER_PLACED", "CONFIRMED"}
  \/ /\ j.of \in Orders /\ j.kind = "move"
     /\ status \in {"ORDER_PLACED", "CONFIRMED"} /\ j.to \in {"CONFIRMED", "CANCELLED"}
  \/ /\ j.of \in Bulks /\ j.kind = "move" /\ j.to \in {"SUBMITTED", "PROCESSING", "CANCELLED"}
     /\ j.to \in NextStatus(status) /\ ~MovesStock(status, j.to)
  \/ j.of \in Bulks /\ j.kind = "confirm" /\ j.to = "CONFIRMED"
  \/ j.of \in Bulks /\ j.kind = "restore" /\ j.to = "CANCELLED"

ArrivesToPlace(j) ==
  /\ j.kind = "place" /\ j.of \in Attempts /\ j.to = "ORDER_PLACED" /\ j.todo = Cart[j.of]
  /\ \A o \in OrdersOf(j.of) : book[o].taken = 0
  /\ j.of \notin WithRef => On(j.of) = {}
  /\ UNCHANGED doubtful

ArrivesToChange(j) ==
  /\ j.kind \in LockingKinds /\ j.of \in Books /\ j.todo = <<j.of>>
  /\ Decided(j)
  /\ doubtful' = IF \E s \in On(j.of) : Unlocked(j.kind) \/ Unlocked(task[s].kind)
                   THEN doubtful \cup {j.of} ELSE doubtful

Arrival(t, j) ==
  /\ task[t] = Idle /\ task' = [task EXCEPT ![t] = j]
  /\ UNCHANGED <<stock, moved, book>>
  /\ j \in JobType /\ j.at = "connect" /\ j.held = {} /\ ~j.failed
  /\ ArrivesToPlace(j) \/ ArrivesToChange(j)

Same(t, j) == j.kind = task[t].kind /\ j.of = task[t].of /\ j.to = task[t].to

GoesOn(t, j) ==
  /\ j.held = task[t].held /\ j.value = task[t].value /\ j.failed = task[t].failed
  /\ j.todo = task[t].todo \/ task[t].at = "items"

LocksShop(t, j) ==
  /\ Row(t) \in Shops /\ ~Duplicate(t)
  /\ j.todo = Tail(task[t].todo)
  /\ j.value = task[t].value /\ j.failed = task[t].failed

LocksBook(t, j) ==
  /\ Row(t) \in Books /\ StillAllowed(t)
  /\ j.value = task[t].value /\ j.failed = task[t].failed

LocksProduct(t, j) ==
  /\ Row(t) \in Products /\ j.todo = Tail(task[t].todo)
  /\ \/ /\ j.value = [task[t].value EXCEPT ![Row(t)] = stock[Row(t)] + Delta(task[t])]
        /\ j.failed = task[t].failed
     \/ task[t].kind = "confirm" /\ j.failed

Locking(t, j) ==
  /\ task[t].todo # <<>> /\ Free(t, Row(t))
  /\ j.held = task[t].held \cup {Row(t)}
  /\ LocksShop(t, j) \/ LocksBook(t, j) \/ LocksProduct(t, j)

Statement(t, j) ==
  /\ Becomes(t, j) /\ j \in JobType /\ Same(t, j) /\ task[t].at # "idle" /\ j.at # "idle"
  /\ j.at = "items" => j.kind = "cancel" /\ Locking(t, j)
  /\ GoesOn(t, j) \/ Locking(t, j)

(* A request that arrives.                                                 *)
LEMMA ArriveIs ==
  ASSUME ConstantsAssumption, TypeOK, NEW t \in Tasks, Arrive(t)
  PROVE  \E j : Arrival(t, j)
<1> USE DEF Begin, Job, JobType, Rows, LockingKinds
<1>0. /\ [p \in Products |-> 0] \in [Products -> Nat]
      /\ \A x \in Books : <<x>> \in Seq(Rows) /\ x \in Books
      /\ Orders \subseteq Books /\ Bulks \subseteq Books
  BY DEF Books
<1>1. ASSUME NEW a \in Attempts, PlaceOrder(t, a) PROVE \E j : Arrival(t, j)
  <2>1. Cart[a] \in Seq(Rows)
    <3>1. Cart[a] \in Seq(Shops \cup Products) BY DEF ConstantsAssumption
    <3> QED BY <3>1
  <2> DEFINE j == Job("connect", "place", a, "ORDER_PLACED", Cart[a])
  <2>2. j \in JobType BY <1>0, <2>1
  <2>3. ArrivesToPlace(j) BY <1>1 DEF PlaceOrder, ArrivesToPlace
  <2>4. Arrival(t, j) BY <1>1, <2>2, <2>3 DEF PlaceOrder, Arrival
  <2> QED BY <2>4
<1>2. ASSUME NEW o \in Orders, CancelOrder(t, o) PROVE \E j : Arrival(t, j)
  <2> DEFINE j == Job("connect", "cancel", o, "CANCELLED", <<o>>)
  <2>1. j \in JobType BY <1>0
  <2>2. ArrivesToChange(j) BY <1>0, <1>2 DEF CancelOrder, Overlap, ArrivesToChange, Decided
  <2>3. Arrival(t, j) BY <1>2, <2>1, <2>2 DEF CancelOrder, Arrival
  <2> QED BY <2>3
<1>3. ASSUME NEW o \in Orders, ShopCancel(t, o) PROVE \E j : Arrival(t, j)
  <2> DEFINE j == Job("connect", "shopCancel", o, "CANCELLED", <<o>>)
  <2>1. j \in JobType BY <1>0
  <2>2. ArrivesToChange(j) BY <1>0, <1>3 DEF ShopCancel, Overlap, ArrivesToChange, Decided
  <2>3. Arrival(t, j) BY <1>3, <2>1, <2>2 DEF ShopCancel, Arrival
  <2> QED BY <2>3
<1>4. ASSUME NEW o \in Orders, DeskCancel(t, o) PROVE \E j : Arrival(t, j)
  <2> DEFINE j == Job("connect", "deskCancel", o, "CANCELLED", <<o>>)
  <2>1. j \in JobType BY <1>0
  <2>2. ArrivesToChange(j) BY <1>0, <1>4 DEF DeskCancel, Overlap, ArrivesToChange, Decided
  <2>3. Arrival(t, j) BY <1>4, <2>1, <2>2 DEF DeskCancel, Arrival
  <2> QED BY <2>3
<1>5. ASSUME NEW o \in Orders, NEW to \in {"CONFIRMED", "CANCELLED"}, MoveOrder(t, o, to)
      PROVE  \E j : Arrival(t, j)
  <2> DEFINE j == Job("connect", "move", o, to, <<o>>)
  <2>1. j \in JobType BY <1>0
  <2>2. ArrivesToChange(j) BY <1>0, <1>5 DEF MoveOrder, Move, Overlap, ArrivesToChange, Decided
  <2>3. Arrival(t, j) BY <1>5, <2>1, <2>2 DEF MoveOrder, Move, Arrival
  <2> QED BY <2>3
<1>6. ASSUME NEW b \in Bulks, NEW to \in {"SUBMITTED", "CONFIRMED", "PROCESSING", "CANCELLED"},
             MoveBulk(t, b, to)
      PROVE  \E j : Arrival(t, j)
  <2> DEFINE j == Job("connect", "move", b, to, <<b>>)
  <2>1. j \in JobType BY <1>0
  <2>2. to # "CONFIRMED" BY <1>6 DEF MoveBulk, NextStatus, MovesStock
  <2>3. ArrivesToChange(j) BY <1>0, <1>6, <2>2 DEF MoveBulk, Move, Overlap, ArrivesToChange, Decided
  <2>4. Arrival(t, j) BY <1>6, <2>1, <2>3 DEF MoveBulk, Move, Arrival
  <2> QED BY <2>4
<1>7. ASSUME NEW b \in Bulks, NEW to \in {"SUBMITTED", "CONFIRMED", "PROCESSING", "CANCELLED"},
             MoveBulkStock(t, b, to)
      PROVE  \E j : Arrival(t, j)
  <2> DEFINE j == Job("connect", IF to = "CONFIRMED" THEN "confirm" ELSE "restore", b, to, <<b>>)
  <2>1. to \in {"CONFIRMED", "CANCELLED"} BY <1>7 DEF MoveBulkStock, MovesStock
  <2>2. j \in JobType BY <1>0
  <2>3. ~Unlocked("bulk") /\ ~Unlocked(j.kind) BY DEF Unlocked
  <2>4. ArrivesToChange(j)
    BY <1>0, <1>7, <2>1, <2>3 DEF MoveBulkStock, Overlap, ArrivesToChange, Decided
  <2>5. Arrival(t, j) BY <1>7, <2>2, <2>4 DEF MoveBulkStock, Arrival
  <2> QED BY <2>5
<1> QED BY <1>1, <1>2, <1>3, <1>4, <1>5, <1>6, <1>7 DEF Arrive

(* The rows that a transaction looks up are rows of products.              *)
LEMMA LinesAreProducts ==
  ASSUME ConstantsAssumption, StateInv, NEW t \in Tasks,
         task[t].kind # "none", task[t].kind # "place"
  PROVE  LinesOf(t) \subseteq Seq(Rows)
<1>1. JobOK(task[t]) /\ task[t] \in JobType BY DEF StateInv, TypeOK
<1>2. task[t].kind \in CancelKinds \cup {"confirm", "restore", "move"}
  BY <1>1 DEF JobType, CancelKinds
<1>3. task[t].of \in Books BY <1>1, <1>2 DEF JobOK, Books
<1>4. <<>> \in Seq(Rows) OBVIOUS
<1>5. task[t].of \in Bulks => BulkLines[task[t].of] \in Seq(Rows)
  <2>1. task[t].of \in Bulks => BulkLines[task[t].of] \in Seq(Products) BY DEF ConstantsAssumption
  <2> QED BY <2>1 DEF Rows
<1>6. task[t].of \notin Bulks => Listings(Lines(task[t].of)) \subseteq Seq(Rows)
  <2>1. task[t].of \notin Bulks => Listings(Lines(task[t].of)) \subseteq Seq(Products)
    BY <1>3, ListingsOfLines DEF Books
  <2>2. Seq(Products) \subseteq Seq(Rows) BY DEF Rows
  <2> QED BY <2>1, <2>2
<1> QED BY <1>4, <1>5, <1>6 DEF LinesOf

(* A step of a transaction.                                                *)
LEMMA StepIs ==
  ASSUME ConstantsAssumption, StateInv, NEW t \in Tasks, Step(t)
  PROVE  (\E j : Statement(t, j)) \/ Fail(t) \/ Commit(t)
<1>0. task[t] \in JobType /\ JobOK(task[t]) BY DEF StateInv, TypeOK
<1>1. CASE Connect(t)
  <2> DEFINE j == [task[t] EXCEPT !.at = "work"]
  <2>1. Statement(t, j)
    BY <1>0, <1>1 DEF Connect, GetsConnection, At, Statement, Same, GoesOn, JobType, Becomes
  <2> QED BY <2>1
<1>2. CASE InsertOrder(t) /\ ~Fail(t)
  <2> DEFINE j == Locks(task[t])
  <2>1. /\ task[t].at = "work" /\ task[t].todo # <<>> /\ Row(t) \in Shops /\ Free(t, Row(t))
        /\ ~Duplicate(t) /\ Becomes(t, j)
    BY <1>2 DEF InsertOrder, Reaches, At
  <2>2. Row(t) \in Rows /\ Tail(task[t].todo) \in Seq(Rows)
    BY <1>0, <2>1, RowsOfTail DEF JobType, Row
  <2>3. j \in JobType BY <1>0, <2>2 DEF Locks, Row, JobType
  <2>4. Locking(t, j) BY <1>0, <2>1 DEF Locks, Locking, LocksShop, Row, JobType
  <2>5. Statement(t, j) BY <1>0, <2>1, <2>3, <2>4 DEF Statement, Same, Locks, JobType
  <2> QED BY <2>5
<1>3. CASE LockBook(t) /\ ~Fail(t)
  <2>1. /\ task[t].at = "work" /\ task[t].todo # <<>> /\ Row(t) \in Books /\ Free(t, Row(t))
        /\ StillAllowed(t)
    BY <1>3 DEF LockBook, Reaches, At
  <2>2. Row(t) \in Rows /\ Tail(task[t].todo) \in Seq(Rows)
    BY <1>0, <2>1, RowsOfTail DEF JobType, Row
  <2>3. task[t].kind # "none" BY <1>0, <2>1 DEF JobOK, Idle, Job
  <2>4. task[t].kind # "place"
    <3>1. SUFFICES ASSUME task[t].kind = "place" PROVE FALSE OBVIOUS
    <3>2. Row(t) \in InSeq(task[t].todo) BY <1>0, <2>1, RowsOfTail DEF JobType, Row
    <3>3. task[t].of \in Attempts /\ Row(t) \in InSeq(Cart[task[t].of])
      BY <1>0, <3>1, <3>2 DEF JobOK
    <3>4. Cart[task[t].of] \in Seq(Shops \cup Products) BY <3>3 DEF ConstantsAssumption
    <3>5. Row(t) \in Shops \cup Products BY <3>3, <3>4, RowsOfSeq
    <3> QED BY <2>1, <3>5 DEF ConstantsAssumption
  <2>5. LinesOf(t) \subseteq Seq(Rows) BY <2>3, <2>4, LinesAreProducts
  <2>6. CASE task[t].kind = "cancel" /\ Becomes(t, [Locks(task[t]) EXCEPT !.at = "items"])
    <3> DEFINE j == [Locks(task[t]) EXCEPT !.at = "items"]
    <3>1. j \in JobType BY <1>0, <2>2 DEF Locks, Row, JobType
    <3>2. Locking(t, j) BY <1>0, <2>1 DEF Locks, Locking, LocksBook, Row, JobType
    <3>3. Statement(t, j) BY <1>0, <2>1, <2>6, <3>1, <3>2 DEF Statement, Same, Locks, JobType
    <3> QED BY <3>3
  <2>7. ASSUME NEW q \in LinesOf(t), Becomes(t, [Locks(task[t]) EXCEPT !.todo = q])
        PROVE  \E j : Statement(t, j)
    <3> DEFINE j == [Locks(task[t]) EXCEPT !.todo = q]
    <3>1. j \in JobType BY <1>0, <2>2, <2>5 DEF Locks, Row, JobType
    <3>2. Locking(t, j) BY <1>0, <2>1 DEF Locks, Locking, LocksBook, Row, JobType
    <3>3. Statement(t, j) BY <1>0, <2>1, <2>7, <3>1, <3>2 DEF Statement, Same, Locks, JobType
    <3> QED BY <3>3
  <2>8. \/ task[t].kind = "cancel" /\ Becomes(t, [Locks(task[t]) EXCEPT !.at = "items"])
        \/ \E q \in LinesOf(t) : Becomes(t, [Locks(task[t]) EXCEPT !.todo = q])
    BY <1>3, <2>1 DEF LockBook
  <2> QED BY <2>6, <2>7, <2>8
<1>4. CASE ChangeStock(t) /\ ~Fail(t)
  <2> DEFINE p == Row(t)
             after == stock[p] + Delta(task[t])
             taken == [Locks(task[t]) EXCEPT !.value[p] = after,
                         !.at = IF task[t].kind = "place" THEN "warehouse" ELSE "work"]
             short == [Locks(task[t]) EXCEPT !.failed = TRUE]
  <2>1. task[t].at = "work" /\ task[t].todo # <<>> /\ p \in Products /\ Free(t, p)
    BY <1>4 DEF ChangeStock, Reaches, At
  <2>2. p \in Rows /\ Tail(task[t].todo) \in Seq(Rows)
    BY <1>0, <2>1, RowsOfTail DEF JobType, Row
  <2>3. \/ Enough(after) /\ Becomes(t, taken)
        \/ task[t].kind = "confirm" /\ Becomes(t, short)
    BY <1>4 DEF ChangeStock
  <2>4. CASE Enough(after) /\ Becomes(t, taken)
    <3>0. stock[p] \in Nat /\ Delta(task[t]) \in Int BY <2>1 DEF StateInv, TypeOK, Delta
    <3>1. after \in Nat BY <2>4, <3>0 DEF Enough
    <3>2. taken \in JobType BY <1>0, <2>1, <2>2, <3>1 DEF Locks, Row, JobType
    <3>3. Locking(t, taken) BY <1>0, <2>1 DEF Locks, Locking, LocksProduct, Row, JobType
    <3>4. Statement(t, taken) BY <1>0, <2>1, <2>4, <3>2, <3>3 DEF Statement, Same, Locks, JobType
    <3> QED BY <3>4
  <2>5. CASE task[t].kind = "confirm" /\ Becomes(t, short)
    <3>1. short \in JobType BY <1>0, <2>2 DEF Locks, Row, JobType
    <3>2. Locking(t, short) BY <1>0, <2>1, <2>5 DEF Locks, Locking, LocksProduct, Row, JobType
    <3>3. Statement(t, short) BY <1>0, <2>1, <2>5, <3>1, <3>2 DEF Statement, Same, Locks, JobType
    <3> QED BY <3>3
  <2> QED BY <2>3, <2>4, <2>5
<1>5. CASE FindWarehouse(t) \/ (TimeOut(t) /\ ~Fail(t))
  <2> DEFINE j == [task[t] EXCEPT !.at = "work"]
  <2>1. task[t].at = "warehouse" /\ Becomes(t, j) BY <1>5 DEF FindWarehouse, GetsConnection, TimeOut, At
  <2>2. Statement(t, j) BY <1>0, <2>1 DEF Statement, Same, GoesOn, JobType
  <2> QED BY <2>2
<1>6. CASE GetOrderItems(t)
  <2>1. PICK q \in LinesOf(t) : Becomes(t, [task[t] EXCEPT !.at = "work", !.todo = q])
    BY <1>6 DEF GetOrderItems
  <2>2. task[t].at = "items" /\ task[t].kind = "cancel" BY <1>0, <1>6 DEF GetOrderItems, GetsConnection, At, JobOK
  <2> DEFINE j == [task[t] EXCEPT !.at = "work", !.todo = q]
  <2>3. q \in Seq(Rows) BY <2>1, <2>2, LinesAreProducts
  <2>4. j \in JobType BY <1>0, <2>3 DEF JobType
  <2>5. Statement(t, j) BY <1>0, <2>1, <2>2, <2>4 DEF Statement, Same, GoesOn, JobType
  <2> QED BY <2>5
<1>7. CASE DeadlockVictim(t) BY <1>7 DEF DeadlockVictim
<1> QED BY <1>1, <1>2, <1>3, <1>4, <1>5, <1>6, <1>7 DEF Step

-----------------------------------------------------------------------------
(* Types, and what a job is about.                                         *)

LEMMA IdleOK == Idle \in JobType /\ JobOK(Idle)
<1>1. <<>> \in Seq(Rows) /\ [p \in Products |-> 0] \in [Products -> Nat] OBVIOUS
<1> QED BY <1>1 DEF Idle, Job, JobType, JobOK, CancelKinds, LockingKinds

(* A request that arrives is in order.                                     *)
LEMMA ArrivalOK ==
  ASSUME ConstantsAssumption, NEW t \in Tasks, NEW j, Arrival(t, j)
  PROVE  JobOK(j)
<1>1. CASE ArrivesToPlace(j)
  BY <1>1 DEF Arrival, ArrivesToPlace, JobOK, CancelKinds, LockingKinds
<1>2. CASE ArrivesToChange(j)
  <2>1. Orders \cap Bulks = {} BY DEF ConstantsAssumption
  <2> QED BY <1>2, <2>1 DEF Arrival, ArrivesToChange, Decided, JobOK, CancelKinds, LockingKinds, Books
<1> QED BY <1>1, <1>2 DEF Arrival

(* A statement leaves its request in order.                                *)
LEMMA StatementOK ==
  ASSUME ConstantsAssumption, StateInv, NEW t \in Tasks, NEW j, Statement(t, j)
  PROVE  JobOK(j)
<1>0. /\ task[t] \in JobType /\ JobOK(task[t]) /\ j \in JobType /\ Same(t, j)
      /\ task[t].at # "idle" /\ j.at # "idle" /\ (j.at = "items" => j.kind = "cancel" /\ Locking(t, j))
  BY DEF StateInv, TypeOK, Statement
<1>1. j.kind # "none" BY <1>0 DEF Same, JobOK, Idle, Job
<1>2. ASSUME Locking(t, j)
      PROVE  /\ InSeq(task[t].todo) = {Row(t)} \cup InSeq(Tail(task[t].todo))
             /\ task[t].todo = <<task[t].of>> => Row(t) = task[t].of
  <2>1. task[t].todo \in Seq(Rows) /\ task[t].todo # <<>> BY <1>0, <1>2 DEF Locking, JobType
  <2> QED BY <2>1, RowsOfTail DEF Row
<1>3. ASSUME j.kind = "place"
      PROVE  /\ j.of \in Attempts /\ j.to = "ORDER_PLACED"
             /\ j.held \cup InSeq(j.todo) = InSeq(Cart[j.of])
  <2>1. /\ task[t].of \in Attempts /\ task[t].of = j.of /\ j.to = "ORDER_PLACED"
        /\ task[t].held \cup InSeq(task[t].todo) = InSeq(Cart[j.of]) /\ task[t].at # "items"
    BY <1>0, <1>3 DEF JobOK, Same
  <2>2. CASE GoesOn(t, j) BY <2>1, <2>2 DEF GoesOn
  <2>3. CASE Locking(t, j)
    <3>1. Row(t) \in Shops \cup Products
      <4>1. Cart[j.of] \in Seq(Shops \cup Products) BY <2>1 DEF ConstantsAssumption
      <4> QED BY <1>2, <2>1, <2>3, <4>1, RowsOfSeq
    <3>2. Row(t) \notin Books BY <3>1 DEF ConstantsAssumption
    <3>3. j.todo = Tail(task[t].todo) /\ j.held = task[t].held \cup {Row(t)}
      BY <2>3, <3>2 DEF Locking, LocksShop, LocksBook, LocksProduct
    <3> QED BY <1>2, <2>1, <2>3, <3>3
  <2> QED BY <2>2, <2>3 DEF Statement
<1>4. j.failed => j.kind = "confirm"
  BY <1>0 DEF Statement, GoesOn, Locking, LocksShop, LocksBook, LocksProduct, JobOK, Same
<1>5. ASSUME j.kind \in LockingKinds PROVE j.of \in j.held \/ j.todo = <<j.of>>
  <2>1. /\ task[t].of = j.of /\ task[t].kind = j.kind
        /\ j.of \in task[t].held \/ task[t].todo = <<j.of>>
    BY <1>0, <1>5 DEF JobOK, Same
  <2>2. CASE GoesOn(t, j) /\ task[t].at # "items" BY <2>1, <2>2 DEF GoesOn
  <2>3. CASE Locking(t, j) BY <1>2, <2>1, <2>3 DEF Locking
  <2>4. CASE GoesOn(t, j) /\ task[t].at = "items" BY <1>0, <2>1, <2>4 DEF GoesOn, JobOK
  <2> QED BY <2>2, <2>3, <2>4 DEF Statement
<1>6. j.at = "items" => j.of \in j.held
  <2>1. SUFFICES ASSUME j.at = "items" PROVE j.of \in j.held OBVIOUS
  <2>2. /\ task[t].of = j.of /\ task[t].kind = "cancel" /\ Locking(t, j)
        /\ j.of \in task[t].held \/ task[t].todo = <<j.of>>
    BY <1>0, <2>1 DEF JobOK, Same, LockingKinds
  <2> QED BY <1>2, <2>2 DEF Locking
<1> QED BY <1>0, <1>1, <1>3, <1>4, <1>5, <1>6 DEF JobOK, Same, CancelKinds

(* One request moves, the others stay as they are.                         *)
LEMMA OneMoves ==
  ASSUME StateInv, NEW t \in Tasks, NEW j \in JobType, JobOK(j),
         task' = [task EXCEPT ![t] = j]
  PROVE  /\ task' \in [Tasks -> JobType]
         /\ task'[t] = j
         /\ \A s \in Tasks : s # t => task'[s] = task[s]
         /\ \A s \in Tasks : JobOK(task[s]) /\ JobOK(task'[s])
BY DEF StateInv, TypeOK

(* A job that is ready to commit holds its book; one of no kind is idle.   *)
LEMMA ReadyJob ==
  ASSUME StateInv, NEW t \in Tasks, Commit(t)
  PROVE  /\ task[t].kind # "none"
         /\ task[t].kind \in LockingKinds => task[t].of \in task[t].held
         /\ task[t].kind = "place" => /\ task[t].of \in Attempts
                                      /\ task[t].held = InSeq(Cart[task[t].of])
<1>1. JobOK(task[t]) /\ task[t].at = "work" /\ task[t].todo = <<>>
  BY DEF StateInv, Commit, ReadyToCommit, At
<1>2. InSeq(<<>>) = {} BY DEF InSeq
<1>3. Idle.at = "idle" BY DEF Idle, Job
<1>4. task[t].todo # <<task[t].of>> BY <1>1
<1> QED BY <1>1, <1>2, <1>3, <1>4 DEF JobOK

(* What follows a commit: nothing, or the second transaction of a cancel   *)
(* from the dashboard.                                                     *)
LEMMA NextJob ==
  ASSUME ConstantsAssumption, StateInv, NEW t \in Tasks, Commit(t)
  PROVE  \E j \in JobType :
           /\ JobOK(j) /\ task' = [task EXCEPT ![t] = j] /\ j.held = {} /\ ~j.failed
           /\ task[t].kind # "deskCancel" => j = Idle
           /\ task[t].kind = "deskCancel" => /\ j.kind = "deskRestore" /\ j.of = task[t].of
                                             /\ j.of \in Orders
<1>1. CASE task[t].kind # "deskCancel"
  <2>1. task' = [task EXCEPT ![t] = Idle] BY <1>1 DEF Commit
  <2>2. Idle.held = {} /\ ~Idle.failed BY DEF Idle, Job
  <2> QED BY <1>1, <2>1, <2>2, IdleOK
<1>2. CASE task[t].kind = "deskCancel"
  <2>1. task[t].of \in Orders /\ task[t].to = "CANCELLED"
    BY <1>2 DEF StateInv, JobOK, CancelKinds
  <2>2. PICK q \in Listings(Lines(task[t].of)) :
          task' = [task EXCEPT ![t] = Job("connect", "deskRestore", task[t].of, task[t].to, q)]
    BY <1>2 DEF Commit
  <2> DEFINE j == Job("connect", "deskRestore", task[t].of, task[t].to, q)
  <2>3. q \in Seq(Rows)
    <3>1. q \in Seq(Products) BY <2>1, <2>2, ListingsOfLines
    <3> QED BY <3>1 DEF Rows
  <2>4. j \in JobType BY <2>1, <2>3 DEF Job, JobType, Books
  <2>5. JobOK(j) BY <2>1 DEF Job, JobOK, CancelKinds, LockingKinds
  <2> QED BY <1>2, <2>1, <2>2, <2>4, <2>5 DEF Job
<1> QED BY <1>1, <1>2

(* What a commit writes to a book is a book.                               *)
LEMMA WrittenIsABook ==
  ASSUME ConstantsAssumption, StateInv, NEW t \in Tasks, Commit(t), NEW x \in Books
  PROVE  Written(task[t], x) \in BookType
<1>1. book[x] \in BookType /\ task[t] \in JobType /\ JobOK(task[t]) /\ task[t].kind # "none"
  BY ReadyJob DEF StateInv, TypeOK
<1>2. x \in Writes(task[t]) =>
        task[t].to \in {"ORDER_PLACED", "SUBMITTED", "CONFIRMED", "PROCESSING", "CANCELLED"}
  <2>1. task[t].kind = "place" => task[t].to = "ORDER_PLACED"
    BY <1>1 DEF JobOK
  <2> QED BY <1>1, <2>1 DEF JobOK, JobType, CancelKinds, Books
<1>3. /\ book[x].taken + (IF Takes(task[t]) THEN 1 ELSE 0) \in Nat
      /\ book[x].restored + (IF Returns(task[t], x) THEN 1 ELSE 0) \in Nat
  BY <1>1 DEF BookType
<1> QED BY <1>1, <1>2, <1>3 DEF Written, BookType

(* The type invariant, and the jobs, are inductive.                        *)
LEMMA StateInvInit == ASSUME ConstantsAssumption, Init PROVE StateInv
<1>1. stock \in [Products -> Nat] BY DEF Init, ConstantsAssumption
<1>2. book \in [Books -> BookType] BY DEF Init, BookType
<1>3. task \in [Tasks -> JobType] /\ \A t \in Tasks : JobOK(task[t]) BY IdleOK DEF Init
<1> QED BY <1>1, <1>2, <1>3 DEF Init, StateInv, TypeOK

LEMMA StateInvNext ==
  ASSUME ConstantsAssumption, StateInv, [Next]_vars
  PROVE  StateInv'
<1>1. ASSUME NEW t \in Tasks, NEW j, Arrival(t, j) PROVE StateInv'
  <2>1. j \in JobType /\ JobOK(j) BY <1>1, ArrivalOK DEF Arrival
  <2>2. doubtful' \subseteq Books
    BY <1>1 DEF StateInv, TypeOK, Arrival, ArrivesToPlace, ArrivesToChange
  <2> QED BY <1>1, <2>1, <2>2, OneMoves DEF Arrival, StateInv, TypeOK
<1>2. ASSUME NEW t \in Tasks, NEW j, Statement(t, j) PROVE StateInv'
  <2>1. j \in JobType /\ JobOK(j) BY <1>2, StatementOK DEF Statement
  <2> QED BY <1>2, <2>1, OneMoves DEF Statement, Becomes, StateInv, TypeOK
<1>3. ASSUME NEW t \in Tasks, Fail(t) PROVE StateInv'
  <2>1. task[t].kind = "deskRestore" => task[t].of \in Books
    BY DEF StateInv, JobOK, CancelKinds, Books
  <2>2. doubtful' \subseteq Books BY <1>3, <2>1 DEF Fail, StateInv, TypeOK
  <2> QED BY <1>3, <2>2, IdleOK, OneMoves DEF Fail, StateInv, TypeOK
<1>4. ASSUME NEW t \in Tasks, Commit(t) PROVE StateInv'
  <2>1. PICK j \in JobType : JobOK(j) /\ task' = [task EXCEPT ![t] = j] BY <1>4, NextJob
  <2>2. task' \in [Tasks -> JobType] /\ \A s \in Tasks : JobOK(task'[s]) BY <2>1, OneMoves
  <2>3. stock' \in [Products -> Nat]
    BY <1>4 DEF Commit, StateInv, TypeOK, JobType
  <2>4. moved' \in [Products -> Int]
    <3>1. Delta(task[t]) \in Int BY DEF Delta
    <3> QED BY <1>4, <3>1 DEF Commit, StateInv, TypeOK
  <2>5. book' \in [Books -> BookType]
    BY <1>4, WrittenIsABook DEF Commit, StateInv, TypeOK
  <2>6. doubtful' \subseteq Books BY <1>4 DEF Commit, StateInv, TypeOK, Books
  <2> QED BY <2>2, <2>3, <2>4, <2>5, <2>6 DEF StateInv, TypeOK
<1>5. ASSUME NEW p \in Products, NEW n \in Levels[p], AdjustStock(p, n) PROVE StateInv'
  <2>1. n \in Nat BY <1>5 DEF ConstantsAssumption
  <2>2. stock[p] \in Nat /\ moved[p] + n - stock[p] \in Int BY <2>1 DEF StateInv, TypeOK
  <2> QED BY <1>5, <2>1, <2>2 DEF AdjustStock, StateInv, TypeOK
<1>6. CASE UNCHANGED vars BY <1>6 DEF vars, StateInv, TypeOK
<1>7. TypeOK BY DEF StateInv
<1> QED BY <1>1, <1>2, <1>3, <1>4, <1>5, <1>6, <1>7, ArriveIs, StepIs DEF Next, Crash

-----------------------------------------------------------------------------
(* Locks: what is computed under a lock is still right at the commit.      *)

LEMMA LockInvInit == ASSUME ConstantsAssumption, Init PROVE LockInv
<1>1. \A t \in Tasks : task[t].held = {} BY DEF Init, Idle, Job
<1>2. \A p \in Products : stock[p] = Initial + moved[p] BY DEF Init, ConstantsAssumption
<1> QED BY <1>1, <1>2 DEF LockInv, StockIsSum

(* A request that holds no row takes the place of another one, or one that *)
(* holds and will write the same takes its place.                          *)
LEMMA LocksKept ==
  ASSUME StateInv, LockInv, NEW t \in Tasks, NEW j \in JobType, JobOK(j),
         task' = [task EXCEPT ![t] = j], UNCHANGED <<stock, moved>>,
         \/ j.held = {}
         \/ /\ j.held = task[t].held /\ j.value = task[t].value
            /\ j.failed = task[t].failed /\ j.kind = task[t].kind
  PROVE  LockInv'
<1>1. /\ task'[t] = j
      /\ \A s \in Tasks : s # t => task'[s] = task[s]
  BY OneMoves
<1>2. \A s \in Tasks : task'[s].held \subseteq task[s].held BY <1>1
<1>3. \A r, s \in Tasks : r # s => task'[r].held \cap task'[s].held = {}
  BY <1>2 DEF LockInv
<1>4. ASSUME NEW s \in Tasks, ~task'[s].failed, NEW p \in task'[s].held \cap Products
      PROVE  task'[s].value[p] = stock'[p] + Delta(task'[s])
  BY <1>1, <1>4 DEF LockInv, Delta, Takes
<1>5. StockIsSum' BY DEF LockInv, StockIsSum
<1> QED BY <1>3, <1>4, <1>5 DEF LockInv

LEMMA LockInvNext ==
  ASSUME ConstantsAssumption, StateInv, LockInv, [Next]_vars
  PROVE  LockInv'
<1>1. ASSUME NEW t \in Tasks, NEW j, Arrival(t, j) PROVE LockInv'
  BY <1>1, ArrivalOK, LocksKept DEF Arrival
<1>2. ASSUME NEW t \in Tasks, NEW j, Statement(t, j) PROVE LockInv'
  <2>1. j \in JobType /\ JobOK(j) /\ UNCHANGED <<stock, moved>> /\ task' = [task EXCEPT ![t] = j]
    BY <1>2, StatementOK DEF Statement, Becomes
  <2>2. CASE GoesOn(t, j) BY <1>2, <2>1, <2>2, LocksKept DEF Statement, Same, GoesOn
  <2>3. CASE Locking(t, j)
    <3>1. /\ task'[t] = j
          /\ \A s \in Tasks : s # t => task'[s] = task[s]
      BY <2>1, OneMoves
    <3>2. /\ j.held = task[t].held \cup {Row(t)}
          /\ \A s \in Tasks : s # t => Row(t) \notin task[s].held
      BY <2>3 DEF Locking, Free
    <3>3. \A r, s \in Tasks : r # s => task'[r].held \cap task'[s].held = {}
      BY <3>1, <3>2 DEF LockInv
    <3>4. ASSUME NEW s \in Tasks, ~task'[s].failed, NEW p \in task'[s].held \cap Products
          PROVE  task'[s].value[p] = stock'[p] + Delta(task'[s])
      <4>1. CASE s # t BY <2>1, <3>1, <3>4, <4>1 DEF LockInv
      <4>2. CASE s = t
        <5>1. j.kind = task[t].kind BY <1>2 DEF Statement, Same
        <5>2. Delta(j) = Delta(task[t]) BY <5>1 DEF Delta, Takes
        <5>3. task[t].value \in [Products -> Nat] /\ ~j.failed /\ p \in j.held
          BY <3>1, <3>4, <4>2 DEF StateInv, TypeOK, JobType
        <5>4. CASE Row(t) \in Products
          <6>1. Row(t) \notin Shops /\ Row(t) \notin Books BY <5>4 DEF ConstantsAssumption
          <6>2. /\ j.value = [task[t].value EXCEPT ![Row(t)] = stock[Row(t)] + Delta(task[t])]
                /\ j.failed = task[t].failed
            BY <2>3, <5>3, <6>1 DEF Locking, LocksShop, LocksBook, LocksProduct
          <6>3. CASE p = Row(t) BY <2>1, <3>1, <4>2, <5>2, <5>3, <6>2, <6>3
          <6>4. CASE p # Row(t)
            <7>1. p \in task[t].held \cap Products /\ ~task[t].failed
              BY <3>2, <3>4, <5>3, <6>2, <6>4
            <7>2. task[t].value[p] = stock[p] + Delta(task[t]) BY <7>1 DEF LockInv
            <7> QED BY <2>1, <3>1, <4>2, <5>2, <5>3, <6>2, <6>4, <7>2
          <6> QED BY <6>3, <6>4
        <5>5. CASE Row(t) \notin Products
          <6>1. j.value = task[t].value /\ j.failed = task[t].failed
            BY <2>3, <5>5 DEF Locking, LocksShop, LocksBook, LocksProduct
          <6>2. p \in task[t].held \cap Products BY <3>2, <3>4, <5>3, <5>5
          <6>3. task[t].value[p] = stock[p] + Delta(task[t]) BY <5>3, <6>1, <6>2 DEF LockInv
          <6> QED BY <2>1, <3>1, <4>2, <5>2, <6>1, <6>3
        <5> QED BY <5>4, <5>5
      <4> QED BY <4>1, <4>2
    <3>5. StockIsSum' BY <2>1 DEF LockInv, StockIsSum
    <3> QED BY <3>3, <3>4, <3>5 DEF LockInv
  <2> QED BY <1>2, <2>2, <2>3 DEF Statement
<1>3. ASSUME NEW t \in Tasks, Fail(t) PROVE LockInv'
  <2>1. Idle.held = {} BY DEF Idle, Job
  <2> QED BY <1>3, <2>1, IdleOK, LocksKept DEF Fail
<1>4. ASSUME NEW t \in Tasks, Commit(t) PROVE LockInv'
  <2>1. PICK j \in JobType : JobOK(j) /\ task' = [task EXCEPT ![t] = j] /\ j.held = {}
    BY <1>4, NextJob
  <2>2. /\ task'[t].held = {}
        /\ \A s \in Tasks : s # t => task'[s] = task[s]
    BY <2>1, OneMoves
  <2>3. ASSUME NEW p \in Products, p \notin task[t].held
        PROVE  stock'[p] = stock[p] /\ moved'[p] = moved[p]
    BY <1>4, <2>3 DEF Commit
  <2>4. \A r, s \in Tasks : r # s => task'[r].held \cap task'[s].held = {}
    BY <2>2 DEF LockInv
  <2>5. ASSUME NEW s \in Tasks, ~task'[s].failed, NEW p \in task'[s].held \cap Products
        PROVE  task'[s].value[p] = stock'[p] + Delta(task'[s])
    <3>1. s # t /\ task'[s] = task[s] BY <2>2, <2>5
    <3>2. p \notin task[t].held BY <2>5, <3>1 DEF LockInv
    <3> QED BY <2>3, <2>5, <3>1, <3>2 DEF LockInv
  <2>6. ASSUME NEW p \in Products PROVE stock'[p] = Initial + moved'[p]
    <3>1. stock[p] = Initial + moved[p] /\ stock[p] \in Nat /\ moved[p] \in Int
      BY DEF LockInv, StockIsSum, StateInv, TypeOK
    <3>2. CASE ~task[t].failed /\ p \in task[t].held
      <4>1. stock'[p] = task[t].value[p] /\ moved'[p] = moved[p] + Delta(task[t])
        BY <1>4, <3>2 DEF Commit
      <4>2. task[t].value[p] = stock[p] + Delta(task[t]) BY <3>2 DEF LockInv
      <4>3. Delta(task[t]) \in Int BY DEF Delta
      <4> QED BY <3>1, <4>1, <4>2, <4>3 DEF ConstantsAssumption
    <3>3. CASE ~(~task[t].failed /\ p \in task[t].held) BY <1>4, <3>1, <3>3 DEF Commit
    <3> QED BY <3>2, <3>3
  <2> QED BY <2>4, <2>5, <2>6 DEF LockInv, StockIsSum
<1>5. ASSUME NEW p \in Products, NEW n \in Levels[p], AdjustStock(p, n) PROVE LockInv'
  <2>1. n \in Nat /\ Initial \in Nat BY <1>5 DEF ConstantsAssumption
  <2>2. \A q \in Products : stock'[q] = Initial + moved'[q]
    BY <1>5, <2>1 DEF AdjustStock, LockInv, StockIsSum, StateInv, TypeOK
  <2>3. \A s \in Tasks : \A q \in task[s].held \cap Products : stock'[q] = stock[q]
    BY <1>5 DEF AdjustStock, StateInv, TypeOK
  <2>4. task' = task BY <1>5 DEF AdjustStock
  <2> QED BY <2>2, <2>3, <2>4 DEF LockInv, StockIsSum, Delta, Takes
<1>6. CASE UNCHANGED vars BY <1>6 DEF vars, LockInv, StockIsSum, Delta, Takes
<1>7. TypeOK BY DEF StateInv
<1> QED BY <1>1, <1>2, <1>3, <1>4, <1>5, <1>6, <1>7, ArriveIs, StepIs DEF Next, Crash

-----------------------------------------------------------------------------
(* A checkout and its orders.                                              *)

Places(t, o) == task[t].kind = "place" /\ o \in OrdersOf(task[t].of)

(* A checkout that got past the index, or needs not pass it, is the only   *)
(* one that will write its orders; what is known of an order's status.     *)
PlaceInv ==
  /\ \A t \in Tasks :
       task[t].kind = "place" /\ (task[t].of \notin WithRef \/ task[t].held \cap Shops # {})
         => \A o \in OrdersOf(task[t].of) : book[o].taken = 0
  /\ \A s, t \in Tasks :
       s # t /\ task[s].kind = "place" /\ task[s].of = task[t].of => task[s].of \in WithRef
  /\ OncePerAttempt
  /\ \A o \in Orders : /\ book[o].status # "NONE" => book[o].taken # 0
                       /\ book[o].status \notin {"DRAFT", "SUBMITTED"}
  /\ \A t \in Tasks : task[t].of \in Orders => book[task[t].of].status # "NONE"

(* What a commit makes of an order.                                        *)
LEMMA OrderWritten ==
  ASSUME ConstantsAssumption, StateInv, NEW t \in Tasks, Commit(t), NEW o \in Orders
  PROVE  /\ Places(t, o) => /\ book'[o].status = "ORDER_PLACED"
                            /\ book'[o].taken = book[o].taken + 1
                            /\ book'[o].restored = book[o].restored
         /\ ~Places(t, o) => book'[o].taken = book[o].taken
         /\ ~Places(t, o) /\ o # task[t].of => book'[o] = book[o]
         /\ o = task[t].of => book'[o].status \in {book[o].status, "CONFIRMED", "CANCELLED"}
<1>1. /\ o \in Books /\ JobOK(task[t]) /\ task[t] \in JobType /\ book[o] \in BookType
      /\ task[t].kind # "none"
  BY ReadyJob DEF StateInv, TypeOK, Books
<1>2. book'[o] = IF ~task[t].failed THEN Written(task[t], o) ELSE book[o]
  BY <1>1 DEF Commit
<1>3. o = task[t].of => /\ task[t].kind \notin {"place", "confirm", "restore"}
                        /\ task[t].to \in {"CONFIRMED", "CANCELLED"}
  BY <1>1 DEF JobOK, JobType, ConstantsAssumption, CancelKinds
<1>4. CASE Places(t, o)
  <2>1. /\ task[t].kind = "place" /\ o \in Writes(task[t]) /\ ~task[t].failed
        /\ task[t].to = "ORDER_PLACED" /\ o # task[t].of
    BY <1>1, <1>3, <1>4 DEF Places, Writes, JobOK
  <2>2. Takes(task[t]) /\ ~Returns(task[t], o) BY <2>1 DEF Takes, Returns
  <2> QED BY <1>1, <1>2, <1>4, <2>1, <2>2 DEF Written, BookType
<1>5. CASE ~Places(t, o)
  <2>1. o \in Writes(task[t]) => o = task[t].of BY <1>5 DEF Writes, Places
  <2>2. o = task[t].of => ~Takes(task[t]) BY <1>3 DEF Takes
  <2> QED BY <1>1, <1>2, <1>3, <1>5, <2>1, <2>2 DEF Written, BookType
<1> QED BY <1>4, <1>5

LEMMA PlaceInvInit == ASSUME ConstantsAssumption, Init PROVE PlaceInv
<1>1. \A t \in Tasks : task[t].kind = "none" /\ task[t].of \notin Orders
  BY DEF Init, Idle, Job, ConstantsAssumption, Books
<1>2. \A o \in Orders : book[o].taken = 0 /\ book[o].status = "NONE"
  BY DEF Init, ConstantsAssumption, Books
<1>3. \A a \in Attempts : OrdersOf(a) \subseteq Orders BY DEF OrdersOf, Orders, ShopsOf
<1>4. OncePerAttempt BY <1>2, <1>3 DEF OncePerAttempt
<1> QED BY <1>1, <1>2, <1>4 DEF PlaceInv

(* As long as the books stay as they are, it is enough to look at the      *)
(* request that moved.                                                     *)
LEMMA PlaceInvKept ==
  ASSUME StateInv, PlaceInv, NEW t \in Tasks, NEW j \in JobType, JobOK(j),
         task' = [task EXCEPT ![t] = j], UNCHANGED book,
         j.kind = "place" /\ (j.of \notin WithRef \/ j.held \cap Shops # {})
           => \A o \in OrdersOf(j.of) : book[o].taken = 0,
         \A s \in Tasks : s # t /\ j.kind = "place" /\ task[s].of = j.of => j.of \in WithRef,
         j.of \in Orders => book[j.of].status # "NONE",
         \A s \in Tasks : s # t /\ task[s].kind = "place" /\ task[s].of = j.of
           => j.of \in WithRef
  PROVE  PlaceInv'
<1>1. /\ task'[t] = j
      /\ \A s \in Tasks : s # t => task'[s] = task[s]
  BY OneMoves
<1>2. OncePerAttempt' BY DEF PlaceInv, OncePerAttempt
<1>3. ASSUME NEW s \in Tasks, task'[s].kind = "place",
             task'[s].of \notin WithRef \/ task'[s].held \cap Shops # {}
      PROVE  \A o \in OrdersOf(task'[s].of) : book'[o].taken = 0
  BY <1>1, <1>3 DEF PlaceInv
<1>4. ASSUME NEW r \in Tasks, NEW s \in Tasks, r # s, task'[r].kind = "place",
             task'[r].of = task'[s].of
      PROVE  task'[r].of \in WithRef
  BY <1>1, <1>4 DEF PlaceInv
<1>5. \A s \in Tasks : task'[s].of \in Orders => book'[task'[s].of].status # "NONE"
  BY <1>1 DEF PlaceInv
<1> QED BY <1>2, <1>3, <1>4, <1>5 DEF PlaceInv

(* A checkout that commits finds its orders unplaced, and another one for  *)
(* the same attempt has locked nothing.                                    *)
LEMMA CheckoutAlone ==
  ASSUME ConstantsAssumption, StateInv, LockInv, PlaceInv,
         NEW t \in Tasks, Commit(t), task[t].kind = "place"
  PROVE  /\ \A o \in OrdersOf(task[t].of) : book[o].taken = 0
         /\ \A s \in Tasks : s # t /\ task[s].kind = "place" /\ task[s].of = task[t].of
              => task[t].of \in WithRef /\ task[s].held = {}
<1> DEFINE a == task[t].of
<1>1. task[t].held = InSeq(Cart[a]) BY ReadyJob
<1>2. \A o \in OrdersOf(a) : book[o].taken = 0
  <2>1. CASE ShopsOf(a) = {} BY <2>1 DEF OrdersOf
  <2>2. CASE ShopsOf(a) # {} BY <1>1, <2>2 DEF PlaceInv, ShopsOf
  <2> QED BY <2>1, <2>2
<1>3. ASSUME NEW s \in Tasks, s # t, task[s].kind = "place", task[s].of = a
      PROVE  a \in WithRef /\ task[s].held = {}
  <2>1. task[s].held \subseteq InSeq(Cart[a]) BY <1>3 DEF StateInv, JobOK
  <2>2. task[s].held \cap task[t].held = {} BY <1>3 DEF LockInv
  <2>3. a \in WithRef BY <1>3 DEF PlaceInv
  <2> QED BY <1>1, <2>1, <2>2, <2>3
<1> QED BY <1>2, <1>3

LEMMA PlaceInvNext ==
  ASSUME ConstantsAssumption, StateInv, LockInv, PlaceInv, [Next]_vars
  PROVE  PlaceInv'
<1>0. TypeOK /\ Orders \subseteq Books /\ \A a \in Attempts : OrdersOf(a) \subseteq Orders
  BY DEF StateInv, Books, OrdersOf, Orders, ShopsOf
<1>1. ASSUME NEW t \in Tasks, NEW j, Arrival(t, j) PROVE PlaceInv'
  <2>1. /\ j \in JobType /\ JobOK(j) /\ UNCHANGED book /\ task' = [task EXCEPT ![t] = j]
        /\ j.held = {}
    BY <1>1, ArrivalOK DEF Arrival
  <2>2. CASE ArrivesToPlace(j)
    <3>1. j.kind = "place" /\ j.of \in Attempts /\ j.of \notin Books
      BY <2>2 DEF ArrivesToPlace, ConstantsAssumption
    <3>2. \A s \in Tasks : task[s].of = j.of => j.of \in WithRef
      BY <2>2 DEF ArrivesToPlace, On
    <3>3. \A o \in OrdersOf(j.of) : book[o].taken = 0 BY <2>2 DEF ArrivesToPlace
    <3> QED BY <1>0, <2>1, <3>1, <3>2, <3>3, PlaceInvKept
  <2>3. CASE ArrivesToChange(j)
    <3>1. j.kind # "place" /\ j.of \in Books BY <2>3 DEF ArrivesToChange, LockingKinds
    <3>2. \A s \in Tasks : task[s].kind = "place" => task[s].of \notin Books
      BY DEF StateInv, JobOK, ConstantsAssumption
    <3>3. j.of \in Orders => book[j.of].status # "NONE"
      BY <2>3 DEF ArrivesToChange, Decided, ConstantsAssumption
    <3> QED BY <2>1, <3>1, <3>2, <3>3, PlaceInvKept
  <2> QED BY <1>1, <2>2, <2>3 DEF Arrival
<1>2. ASSUME NEW t \in Tasks, NEW j, Statement(t, j) PROVE PlaceInv'
  <2>1. /\ j \in JobType /\ JobOK(j) /\ UNCHANGED book /\ task' = [task EXCEPT ![t] = j]
        /\ j.kind = task[t].kind /\ j.of = task[t].of
    BY <1>2, StatementOK DEF Statement, Becomes, Same
  <2>2. ASSUME j.kind = "place", j.of \notin WithRef \/ j.held \cap Shops # {},
               NEW o \in OrdersOf(j.of)
        PROVE  book[o].taken = 0
    <3>1. CASE j.of \notin WithRef BY <2>1, <2>2, <3>1 DEF PlaceInv
    <3>2. CASE task[t].held \cap Shops # {} BY <2>1, <2>2, <3>2 DEF PlaceInv
    <3>3. CASE j.of \in WithRef /\ task[t].held \cap Shops = {}
      <4>1. Locking(t, j) /\ Row(t) \in Shops
        BY <1>2, <2>2, <3>3 DEF Statement, GoesOn, Locking
      <4>2. ~Duplicate(t)
        BY <4>1 DEF Locking, LocksShop, LocksBook, LocksProduct, ConstantsAssumption
      <4>3. ~(book[o].taken > 0) BY <2>1, <2>2, <3>3, <4>2 DEF Duplicate
      <4>4. j.of \in Attempts BY <2>1, <2>2 DEF JobOK
      <4>5. book[o].taken \in Nat BY <1>0, <2>2, <4>4 DEF TypeOK, BookType
      <4> QED BY <4>3, <4>5
    <3> QED BY <3>1, <3>2, <3>3
  <2>3. \A s \in Tasks : s # t /\ j.kind = "place" /\ task[s].of = j.of => j.of \in WithRef
    BY <2>1 DEF PlaceInv
  <2>4. \A s \in Tasks : s # t /\ task[s].kind = "place" /\ task[s].of = j.of => j.of \in WithRef
    BY <2>1 DEF PlaceInv
  <2>5. j.of \in Orders => book[j.of].status # "NONE" BY <2>1 DEF PlaceInv
  <2> QED BY <2>1, <2>2, <2>3, <2>4, <2>5, PlaceInvKept
<1>3. ASSUME NEW t \in Tasks, Fail(t) PROVE PlaceInv'
  <2>1. Idle.kind = "none" /\ Idle.of = Nothing /\ Idle \in JobType /\ JobOK(Idle)
    BY IdleOK DEF Idle, Job
  <2>2. Nothing \notin Orders /\ \A s \in Tasks : task[s].kind = "place" => task[s].of # Nothing
    BY DEF StateInv, JobOK, ConstantsAssumption, Books
  <2> QED BY <1>3, <2>1, <2>2, PlaceInvKept DEF Fail
<1>4. ASSUME NEW t \in Tasks, Commit(t) PROVE PlaceInv'
  <2>1. PICK j \in JobType :
          /\ JobOK(j) /\ task' = [task EXCEPT ![t] = j] /\ j.held = {}
          /\ task[t].kind # "deskCancel" => j = Idle
          /\ task[t].kind = "deskCancel" => /\ j.kind = "deskRestore" /\ j.of = task[t].of
                                            /\ j.of \in Orders
    BY <1>4, NextJob
  <2>2. /\ task'[t] = j
        /\ \A s \in Tasks : s # t => task'[s] = task[s]
    BY <2>1, OneMoves
  <2>3. j.kind # "place" /\ (j.of \in Orders => j.of = task[t].of)
        /\ (j.of \in Attempts => FALSE)
    BY <2>1 DEF Idle, Job, ConstantsAssumption, Books
  <2>4. \A s \in Tasks : JobOK(task[s]) BY DEF StateInv
  <2>5. ASSUME NEW a \in Attempts, task[t].kind = "place", task[t].of = a
        PROVE  /\ \A o \in OrdersOf(a) : book[o].taken = 0
               /\ \A s \in Tasks : s # t /\ task[s].kind = "place" /\ task[s].of = a
                    => a \in WithRef /\ task[s].held = {}
    BY <1>4, <2>5, CheckoutAlone
  <2>6. ASSUME NEW a \in Attempts, NEW o \in OrdersOf(a)
        PROVE  book'[o].taken = IF task[t].kind = "place" /\ task[t].of = a
                                  THEN 1 ELSE book[o].taken
    <3>1. o \in Orders /\ o[1] = a BY <2>6 DEF OrdersOf, Orders, ShopsOf
    <3>2. Places(t, o) <=> task[t].kind = "place" /\ task[t].of = a
      BY <2>6, <3>1 DEF Places, OrdersOf
    <3>3. CASE task[t].kind = "place" /\ task[t].of = a
      <4>1. book'[o].taken = book[o].taken + 1 BY <1>4, <3>1, <3>2, <3>3, OrderWritten
      <4>2. book[o].taken = 0 BY <2>5, <2>6, <3>3
      <4> QED BY <3>3, <4>1, <4>2
    <3>4. CASE ~(task[t].kind = "place" /\ task[t].of = a)
      BY <1>4, <3>1, <3>2, <3>4, OrderWritten
    <3> QED BY <3>3, <3>4
  <2>7. ASSUME NEW s \in Tasks, task'[s].kind = "place",
               task'[s].of \notin WithRef \/ task'[s].held \cap Shops # {},
               NEW o \in OrdersOf(task'[s].of)
        PROVE  book'[o].taken = 0
    <3>1. s # t /\ task'[s] = task[s] BY <2>2, <2>3, <2>7
    <3>2. task[s].of \in Attempts BY <2>4, <2>7, <3>1 DEF JobOK
    <3>3. ~(task[t].kind = "place" /\ task[t].of = task[s].of) BY <2>5, <2>7, <3>1, <3>2
    <3>4. book[o].taken = 0 BY <2>7, <3>1 DEF PlaceInv
    <3> QED BY <2>6, <2>7, <3>1, <3>2, <3>3, <3>4
  <2>8. ASSUME NEW r \in Tasks, NEW s \in Tasks, r # s, task'[r].kind = "place",
               task'[r].of = task'[s].of
        PROVE  task'[r].of \in WithRef
    <3>1. r # t /\ task'[r] = task[r] /\ task[r].of \in Attempts
      BY <2>2, <2>3, <2>4, <2>8 DEF JobOK
    <3>2. s # t /\ task'[s] = task[s] BY <2>2, <2>3, <2>8, <3>1
    <3> QED BY <2>8, <3>1, <3>2 DEF PlaceInv
  <2>9. OncePerAttempt'
    <3>1. SUFFICES ASSUME NEW a \in Attempts
                   PROVE  \E n \in {0, 1} : \A o \in OrdersOf(a) : book'[o].taken = n
      BY DEF OncePerAttempt
    <3>2. PICK n \in {0, 1} : \A o \in OrdersOf(a) : book[o].taken = n
      BY DEF PlaceInv, OncePerAttempt
    <3> QED BY <2>6, <3>2
  <2>10. ASSUME NEW o \in Orders
         PROVE  /\ book'[o].status # "NONE" => book'[o].taken # 0
                /\ book'[o].status \notin {"DRAFT", "SUBMITTED"}
                /\ book[o].status # "NONE" => book'[o].status # "NONE"
    <3>1. book[o].taken \in Nat BY <1>0, <2>10 DEF TypeOK, BookType
    <3>2. book[o].status \notin {"DRAFT", "SUBMITTED"} /\ (book[o].status # "NONE" => book[o].taken # 0)
      BY <2>10 DEF PlaceInv
    <3>3. o = task[t].of => book[o].status # "NONE" BY <2>10 DEF PlaceInv
    <3>4. CASE Places(t, o)
      <4>1. book'[o].status = "ORDER_PLACED" /\ book'[o].taken = book[o].taken + 1
        BY <1>4, <2>10, <3>4, OrderWritten
      <4> QED BY <3>1, <4>1
    <3>5. CASE ~Places(t, o) /\ o # task[t].of BY <1>4, <2>10, <3>2, <3>5, OrderWritten
    <3>6. CASE ~Places(t, o) /\ o = task[t].of
      <4>1. /\ book'[o].taken = book[o].taken
            /\ book'[o].status \in {book[o].status, "CONFIRMED", "CANCELLED"}
        BY <1>4, <2>10, <3>6, OrderWritten
      <4> QED BY <3>2, <3>3, <3>6, <4>1
    <3> QED BY <3>4, <3>5, <3>6
  <2>11. ASSUME NEW s \in Tasks, task'[s].of \in Orders
         PROVE  book'[task'[s].of].status # "NONE"
    <3>1. \E r \in Tasks : task[r].of = task'[s].of BY <2>2, <2>3, <2>11
    <3>2. book[task'[s].of].status # "NONE" BY <2>11, <3>1 DEF PlaceInv
    <3> QED BY <2>10, <2>11, <3>2
  <2> QED BY <2>7, <2>8, <2>9, <2>10, <2>11 DEF PlaceInv
<1>5. ASSUME NEW p \in Products, NEW n \in Levels[p], AdjustStock(p, n) PROVE PlaceInv'
  BY <1>5 DEF AdjustStock, PlaceInv, OncePerAttempt
<1>6. CASE UNCHANGED vars BY <1>6 DEF vars, PlaceInv, OncePerAttempt
<1> QED BY <1>0, <1>1, <1>2, <1>3, <1>4, <1>5, <1>6, ArriveIs, StepIs DEF Next, Crash

-----------------------------------------------------------------------------
(* Books: what a request knows of the book it will change.                 *)

(* Of a book that is not in doubt: what was read without a lock still      *)
(* holds, as nobody else is about it; what was read under the lock holds   *)
(* for whoever has it.                                                     *)
Knows(j) ==
  LET status == book[j.of].status IN
  /\ j.kind \in {"cancel", "deskCancel"} => Live(status)
  /\ j.kind = "deskRestore" => status = "CANCELLED"
  /\ j.kind = "move" => \/ j.of \in Orders /\ j.to = "CANCELLED"
                        \/ Live(status) <=> Live(j.to)
  /\ j.of \in j.held =>
       /\ j.kind = "shopCancel" => status = "CONFIRMED"
       /\ j.kind = "confirm" => status = "SUBMITTED"
       /\ j.kind = "restore" => status \in {"DRAFT", "SUBMITTED", "CONFIRMED"}

BookInv ==
  /\ \A s, t \in Tasks :
       s # t /\ task[s].of = task[t].of /\ Unlocked(task[t].kind) => task[t].of \in doubtful
  /\ \A t \in Tasks : task[t].of \in Books \ doubtful => Knows(task[t])
  /\ HeldOnce

LEMMA BookInvInit == ASSUME ConstantsAssumption, Init PROVE BookInv
<1>1. \A t \in Tasks : task[t].kind = "none" /\ task[t].of \notin Books
  BY DEF Init, Idle, Job, ConstantsAssumption
<1>2. \A x \in Books : /\ book[x].taken = 0 /\ book[x].restored = 0
                       /\ book[x].status \in {"NONE", "DRAFT"}
  BY DEF Init
<1>3. HeldOnce
  <2>1. \A x \in Books : ~GivesBack(x) BY <1>1 DEF GivesBack, On
  <2> QED BY <1>2, <2>1 DEF HeldOnce, Live
<1> QED BY <1>1, <1>3 DEF BookInv, Unlocked

(* As long as the books stay as they are, it is enough to look at the      *)
(* request that moved, as long as it does not start or end a restore.      *)
LEMMA BookInvKept ==
  ASSUME ConstantsAssumption, StateInv, BookInv, NEW t \in Tasks, NEW j \in JobType, JobOK(j),
         task' = [task EXCEPT ![t] = j], UNCHANGED book, doubtful \subseteq doubtful',
         \A s \in Tasks : s # t /\ task[s].of = j.of /\ (Unlocked(j.kind) \/ Unlocked(task[s].kind))
           => j.of \in doubtful',
         j.of \in Books \ doubtful' => Knows(j),
         \/ /\ (j.kind = "deskRestore") = (task[t].kind = "deskRestore")
            /\ (j.kind = "deskRestore") => (j.of = task[t].of)
         \/ task[t].of \in doubtful' /\ j.kind # "deskRestore"
  PROVE  BookInv'
<1>1. /\ task'[t] = j
      /\ \A s \in Tasks : s # t => task'[s] = task[s]
  BY OneMoves
<1>2. ASSUME NEW r \in Tasks, NEW s \in Tasks, r # s, task'[r].of = task'[s].of,
             Unlocked(task'[s].kind)
      PROVE  task'[s].of \in doubtful'
  <2>1. CASE r # t /\ s # t BY <1>1, <1>2, <2>1 DEF BookInv
  <2>2. CASE r = t \/ s = t BY <1>1, <1>2, <2>2
  <2> QED BY <2>1, <2>2
<1>3. ASSUME NEW s \in Tasks, task'[s].of \in Books \ doubtful' PROVE Knows(task[s])'
  <2>1. Knows(task'[s]) BY <1>1, <1>3 DEF BookInv
  <2> QED BY <2>1 DEF Knows
<1>4. ASSUME NEW x \in Books \ doubtful'
      PROVE  book'[x].taken - book'[x].restored
               = IF Live(book'[x].status) \/ GivesBack(x)' THEN 1 ELSE 0
  <2>1. GivesBack(x)' <=> GivesBack(x)
    <3>1. \A s \in Tasks : (task'[s].of = x /\ task'[s].kind = "deskRestore")
                           <=> (task[s].of = x /\ task[s].kind = "deskRestore")
      BY <1>1, <1>4
    <3> QED BY <3>1 DEF GivesBack, On
  <2> QED BY <1>4, <2>1 DEF BookInv, HeldOnce
<1>5. HeldOnce' BY <1>4 DEF HeldOnce, Live
<1> QED BY <1>2, <1>3, <1>5 DEF BookInv

(* What a commit makes of the book that the request is about.              *)
LEMMA BookWritten ==
  ASSUME ConstantsAssumption, StateInv, NEW t \in Tasks, Commit(t), NEW x \in Books,
         x = task[t].of
  PROVE  /\ task[t].kind \in CancelKinds \cup {"move", "confirm", "restore"}
         /\ x \in Writes(task[t])
         /\ task[t].failed => task[t].kind = "confirm" /\ book'[x] = book[x]
         /\ ~task[t].failed =>
              /\ book'[x].status = IF task[t].kind = "deskRestore" THEN book[x].status ELSE task[t].to
              /\ book'[x].taken = book[x].taken + (IF task[t].kind = "confirm" THEN 1 ELSE 0)
              /\ book'[x].restored = book[x].restored + (IF Returns(task[t], x) THEN 1 ELSE 0)
<1>1. /\ JobOK(task[t]) /\ task[t] \in JobType /\ book[x] \in BookType /\ task[t].kind # "none"
  BY ReadyJob DEF StateInv, TypeOK
<1>2. task[t].kind # "place" BY <1>1 DEF JobOK, ConstantsAssumption
<1>3. task[t].kind \in CancelKinds \cup {"move", "confirm", "restore"}
  BY <1>1, <1>2 DEF JobType, CancelKinds
<1>4. x \in Writes(task[t]) /\ (Takes(task[t]) <=> task[t].kind = "confirm")
  BY <1>2 DEF Writes, Takes
<1>5. book'[x] = IF ~task[t].failed THEN Written(task[t], x) ELSE book[x] BY DEF Commit
<1>6. task[t].failed => task[t].kind = "confirm" BY <1>1 DEF JobOK
<1> QED BY <1>3, <1>4, <1>5, <1>6 DEF Written

(* What a commit is not about stays as it is.                              *)
LEMMA OthersKept ==
  ASSUME NEW t \in Tasks, Commit(t), NEW x \in Books, x \notin Writes(task[t])
  PROVE  book'[x] = book[x]
BY DEF Commit, Written

(* Steps of the state machine of bulk orders.                              *)
LEMMA NextStatusIs ==
  ASSUME NEW from, NEW to, to \in NextStatus(from)
  PROVE  \/ from = "DRAFT" /\ to \in {"SUBMITTED", "CANCELLED"}
         \/ from = "SUBMITTED" /\ to \in {"CONFIRMED", "CANCELLED"}
         \/ from = "CONFIRMED" /\ to \in {"PROCESSING", "CANCELLED"}
BY DEF NextStatus

(* A book that is about to be given back is one that the dashboard gives   *)
(* back.                                                                   *)
LEMMA WhoGivesBack ==
  ASSUME NEW x
  PROVE  /\ GivesBack(x) <=> \E s \in Tasks : task[s].of = x /\ task[s].kind = "deskRestore"
         /\ GivesBack(x)' <=> \E s \in Tasks : task'[s].of = x /\ task'[s].kind = "deskRestore"
BY DEF GivesBack, On

LEMMA BookInvCommit ==
  ASSUME ConstantsAssumption, StateInv, LockInv, PlaceInv, BookInv, NEW t \in Tasks, Commit(t)
  PROVE  BookInv'
<1>1. PICK j \in JobType :
        /\ JobOK(j) /\ task' = [task EXCEPT ![t] = j] /\ j.held = {}
        /\ task[t].kind # "deskCancel" => j = Idle
        /\ task[t].kind = "deskCancel" => /\ j.kind = "deskRestore" /\ j.of = task[t].of
                                          /\ j.of \in Orders
  BY NextJob
<1>2. /\ task'[t] = j
      /\ \A s \in Tasks : s # t => task'[s] = task[s]
  BY <1>1, OneMoves
<1>3. Idle.of \notin Books /\ Idle.kind = "none" BY DEF Idle, Job, ConstantsAssumption
<1>4. doubtful \subseteq doubtful' BY DEF Commit
<1>5. \A s \in Tasks : /\ JobOK(task[s]) /\ task[s] \in JobType
                       /\ task[s].kind = "none" => task[s].of \notin Books
                       /\ task[s].kind = "place" => task[s].of \notin Books
                       /\ Unlocked(task[s].kind) => task[s].of \in Books
  BY <1>3 DEF StateInv, TypeOK, JobOK, ConstantsAssumption, Unlocked, CancelKinds, Books
<1>6. j.of \in Books => /\ task[t].kind = "deskCancel" /\ j.kind = "deskRestore"
                        /\ j.of = task[t].of
  BY <1>1, <1>3
<1>7. ASSUME NEW r \in Tasks, NEW s \in Tasks, r # s, task'[r].of = task'[s].of,
             Unlocked(task'[s].kind)
      PROVE  task'[s].of \in doubtful'
  <2>1. task'[s].of \in Books
    <3>1. CASE s = t BY <1>1, <1>2, <1>3, <1>7, <3>1 DEF Unlocked, Books
    <3>2. CASE s # t BY <1>2, <1>5, <1>7, <3>2
    <3> QED BY <3>1, <3>2
  <2>2. task[r].of = task[s].of /\ task'[s].of = task[s].of BY <1>2, <1>6, <1>7, <2>1
  <2>3. Unlocked(task[s].kind) BY <1>2, <1>6, <1>7, <2>1 DEF Unlocked
  <2> QED BY <1>4, <1>7, <2>2, <2>3 DEF BookInv
\* A book not in doubt that this commit is about, and the other requests on it.
<1>8. ASSUME NEW x \in Books \ doubtful', x = task[t].of, NEW s \in Tasks, s # t, task[s].of = x
      PROVE  ~Unlocked(task[t].kind) /\ ~Unlocked(task[s].kind)
  BY <1>4, <1>8 DEF BookInv
<1>9. ASSUME NEW x \in Books, x \in Writes(task[t]), x # task[t].of
      PROVE  /\ x \in Orders /\ task[t].kind = "place" /\ task[t].of \in Attempts
             /\ x \in OrdersOf(task[t].of)
             /\ book[x].taken = 0 /\ book[x].status = "NONE"
             /\ \A s \in Tasks : task[s].of # x
  <2>1. task[t].kind = "place" /\ task[t].of \in Attempts /\ x \in OrdersOf(task[t].of)
    BY <1>5, <1>9 DEF Writes, JobOK
  <2>2. x \in Orders BY <2>1 DEF OrdersOf, Orders, ShopsOf
  <2>3. book[x].taken = 0 BY <2>1, CheckoutAlone
  <2>4. book[x].status = "NONE" BY <2>2, <2>3 DEF PlaceInv
  <2> QED BY <2>1, <2>2, <2>3, <2>4 DEF PlaceInv
<1>10. ASSUME NEW s \in Tasks, task'[s].of \in Books \ doubtful' PROVE Knows(task[s])'
  <2> DEFINE x == task'[s].of
  <2>1. CASE s = t
    <3>1. /\ task[t].kind = "deskCancel" /\ j.kind = "deskRestore" /\ x = task[t].of
          /\ task[t].to = "CANCELLED"
      BY <1>2, <1>5, <1>6, <1>10, <2>1 DEF JobOK, CancelKinds
    <3>2. book'[x].status = "CANCELLED" BY <1>10, <3>1, BookWritten
    <3> QED BY <1>1, <1>2, <2>1, <3>1, <3>2 DEF Knows
  <2>2. CASE s # t
    <3>1. task'[s] = task[s] /\ Knows(task[s]) /\ task[s].of = x
      BY <1>2, <1>4, <1>10, <2>2 DEF BookInv
    <3>2. CASE x \notin Writes(task[t])
      <4>1. book'[x] = book[x] BY <1>10, <3>2, OthersKept
      <4> QED BY <3>1, <4>1 DEF Knows
    <3>3. CASE x \in Writes(task[t])
      <4>1. x = task[t].of BY <1>9, <1>10, <3>1, <3>3
      <4>2. ~Unlocked(task[t].kind) /\ ~Unlocked(task[s].kind)
        BY <1>8, <1>10, <2>2, <3>1, <4>1
      <4>3. x \in task[t].held
        <5>1. task[t].kind \in LockingKinds
          BY <1>10, <4>1, <4>2, BookWritten DEF Unlocked, LockingKinds, CancelKinds
        <5> QED BY <4>1, <5>1, ReadyJob
      <4>4. x \notin task[s].held BY <2>2, <4>3 DEF LockInv
      <4> QED BY <3>1, <4>2, <4>4 DEF Knows, Unlocked
    <3> QED BY <3>2, <3>3
  <2> QED BY <2>1, <2>2
<1>11. ASSUME NEW x \in Books \ doubtful'
       PROVE  book'[x].taken - book'[x].restored
                = IF Live(book'[x].status) \/ GivesBack(x)' THEN 1 ELSE 0
  <2>1. /\ book[x].taken - book[x].restored = IF Live(book[x].status) \/ GivesBack(x) THEN 1 ELSE 0
        /\ book[x].taken \in Nat /\ book[x].restored \in Nat
    BY <1>4, <1>11 DEF BookInv, HeldOnce, StateInv, TypeOK, BookType
  <2>2. CASE x \notin Writes(task[t])
    <3>1. book'[x] = book[x] BY <1>11, <2>2, OthersKept
    <3>2. x # task[t].of BY <1>4, <1>11, <2>2, BookWritten
    <3>3. \A s \in Tasks : (task'[s].of = x /\ task'[s].kind = "deskRestore")
                            <=> (task[s].of = x /\ task[s].kind = "deskRestore")
      BY <1>2, <1>6, <1>11, <3>2
    <3>4. GivesBack(x)' <=> GivesBack(x) BY <3>3, WhoGivesBack
    <3> QED BY <2>1, <3>1, <3>4
  <2>3. CASE x \in Writes(task[t]) /\ x # task[t].of
    <3>1. /\ x \in Orders /\ task[t].kind = "place" /\ x \in OrdersOf(task[t].of)
          /\ book[x].taken = 0 /\ book[x].status = "NONE"
          /\ \A s \in Tasks : task[s].of # x
      BY <1>9, <1>11, <2>3
    <3>2. /\ book'[x].status = "ORDER_PLACED" /\ book'[x].taken = book[x].taken + 1
          /\ book'[x].restored = book[x].restored
      BY <3>1, OrderWritten DEF Places
    <3>3. ~GivesBack(x) BY <3>1, WhoGivesBack
    <3>4. ~Live("NONE") /\ Live("ORDER_PLACED") BY DEF Live
    <3>5. book[x].restored = 0 BY <2>1, <3>1, <3>3, <3>4
    <3> QED BY <3>1, <3>2, <3>4, <3>5
  <2>4. CASE x = task[t].of
    <3> DEFINE kind == task[t].kind
               status == book[x].status
    <3>1. /\ kind \in CancelKinds \cup {"move", "confirm", "restore"}
          /\ task[t].failed => kind = "confirm" /\ book'[x] = book[x]
          /\ ~task[t].failed =>
               /\ book'[x].status = IF kind = "deskRestore" THEN status ELSE task[t].to
               /\ book'[x].taken = book[x].taken + (IF kind = "confirm" THEN 1 ELSE 0)
               /\ book'[x].restored = book[x].restored + (IF Returns(task[t], x) THEN 1 ELSE 0)
      BY <1>11, <2>4, BookWritten
    <3>2. GivesBack(x) <=> kind = "deskRestore"
      BY <1>8, <1>11, <2>4, WhoGivesBack DEF Unlocked
    <3>3. GivesBack(x)' <=> kind = "deskCancel"
      <4>1. \A s \in Tasks : s # t => ~(task'[s].of = x /\ task'[s].kind = "deskRestore")
        BY <1>2, <1>8, <1>11, <2>4 DEF Unlocked
      <4>2. (task'[t].of = x /\ task'[t].kind = "deskRestore") <=> kind = "deskCancel"
        BY <1>1, <1>2, <1>6, <1>11, <2>4
      <4> QED BY <4>1, <4>2, WhoGivesBack
    <3>4. Knows(task[t]) BY <1>4, <1>11, <2>4 DEF BookInv
    <3>5. kind \in LockingKinds => x \in task[t].held BY <2>4, ReadyJob
    <3>6. JobOK(task[t]) BY <1>5
    <3>7. ~Live("CANCELLED") /\ Live("CONFIRMED") /\ ~Live("SUBMITTED") /\ ~Live("DRAFT")
      BY DEF Live
    <3>8. ASSUME book[x].taken - book[x].restored = 1, book'[x].taken = book[x].taken,
                  book'[x].restored = book[x].restored + 1, book'[x].status = "CANCELLED",
                  kind # "deskCancel"
           PROVE  book'[x].taken - book'[x].restored
                    = IF Live(book'[x].status) \/ GivesBack(x)' THEN 1 ELSE 0
      <4>1. ~Live(book'[x].status) /\ ~GivesBack(x)' BY <3>3, <3>7, <3>8
      <4>2. book'[x].taken - book'[x].restored = 0 BY <2>1, <3>8
      <4> QED BY <4>1, <4>2
    <3>9. CASE kind = "cancel"
      <4>1. Live(status) /\ task[t].to = "CANCELLED" /\ ~task[t].failed /\ Returns(task[t], x)
        BY <2>4, <3>4, <3>6, <3>9 DEF Knows, JobOK, CancelKinds, Returns
      <4>2. /\ book[x].taken - book[x].restored = 1 /\ book'[x].taken = book[x].taken
            /\ book'[x].restored = book[x].restored + 1 /\ book'[x].status = "CANCELLED"
        BY <2>1, <3>1, <3>2, <3>7, <3>9, <4>1
      <4> QED BY <3>8, <3>9, <4>2
    <3>10. CASE kind = "shopCancel"
      <4>1. status = "CONFIRMED" /\ task[t].to = "CANCELLED" /\ ~task[t].failed /\ Returns(task[t], x)
        BY <2>4, <3>4, <3>5, <3>6, <3>10 DEF Knows, JobOK, CancelKinds, LockingKinds, Returns
      <4>2. /\ book[x].taken - book[x].restored = 1 /\ book'[x].taken = book[x].taken
            /\ book'[x].restored = book[x].restored + 1 /\ book'[x].status = "CANCELLED"
        BY <2>1, <3>1, <3>2, <3>7, <3>10, <4>1
      <4> QED BY <3>8, <3>10, <4>2
    <3>11. CASE kind = "deskCancel"
      <4>1. Live(status) /\ task[t].to = "CANCELLED" /\ ~task[t].failed /\ ~Returns(task[t], x)
        BY <2>4, <3>4, <3>6, <3>11 DEF Knows, JobOK, CancelKinds, Returns
      <4> QED BY <2>1, <3>1, <3>2, <3>3, <3>7, <3>11, <4>1
    <3>12. CASE kind = "deskRestore"
      <4>1. status = "CANCELLED" /\ ~task[t].failed /\ Returns(task[t], x)
        BY <2>4, <3>4, <3>6, <3>12 DEF Knows, JobOK, Returns
      <4>2. /\ book[x].taken - book[x].restored = 1 /\ book'[x].taken = book[x].taken
            /\ book'[x].restored = book[x].restored + 1 /\ book'[x].status = "CANCELLED"
        BY <2>1, <3>1, <3>2, <3>7, <3>12, <4>1
      <4> QED BY <3>8, <3>12, <4>2
    <3>13. CASE kind = "move"
      <4>1. ~task[t].failed /\ ~Returns(task[t], x) BY <3>6, <3>13 DEF JobOK, Returns
      <4>2. ~(x \in Orders /\ task[t].to = "CANCELLED")
        BY <1>11, <2>4, <3>13 DEF Commit
      <4>3. Live(status) <=> Live(task[t].to) BY <2>4, <3>4, <3>13, <4>2 DEF Knows
      <4> QED BY <2>1, <3>1, <3>2, <3>3, <3>13, <4>1, <4>3
    <3>14. CASE kind = "confirm"
      <4>1. status = "SUBMITTED" /\ task[t].to = "CONFIRMED" /\ ~Returns(task[t], x)
        BY <2>4, <3>4, <3>5, <3>6, <3>14 DEF Knows, JobOK, LockingKinds, Returns
      <4>2. CASE task[t].failed BY <2>1, <3>1, <3>2, <3>3, <3>14, <4>2
      <4>3. CASE ~task[t].failed BY <2>1, <3>1, <3>2, <3>3, <3>7, <3>14, <4>1, <4>3
      <4> QED BY <4>2, <4>3
    <3>15. CASE kind = "restore"
      <4>1. /\ status \in {"DRAFT", "SUBMITTED", "CONFIRMED"} /\ task[t].to = "CANCELLED"
            /\ ~task[t].failed /\ (Returns(task[t], x) <=> status = "CONFIRMED")
        BY <2>4, <3>4, <3>5, <3>6, <3>15 DEF Knows, JobOK, LockingKinds, Returns
      <4>2. book'[x].status = "CANCELLED" /\ book'[x].taken = book[x].taken
        BY <2>1, <3>1, <3>15, <4>1
      <4>3. CASE status = "CONFIRMED"
        <5>1. /\ book[x].taken - book[x].restored = 1
              /\ book'[x].restored = book[x].restored + 1
          BY <2>1, <3>1, <3>7, <3>15, <4>1, <4>3
        <5> QED BY <3>8, <3>15, <4>2, <5>1
      <4>4. CASE status # "CONFIRMED"
        <5>1. /\ book[x].taken - book[x].restored = 0 /\ ~Returns(task[t], x)
          BY <2>1, <3>2, <3>7, <3>15, <4>1, <4>4
        <5>2. book'[x].restored = book[x].restored BY <2>1, <3>1, <3>15, <4>1, <5>1
        <5>3. ~Live(book'[x].status) /\ ~GivesBack(x)' BY <3>3, <3>7, <3>15, <4>2
        <5> QED BY <4>2, <5>1, <5>2, <5>3
      <4> QED BY <4>3, <4>4
    <3> QED BY <3>1, <3>9, <3>10, <3>11, <3>12, <3>13, <3>14, <3>15 DEF CancelKinds
  <2> QED BY <2>2, <2>3, <2>4
<1>12. HeldOnce' BY <1>11 DEF HeldOnce, Live
<1> QED BY <1>7, <1>10, <1>12 DEF BookInv

LEMMA BookInvNext ==
  ASSUME ConstantsAssumption, StateInv, LockInv, PlaceInv, BookInv, [Next]_vars
  PROVE  BookInv'
<1>0. /\ TypeOK /\ Orders \subseteq Books /\ Idle.of \notin Books /\ Idle.kind = "none"
      /\ Idle.held = {}
  BY DEF StateInv, Books, Idle, Job, ConstantsAssumption
<1>1. ASSUME NEW t \in Tasks, NEW j, Arrival(t, j) PROVE BookInv'
  <2>1. /\ j \in JobType /\ JobOK(j) /\ UNCHANGED book /\ task' = [task EXCEPT ![t] = j]
        /\ j.held = {} /\ task[t].kind = "none"
    BY <1>0, <1>1, ArrivalOK DEF Arrival
  <2>2. CASE ArrivesToPlace(j)
    <3>1. /\ j.kind = "place" /\ j.of \notin Books /\ UNCHANGED doubtful /\ ~Unlocked(j.kind)
      BY <2>2 DEF ArrivesToPlace, ConstantsAssumption, Unlocked
    <3>2. \A s \in Tasks : Unlocked(task[s].kind) => task[s].of \in Books
      BY DEF StateInv, JobOK, Unlocked, CancelKinds, Books
    <3> QED BY <2>1, <3>1, <3>2, BookInvKept
  <2>3. CASE ArrivesToChange(j)
    <3>1. j.of \in Books /\ j.kind \in LockingKinds /\ j.kind # "deskRestore"
      BY <2>3 DEF ArrivesToChange, LockingKinds
    <3>2. doubtful' = IF \E s \in On(j.of) : Unlocked(j.kind) \/ Unlocked(task[s].kind)
                        THEN doubtful \cup {j.of} ELSE doubtful
      BY <2>3 DEF ArrivesToChange
    <3>3. \A s \in Tasks : s # t /\ task[s].of = j.of /\ (Unlocked(j.kind) \/ Unlocked(task[s].kind))
            => j.of \in doubtful'
      BY <3>2 DEF On
    <3>4. Knows(j)
      <4> DEFINE status == book[j.of].status
      <4>1. Decided(j) BY <2>3 DEF ArrivesToChange
      <4>2. j.of \in Orders => status \notin {"DRAFT", "SUBMITTED"} BY DEF PlaceInv
      <4>3. j.of \in Orders => j.of \notin Bulks BY DEF ConstantsAssumption
      <4>4. CASE j.kind \in {"cancel", "deskCancel"}
        BY <2>1, <4>1, <4>2, <4>4 DEF Knows, Decided, Live
      <4>5. CASE j.kind = "move" /\ j.of \in Orders
        BY <2>1, <4>1, <4>3, <4>5 DEF Knows, Decided, Live
      <4>6. CASE j.kind = "move" /\ j.of \in Bulks
        <5>1. j.to \in NextStatus(status) /\ ~MovesStock(status, j.to)
          BY <4>1, <4>3, <4>6 DEF Decided
        <5>2. Live(status) <=> Live(j.to) BY <5>1, NextStatusIs DEF MovesStock, Live
        <5> QED BY <2>1, <4>6, <5>2 DEF Knows
      <4>7. CASE j.kind \notin {"cancel", "deskCancel", "move"} BY <2>1, <3>1, <4>7 DEF Knows
      <4> QED BY <3>1, <4>4, <4>5, <4>6, <4>7 DEF Books
    <3>5. doubtful \subseteq doubtful' BY <3>2
    <3> QED BY <2>1, <3>1, <3>3, <3>4, <3>5, BookInvKept
  <2> QED BY <1>1, <2>2, <2>3 DEF Arrival
<1>2. ASSUME NEW t \in Tasks, NEW j, Statement(t, j) PROVE BookInv'
  <2>1. /\ j \in JobType /\ JobOK(j) /\ UNCHANGED <<book, doubtful>> /\ task' = [task EXCEPT ![t] = j]
        /\ j.kind = task[t].kind /\ j.of = task[t].of /\ j.to = task[t].to
    BY <1>2, StatementOK DEF Statement, Becomes, Same
  <2>2. \A s \in Tasks : s # t /\ task[s].of = j.of /\ (Unlocked(j.kind) \/ Unlocked(task[s].kind))
          => j.of \in doubtful'
    BY <2>1 DEF BookInv
  <2>3. ASSUME j.of \in Books \ doubtful' PROVE Knows(j)
    <3>1. Knows(task[t]) BY <2>1, <2>3 DEF BookInv
    <3>2. ASSUME j.of \in j.held, j.of \notin task[t].held,
                 j.kind \in {"shopCancel", "confirm", "restore"}
          PROVE  /\ j.kind = "shopCancel" => book[j.of].status = "CONFIRMED"
                 /\ j.kind = "confirm" => book[j.of].status = "SUBMITTED"
                 /\ j.kind = "restore" => book[j.of].status \in {"DRAFT", "SUBMITTED", "CONFIRMED"}
      <4>1. Locking(t, j) /\ Row(t) = j.of
        BY <1>2, <3>2 DEF Statement, GoesOn, Locking
      <4>2. Row(t) \notin Shops /\ Row(t) \notin Products
        BY <2>3, <4>1 DEF ConstantsAssumption
      <4>3. StillAllowed(t) BY <4>1, <4>2 DEF Locking, LocksShop, LocksBook, LocksProduct
      <4>4. JobOK(task[t]) /\ task[t].kind = j.kind BY <2>1 DEF StateInv
      <4>5. CASE j.kind = "shopCancel"
        BY <2>1, <4>3, <4>5 DEF StillAllowed, Unlocked
      <4>6. CASE j.kind = "confirm"
        <5>1. task[t].to = "CONFIRMED" BY <4>4, <4>6 DEF JobOK
        <5>2. task[t].to \in NextStatus(book[j.of].status)
          BY <2>1, <4>3, <4>6 DEF StillAllowed, Unlocked
        <5> QED BY <4>6, <5>1, <5>2, NextStatusIs
      <4>7. CASE j.kind = "restore"
        <5>1. task[t].to = "CANCELLED" BY <4>4, <4>7 DEF JobOK
        <5>2. task[t].to \in NextStatus(book[j.of].status)
          BY <2>1, <4>3, <4>7 DEF StillAllowed, Unlocked
        <5> QED BY <4>7, <5>1, <5>2, NextStatusIs
      <4> QED BY <3>2, <4>5, <4>6, <4>7
    <3> QED BY <2>1, <3>1, <3>2 DEF Knows
  <2> QED BY <2>1, <2>2, <2>3, BookInvKept
<1>3. ASSUME NEW t \in Tasks, Fail(t) PROVE BookInv'
  <2>1. /\ Idle \in JobType /\ JobOK(Idle) /\ UNCHANGED book /\ task' = [task EXCEPT ![t] = Idle]
        /\ doubtful \subseteq doubtful'
        /\ task[t].kind = "deskRestore" => task[t].of \in doubtful'
    BY <1>3, IdleOK DEF Fail
  <2>2. \A s \in Tasks : Unlocked(task[s].kind) => task[s].of \in Books
    BY DEF StateInv, JobOK, Unlocked, CancelKinds, Books
  <2>3. ~Unlocked(Idle.kind) BY <1>0 DEF Unlocked
  <2> QED BY <1>0, <2>1, <2>2, <2>3, BookInvKept
<1>4. ASSUME NEW t \in Tasks, Commit(t) PROVE BookInv' BY <1>4, BookInvCommit
<1>5. ASSUME NEW p \in Products, NEW n \in Levels[p], AdjustStock(p, n) PROVE BookInv'
  BY <1>5 DEF AdjustStock, BookInv, HeldOnce, Knows, GivesBack, On, Live
<1>6. CASE UNCHANGED vars BY <1>6 DEF vars, BookInv, HeldOnce, Knows, GivesBack, On, Live
<1> QED BY <1>0, <1>1, <1>2, <1>3, <1>4, <1>5, <1>6, ArriveIs, StepIs DEF Next, Crash

-----------------------------------------------------------------------------
(* The four parts together.                                                *)

IInv == StateInv /\ LockInv /\ PlaceInv /\ BookInv

(* The inductive invariant holds of the specification.                     *)
THEOREM Invariance == Spec => []IInv
<1>1. Init => IInv
  BY ConstantsAssumption, StateInvInit, LockInvInit, PlaceInvInit, BookInvInit DEF IInv
<1>2. IInv /\ [Next]_vars => IInv'
  BY ConstantsAssumption, StateInvNext, LockInvNext, PlaceInvNext, BookInvNext DEF IInv
<1> QED BY <1>1, <1>2, PTL DEF Spec

(* Every variable has its type; in particular no stock is ever sold below  *)
(* zero, by checkouts and bulk orders that run at the same time.           *)
THEOREM TypeCorrect == Spec => []TypeOK
<1>1. IInv => TypeOK BY DEF IInv, StateInv
<1> QED BY <1>1, Invariance, PTL

(* No change of a stock is lost: each is read, computed and written under  *)
(* one lock that is held until the commit.                                 *)
THEOREM NoChangeIsLost == Spec => []StockIsSum
<1>1. IInv => StockIsSum BY DEF IInv, LockInv
<1> QED BY <1>1, Invariance, PTL

(* An attempt at a checkout gets the orders of all its shops or none, and  *)
(* gets them once however often its request is repeated.                   *)
THEOREM AttemptPlacedOnce == Spec => []OncePerAttempt
<1>1. IInv => OncePerAttempt BY DEF IInv, PlaceInv
<1> QED BY <1>1, Invariance, PTL

(* An order that no unlocked read or failed restore has put in doubt holds *)
(* its lines once while it lives and not at all before and after.          *)
THEOREM LinesHeldOnce == Spec => []HeldOnce
<1>1. IInv => HeldOnce BY DEF IInv, BookInv
<1> QED BY <1>1, Invariance, PTL

-----------------------------------------------------------------------------
(* Requests never wait for each other for ever.                            *)

(* The elements of a finite set can be listed.                             *)
LEMMA ListingExists == ASSUME NEW S, IsFiniteSet(S) PROVE Listings(S) # {}
<1> DEFINE n == Cardinality(S)
<1>1. ExistsBijection(1..n, S) /\ n \in Nat BY FS_CardinalityType
<1>2. PICK q \in Bijection(1..n, S) : TRUE BY <1>1 DEF ExistsBijection
<1>3. q \in [1..n -> S] /\ \A x \in S : \E i \in 1..n : q[i] = x
  BY <1>2 DEF Bijection, Injection, Surjection
<1>4. DOMAIN q = 1..n BY <1>3
<1>5. InSeq(q) = S BY <1>3, <1>4 DEF InSeq
<1>6. q \in Listings(S) BY <1>3, <1>5 DEF Listings
<1> QED BY <1>6

(* So can the lines of an order, and those a request about a book gives    *)
(* back.                                                                   *)
LEMMA LinesExist ==
  ASSUME ConstantsAssumption, StateInv, NEW t \in Tasks,
         task[t].kind # "none", task[t].kind # "place"
  PROVE  /\ LinesOf(t) # {}
         /\ task[t].of \in Orders => Listings(Lines(task[t].of)) # {}
<1>1. JobOK(task[t]) /\ task[t] \in JobType BY DEF StateInv, TypeOK
<1>2. task[t].of \in Books BY <1>1 DEF JobOK, JobType, CancelKinds, Books
<1>3. ASSUME task[t].of \in Orders PROVE Listings(Lines(task[t].of)) # {}
  <2>1. Cart[task[t].of[1]] \in Seq(Shops \cup Products)
    BY <1>3 DEF Orders, ConstantsAssumption
  <2>2. Lines(task[t].of) \subseteq InSeq(Cart[task[t].of[1]]) BY DEF Lines
  <2>3. IsFiniteSet(InSeq(Cart[task[t].of[1]])) BY <2>1, RowsOfSeq
  <2>4. IsFiniteSet(Lines(task[t].of)) BY <2>2, <2>3, FS_Subset
  <2> QED BY <2>4, ListingExists
<1> QED BY <1>2, <1>3 DEF LinesOf, Books

(* A request that may not go on is idle or waits for a row that another    *)
(* request has locked.                                                     *)
LEMMA StuckWaits ==
  ASSUME ConstantsAssumption, StateInv, NEW t \in Tasks, task[t] # Idle, ~MayStep(t)
  PROVE  \E s \in Tasks \ {t} : task[s] # Idle /\ WaitsFor(t, s)
<1>1. JobOK(task[t]) /\ task[t] \in JobType BY DEF StateInv, TypeOK
<1>2. task[t].kind # "none" /\ task[t].at # "idle" BY <1>1 DEF JobOK
<1>3. At(t, "work")
  <2>1. task[t].at \notin {"connect", "warehouse"} BY DEF MayStep, GetsConnection, TimesOut, At
  <2>2. task[t].at # "items"
    <3>1. task[t].at = "items" => task[t].kind = "cancel" BY <1>1 DEF JobOK
    <3>2. task[t].at = "items" => LinesOf(t) # {} BY <1>2, <3>1, LinesExist
    <3> QED BY <3>2 DEF MayStep, GetsConnection, TimesOut, At
  <2> QED BY <1>1, <1>2, <2>1, <2>2 DEF JobType, At
<1>4. task[t].todo # <<>>
  <2>1. SUFFICES ASSUME task[t].todo = <<>> PROVE FALSE OBVIOUS
  <2>2. ReadyToCommit(t) BY <1>3, <2>1 DEF ReadyToCommit
  <2>3. task[t].kind = "deskCancel" => task[t].of \in Orders BY <1>1 DEF JobOK, CancelKinds
  <2>4. task[t].kind = "deskCancel" => Listings(Lines(task[t].of)) # {}
    BY <1>2, <2>3, LinesExist
  <2> QED BY <2>2, <2>4 DEF MayStep
<1>5. Row(t) \in Rows /\ Row(t) \in InSeq(task[t].todo)
  BY <1>1, <1>4, RowsOfTail DEF JobType, Row
<1>6. ~Free(t, Row(t))
  <2>1. SUFFICES ASSUME Free(t, Row(t)) PROVE FALSE OBVIOUS
  <2>2. Row(t) \in Books
    BY <1>3, <1>4, <1>5, <2>1 DEF MayStep, Reaches, Rows
  <2>3. task[t].kind # "place"
    <3>1. SUFFICES ASSUME task[t].kind = "place" PROVE FALSE OBVIOUS
    <3>2. task[t].of \in Attempts /\ Row(t) \in InSeq(Cart[task[t].of])
      BY <1>1, <1>5, <3>1 DEF JobOK
    <3>3. Cart[task[t].of] \in Seq(Shops \cup Products) BY <3>2 DEF ConstantsAssumption
    <3>4. Row(t) \in Shops \cup Products BY <3>2, <3>3, RowsOfSeq
    <3> QED BY <2>2, <3>4 DEF ConstantsAssumption
  <2>4. LinesOf(t) # {} BY <1>2, <2>3, LinesExist
  <2>5. Reaches(t, Books) BY <1>3, <1>4, <2>1, <2>2 DEF Reaches
  <2> QED BY <2>4, <2>5 DEF MayStep
<1>7. PICK s \in Tasks \ {t} : Row(t) \in task[s].held BY <1>6 DEF Free
<1>8. task[s] # Idle BY <1>7 DEF Idle, Job
<1>9. WaitsFor(t, s) BY <1>3, <1>4, <1>7 DEF WaitsFor
<1> QED BY <1>7, <1>8, <1>9

(* Where each of finitely many requests waits for another one of them,     *)
(* some of them wait in a circle: of the sets of which that is true, take  *)
(* one without a smaller one in it.  If nobody in it waited for one of     *)
(* its members, it would be true without that member too.                  *)
LEMMA WaitersDeadlock ==
  ASSUME IsFiniteSet(Tasks), NEW W \in SUBSET Tasks, W # {},
         \A t \in W : \E s \in W \ {t} : WaitsFor(t, s)
  PROVE  \E t \in W : Deadlocked(t)
<1> DEFINE Waiters == {S \in SUBSET W : S # {} /\ \A t \in S : \E s \in S \ {t} : WaitsFor(t, s)}
           R == StrictSubsetOrdering(Tasks)
<1>1. IsWellFoundedOn(R, FiniteSubsetsOf(Tasks)) BY FS_StrictSubsetOrderingWellFounded
<1>2. Waiters \subseteq FiniteSubsetsOf(Tasks)
  <2>1. \A S \in SUBSET Tasks : IsFiniteSet(S) BY FS_Subset
  <2> QED BY <2>1 DEF FiniteSubsetsOf
<1>3. W \in Waiters OBVIOUS
<1>4. \A S, T \in Waiters : S \subseteq T /\ S # T => <<S, T>> \in R
  BY DEF StrictSubsetOrdering
<1>5. PICK S \in Waiters : \A T \in Waiters : ~(<<T, S>> \in R)
  <2> HIDE DEF R, Waiters
  <2> QED BY <1>1, <1>2, <1>3, WFMin
<1>6. ASSUME NEW s \in S PROVE \E r \in S \ {s} : WaitsFor(r, s)
  <2>1. SUFFICES ASSUME \A r \in S \ {s} : ~WaitsFor(r, s) PROVE FALSE OBVIOUS
  <2> DEFINE T == S \ {s}
  <2>2. T # {} BY <1>5, <1>6
  <2>3. ASSUME NEW t \in T PROVE \E r \in T \ {t} : WaitsFor(t, r)
    <3>1. PICK r \in S \ {t} : WaitsFor(t, r) BY <1>5
    <3>2. r # s BY <2>1, <3>1
    <3> QED BY <3>1, <3>2
  <2>4. T \in Waiters BY <1>5, <2>2, <2>3
  <2>5. T \subseteq S /\ T # S BY <1>6
  <2> HIDE DEF R, Waiters, T
  <2> QED BY <1>4, <1>5, <2>4, <2>5
<1>7. PICK t \in S : TRUE BY <1>5
<1>8. Deadlocked(t) BY <1>5, <1>6, <1>7 DEF Deadlocked
<1> QED BY <1>5, <1>7, <1>8

(* Transactions lock rows in the order of their carts and borrow a second  *)
(* connection while they hold one, and yet they never stand still: as long *)
(* as a request is in progress, some request may take its next step, or is *)
(* timed out or aborted.                                                   *)
THEOREM NoStandstillHolds == Spec => []NoStandstill
<1>1. IInv => NoStandstill
  <2>1. SUFFICES ASSUME IInv, \E t \in Tasks : task[t] # Idle, \A t \in Tasks : ~MayStep(t)
                 PROVE  FALSE
    BY DEF NoStandstill
  <2> DEFINE W == {t \in Tasks : task[t] # Idle}
  <2>2. ConstantsAssumption /\ StateInv /\ IsFiniteSet(Tasks)
    BY <2>1, ConstantsAssumption DEF IInv, ConstantsAssumption
  <2>3. ASSUME NEW t \in W PROVE \E s \in W \ {t} : WaitsFor(t, s)
    <3>1. PICK s \in Tasks \ {t} : task[s] # Idle /\ WaitsFor(t, s) BY <2>1, <2>2, StuckWaits
    <3> QED BY <3>1
  <2>4. W # {} /\ W \in SUBSET Tasks BY <2>1
  <2>5. PICK t \in W : Deadlocked(t)
    <3> HIDE DEF W
    <3> QED BY <2>2, <2>3, <2>4, WaitersDeadlock
  <2> QED BY <2>1, <2>5 DEF MayStep
<1> QED BY <1>1, Invariance, PTL
=============================================================================

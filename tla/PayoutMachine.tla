--------------------------- MODULE PayoutMachine ---------------------------
(***************************************************************************)
(* The life of payouts: the table of payout-state-machine.js, from the     *)
(* settlement that creates a row to its payment, with what the table       *)
(* leaves out: the ledger entry that a payment writes, and the dashboard,  *)
(* which marks a payout paid by hand and writes none.                      *)
(***************************************************************************)
EXTENDS Naturals

CONSTANT Rows

VARIABLES
  state,    \* payout_status of each row; NONE before the settlement
  entries   \* PAYOUT_CREDIT entries of the ledger that refer to it

vars == <<state, entries>>

Init ==
  /\ state = [r \in Rows |-> "NONE"]
  /\ entries = [r \in Rows |-> 0]

Move(r, from, to) ==
  /\ state[r] = from
  /\ state' = [state EXCEPT ![r] = to]
  /\ UNCHANGED entries

Settle(r) == Move(r, "NONE", "PENDING")
Start(r) == Move(r, "PENDING", "PROCESSING")
Fail(r) == Move(r, "PROCESSING", "PENDING")
Hold(r) == Move(r, "PENDING", "HELD") \/ Move(r, "PROCESSING", "HELD")
Release(r) == Move(r, "HELD", "PENDING")
MarkPaid(r) == Move(r, "PENDING", "PAID")

(* With an entry, unless there was nothing to pay.                         *)
Paid(r) ==
  /\ state[r] = "PROCESSING"
  /\ state' = [state EXCEPT ![r] = "PAID"]
  /\ entries' \in {entries, [entries EXCEPT ![r] = @ + 1]}

Next ==
  \E r \in Rows :
    Settle(r) \/ Start(r) \/ Fail(r) \/ Hold(r) \/ Release(r) \/ MarkPaid(r) \/ Paid(r)

Spec == Init /\ [][Next]_vars

(* No payout has two entries, and none has one that is not PAID.           *)
CreditedOnce == \A r \in Rows : entries[r] \in {0, 1} /\ (entries[r] = 1 => state[r] = "PAID")
=============================================================================

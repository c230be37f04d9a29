------------------------------- MODULE Tender -------------------------------
(***************************************************************************)
(* What vendor procurement promises, whatever its handlers do: a           *)
(* requirement is won once, at one price; the goods are accepted once;     *)
(* what was accepted, and nothing else, enters the inventory once, and is  *)
(* offered for sale once.                                                  *)
(***************************************************************************)
EXTENDS Naturals

CONSTANTS Vendors, Rounded(_), NoVendor, NoReceipt

VARIABLES
  source,    \* where the goods come from: a vendor's award or the shop's own purchase
  winner,    \* the vendor the requirement was awarded to
  price,     \* what was agreed
  accepted,  \* the quantity accepted at receipt
  stocked,   \* the quantity that entered the inventory
  offered    \* the quantity put on sale

vars == <<source, winner, price, accepted, stocked, offered>>

Init ==
  /\ source = "NONE" /\ winner = NoVendor /\ price = 0
  /\ accepted = NoReceipt /\ stocked = 0 /\ offered = 0

Award ==
  /\ source = "NONE"
  /\ source' = "VENDOR" /\ winner' \in Vendors /\ price' \in Nat
  /\ UNCHANGED <<accepted, stocked, offered>>

Purchase ==
  /\ source = "NONE"
  /\ source' = "IN_HOUSE"
  /\ UNCHANGED <<winner, price, accepted, stocked, offered>>

Accept ==
  /\ source # "NONE" /\ accepted = NoReceipt
  /\ accepted' \in Nat
  /\ UNCHANGED <<source, winner, price, stocked, offered>>

Stock ==
  /\ accepted # NoReceipt /\ stocked = 0
  /\ stocked' = accepted
  /\ UNCHANGED <<source, winner, price, accepted, offered>>

Offer ==
  /\ stocked > 0 /\ offered = 0
  /\ offered' = Rounded(stocked)
  /\ UNCHANGED <<source, winner, price, accepted, stocked>>

Next == Award \/ Purchase \/ Accept \/ Stock \/ Offer

Spec == Init /\ [][Next]_vars

(* The goods come in order: accepted from somebody, stocked as accepted,   *)
(* offered as stocked.                                                     *)
InOrder ==
  /\ accepted # NoReceipt => source # "NONE"
  /\ stocked > 0 => accepted # NoReceipt /\ stocked = accepted
  /\ offered > 0 => stocked > 0 /\ offered = Rounded(stocked)

(* Nothing is decided, accepted, stocked or offered twice.                 *)
EachOnce ==
  /\ source # "NONE" => UNCHANGED <<source, winner, price>>
  /\ accepted # NoReceipt => UNCHANGED accepted
  /\ stocked > 0 => UNCHANGED stocked
  /\ offered > 0 => UNCHANGED offered
=============================================================================

----------------------------- MODULE MCDelivery -----------------------------
(* Instances of Delivery for TLC.                                          *)
EXTENDS Delivery, TLC

(* An order paid in cash at the door, and one that is not.                 *)
MCKinds == [cod : BOOLEAN, due : {1}]

Symmetry == Permutations(Orders) \cup Permutations(Riders) \cup Permutations(Tasks)
=============================================================================

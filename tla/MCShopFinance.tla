--------------------------- MODULE MCShopFinance ---------------------------
(* Instances of ShopFinance for TLC.                                       *)
EXTENDS ShopFinance, TLC

CONSTANTS d1, o1

MCDay == o1 :> d1
Symmetric == Permutations(Settlers) \cup Permutations(Payers)
=============================================================================

--------------------------- MODULE MCWalletLedger ---------------------------
(* Instances of WalletLedger for TLC.                                      *)
EXTENDS WalletLedger, TLC

CONSTANTS u1, u2, k1, o1

MCOwner == k1 :> u1
MCPayer == o1 :> u1
MCReturnCap == u1 :> 1 @@ u2 :> 0
=============================================================================

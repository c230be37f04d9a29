------------------------- MODULE MCRefundRequests -------------------------
(* Instances of RefundRequests for TLC.                                    *)
EXTENDS RefundRequests, TLC

Symmetry == Permutations(Reqs) \cup Permutations(Tasks)

AllFaults == {"dbError", "crash"}
OnlyDbError == {"dbError"}
NoFaults == {}
=============================================================================

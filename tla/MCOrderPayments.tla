------------------------- MODULE MCOrderPayments -------------------------
(* Instances of OrderPayments for TLC: which requests arrive, and how each *)
(* order's bill splits into wallet slice and gateway payment.              *)
EXTENDS OrderPayments, TLC

CONSTANTS o1, o2

Symmetry == Permutations(Pays) \cup Permutations(Tasks)

CheckoutRequests == {"pay", "verify", "failed", "expiry", "sweep", "reconcile",
                     "cancel", "crash"}
DeskRequests == {"pay", "webhook", "mismatch", "sweep", "status",
                 "toOriginal", "cancelToWallet", "refund", "refunded", "rider",
                 "settle", "reverse", "crash"}
CancelRequests == {"pay", "verify", "cancel"}

PartWallet == [o \in Orders |-> 1]
NoWallet == [o \in Orders |-> 0]
OneDue == [o \in Orders |-> 1]
OneCovered == [o \in Orders |-> IF o = o2 THEN 0 ELSE 1]
=============================================================================

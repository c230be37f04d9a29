------------------------ MODULE MCVendorProcurement ------------------------
EXTENDS VendorProcurement, TLC

CONSTANTS v1, v2, v3, pin, farPin, meat, fish, town, t3

(* v1 serves the shop's pincode, v2 lives in its town, v3 only sells fish. *)
MCProfile ==
  v1 :> [active |-> TRUE, member |-> TRUE, categories |-> {meat}, areas |-> {pin},
         assigned |-> FALSE, pincode |-> farPin, city |-> NoPlace]
  @@ v2 :> [active |-> TRUE, member |-> TRUE, categories |-> {}, areas |-> {},
            assigned |-> FALSE, pincode |-> NoPlace, city |-> town]
  @@ v3 :> [active |-> TRUE, member |-> TRUE, categories |-> {fish}, areas |-> {pin},
            assigned |-> TRUE, pincode |-> pin, city |-> town]

Symmetric == Permutations(Tasks \ {t3}) \cup Permutations(Quotes)

(* Bound: the third request only publishes, and comes before the award.    *)
(* While it runs, and after the award, vendors and drafts are done.        *)
Bound ==
  LET busy == {t \in Tasks : task[t] # Idle} IN
  /\ t3 \in busy => request.mode = "FIXED_OFFER" /\ task[t3].at \in {"publish", "recipients"}
  /\ supply.status # "NONE" => Cardinality(busy) <= 2
  /\ t3 \in busy \/ supply.status # "NONE" =>
       \A t \in busy : task[t].at \notin {"editHeader", "deleteItems", "insertItems", "decline",
                                       "respond", "insertQuote", "updateQuote", "withdraw"}
=============================================================================

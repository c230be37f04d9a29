---------------------------- MODULE MCShopStock ----------------------------
(* Instances of ShopStock for TLC.                                         *)
EXTENDS ShopStock, TLC

CONSTANTS s1, s2, p1, p2, p3, a1, a2, b1, t1, t2

MCShopOf == (p1 :> s1) @@ (p2 :> s1) @@ (p3 :> s2)
MCCart == (a1 :> <<s1, p1, p2>>) @@ (a2 :> <<s2, p3, s1, p1>>)
MCBulkLines == b1 :> <<p2, p1>>
MCLevels == (p1 :> {0}) @@ (p2 :> {}) @@ (p3 :> {})

(* Bound: one book is in doubt at a time.                                  *)
OneDoubt == Cardinality(doubtful) <= 1

(* Requests are interchangeable.                                           *)
TaskSymmetry == Permutations(Tasks)
=============================================================================

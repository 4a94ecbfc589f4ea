---------------------------- MODULE MCConnections ----------------------------
(* Two users who have sold to each other.                                  *)
EXTENDS OrderConnections, TLC

CONSTANTS u1, u2, o1, o2

SellerOf == o1 :> u1 @@ o2 :> u2
BuyerOf  == o1 :> u2 @@ o2 :> u1
=============================================================================

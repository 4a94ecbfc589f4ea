------------------------------- MODULE MCOrders -------------------------------
(***************************************************************************)
(* Constants for the runs of OrderRequests.                                *)
(***************************************************************************)
EXTENDS OrderRefinement, TLC

AllRequests == MovingOps \cup PlainOps \cup RowOps
NotHide == AllRequests \ {"hide"}
Trade == {"sell", "accept", "payment", "receipt"}

\* An amount below zero, which the controller lets through, and a proper one.
OneEitherWay == {-1, 1}

OneEach == [u \in Users |-> 1]
TwoEach == [u \in Users |-> 2]

\* Users, workers and orders are interchangeable: all start alike.
Alike == Permutations(Users) \cup Permutations(Workers) \cup Permutations(Orders)
===============================================================================

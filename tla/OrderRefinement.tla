--------------------------- MODULE OrderRefinement ---------------------------
(***************************************************************************)
(* OrderRequests implements OrderLifecycle.  A handler takes effect when   *)
(* T1 commits, so the mapping hides what the committed T2 of a handler in  *)
(* phase "moved" has done so far.                                          *)
(***************************************************************************)
EXTENDS OrderAudit

\* The handlers whose T2 has moved money of user u.
MovedFor(u) == {w \in Workers : req[w].phase = "moved" /\ req[w].account = u}

\* What the T2 of handler w took from the free balance and added to the
\* blocked one.
TakenFromFree(w) ==
  CASE req[w].op \in {"sell", "accept"}    -> req[w].amount
    [] req[w].op \in {"cancel", "resolve"} -> -req[w].amount
    [] OTHER                               -> 0

AddedToBlocked(w) ==
  IF req[w].op = "receipt" THEN -req[w].amount ELSE TakenFromFree(w)

TradeCounted(w) == IF req[w].op = "receipt" THEN 1 ELSE 0

\* What these handlers have moved of a user's so far.
TakenSoFar(u) == SumFunction([w \in MovedFor(u) |-> TakenFromFree(w)])
AddedSoFar(u) == SumFunction([w \in MovedFor(u) |-> AddedToBlocked(w)])
CountedSoFar(u) == SumFunction([w \in MovedFor(u) |-> TradeCounted(w)])

Lifecycle == INSTANCE OrderLifecycle WITH
  free   <- [u \in Users |-> balance[u] + TakenSoFar(u)],
  held   <- [u \in Users |-> blocked[u] - AddedSoFar(u)],
  trades <- [u \in Users |-> totalTrades[u] - CountedSoFar(u)]

\* One request at a time and nothing lost: every handler, with its two
\* transactions, is one atomic step of the lifecycle.
ImplementsLifecycle == Lifecycle!Spec
=============================================================================

---------------------------- MODULE OrderLifecycle ----------------------------
(***************************************************************************)
(* The abstract specification of OrdersService: what its requests do when  *)
(* each one happens at once.  Here there is no inner transaction, no stale *)
(* read and no half-done handler, only the order table, the disputes and   *)
(* each user's free and held funds.  OrderRequests implements it as long   *)
(* as requests come one at a time and none is lost.                        *)
(***************************************************************************)
EXTENDS OrderSchema

CONSTANTS
  InitBalance,  \* free funds of every user at the start
  Requests      \* the kinds of request that arrive

VARIABLES
  free,      \* what a user may spend
  held,      \* what a user has in escrow
  trades,    \* trades counted for a user
  orders,
  disputes

lifecycleVars == <<free, held, trades, orders, disputes>>

Init ==
  /\ free = InitBalance
  /\ held = [u \in Users |-> 0]
  /\ trades = [u \in Users |-> 0]
  /\ orders = [o \in Orders |-> NoOrder]
  /\ disputes = [o \in Orders |-> "NONE"]

\* Money goes into escrow and comes back.
Hold(u, amount) ==
  /\ free[u] >= amount
  /\ free' = [free EXCEPT ![u] = @ - amount]
  /\ held' = [held EXCEPT ![u] = @ + amount]

GiveBack(u, amount) ==
  /\ held[u] >= amount
  /\ free' = [free EXCEPT ![u] = @ + amount]
  /\ held' = [held EXCEPT ![u] = @ - amount]

To(o, status) ==
  /\ CanTransition(orders[o].status, status)
  /\ orders' = [orders EXCEPT ![o].status = status]

Sell(o, u, amount, rate) ==
  /\ orders[o] = NoOrder
  /\ Hold(u, amount)
  /\ orders' = [orders EXCEPT ![o] =
       [NewOrder("SELL", u, amount, rate)
          EXCEPT !.status = "RESERVED", !.reserved = amount]]
  /\ UNCHANGED <<trades, disputes>>

Buy(o, u, amount, rate) ==
  /\ orders[o] = NoOrder
  /\ orders' = [orders EXCEPT ![o] = NewOrder("BUY", u, amount, rate)]
  /\ UNCHANGED <<free, held, trades, disputes>>

Accept(o, u, amount) ==
  /\ orders[o].type = "SELL"
  /\ CanTransition(orders[o].status, "PAYMENT_PENDING")
  /\ Hold(u, amount * orders[o].rate)
  /\ orders' = [orders EXCEPT ![o].status = "PAYMENT_PENDING", ![o].buyer = u,
                              ![o].reserved = @ + amount * orders[o].rate]
  /\ UNCHANGED <<trades, disputes>>

ConfirmPayment(o, u) ==
  /\ orders[o].seller = u
  /\ To(o, "PAID")
  /\ UNCHANGED <<free, held, trades, disputes>>

\* Both shares leave the exchange; the seller's trade is counted twice.
ConfirmReceipt(o, u) ==
  LET s == orders[o].seller
      p == orders[o].amount IN
  /\ orders[o].buyer = u
  /\ CanTransition(orders[o].status, "CONFIRMED")
  /\ held' = [v \in Users |->
                held[v] - (IF v = s THEN p ELSE 0)
                        - (IF v = u THEN p * orders[o].rate ELSE 0)]
  /\ trades' = [v \in Users |->
                  trades[v] + (IF v = s THEN 2 ELSE 0) + (IF v = u THEN 1 ELSE 0)]
  /\ orders' = [orders EXCEPT ![o].status = "COMPLETED"]
  /\ UNCHANGED <<free, disputes>>

Cancel(o, u) ==
  /\ u \in {orders[o].seller, orders[o].buyer}
  /\ orders[o].reserved > 0
  /\ GiveBack(u, orders[o].reserved)
  /\ To(o, "CANCELLED")
  /\ UNCHANGED <<trades, disputes>>

\* An order that holds nothing, as every BUY order, or less than nothing, is
\* cancelled whatever the caller has in escrow.
CancelUnfunded(o, u) ==
  /\ u \in {orders[o].seller, orders[o].buyer}
  /\ orders[o].reserved <= 0
  /\ To(o, "CANCELLED")
  /\ UNCHANGED <<free, held, trades, disputes>>

Dispute(o) ==
  /\ disputes[o] = "NONE"
  /\ To(o, "DISPUTED")
  /\ disputes' = [disputes EXCEPT ![o] = "OPEN"]
  /\ UNCHANGED <<free, held, trades>>

Resolve(o, winner) ==
  /\ GiveBack(winner, orders[o].reserved)
  /\ To(o, "RESOLVED")
  /\ disputes' = [disputes EXCEPT ![o] = "RESOLVED"]
  /\ UNCHANGED trades

Hide(o) ==
  /\ orders[o] # NoOrder
  /\ orders' = [orders EXCEPT ![o].status = "HIDDEN"]
  /\ UNCHANGED <<free, held, trades, disputes>>

\* A request of each kind that arrives in this run.
Next ==
  \E o \in Orders :
    \/ \E u \in Users, a \in Amounts, r \in Rates :
         \/ "sell" \in Requests /\ Sell(o, u, a, r)
         \/ "buy" \in Requests /\ Buy(o, u, a, r)
    \/ \E u \in Users, a \in Amounts : "accept" \in Requests /\ Accept(o, u, a)
    \/ \E u \in Users :
         \/ "payment" \in Requests /\ ConfirmPayment(o, u)
         \/ "receipt" \in Requests /\ ConfirmReceipt(o, u)
         \/ "cancel" \in Requests /\ (Cancel(o, u) \/ CancelUnfunded(o, u))
         \/ "resolve" \in Requests /\ Resolve(o, u)
    \/ "dispute" \in Requests /\ Dispute(o)
    \/ "hide" \in Requests /\ Hide(o)

Spec == Init /\ [][Next]_lifecycleVars
=============================================================================

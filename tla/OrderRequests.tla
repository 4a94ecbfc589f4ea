---------------------------- MODULE OrderRequests ----------------------------
(***************************************************************************)
(* OrdersService (orders.service.ts) as the API serves it: every request   *)
(* is a handler running in an interactive database transaction T1, any     *)
(* number of them interleaved over the API replicas.  A handler that moves *)
(* money calls TransactionsService, whose own transaction T2 runs on a     *)
(* second connection and COMMITS before T1 does.  The steps of a handler:  *)
(*                                                                         *)
(*   idle --Begin--> checked --FundsRead--> read --FundsMove--> moved      *)
(*                      |                                         |        *)
(*                      +----------(no call of T2)----------------+        *)
(*                                     |                                   *)
(*                                  Finish --> idle                        *)
(*                                                                         *)
(*   Begin      T1 reads the order and makes the handler's checks          *)
(*   FundsRead  T2 reads the user row and makes its check                  *)
(*   FundsMove  T2 updates the user row, inserts its ledger row, commits   *)
(*   Finish     T1 writes the order from the row it read, and commits      *)
(*   Refuse     a check after Begin fails: T1 rolls back                   *)
(*   Abort      T1 is lost (5 s timeout, deadlock victim, lost connection, *)
(*              crash of the replica): T1 rolls back, a committed T2 stays *)
(*                                                                         *)
(* The free-balance check T1 makes in createOrder and acceptOrder is       *)
(* repeated by T2 and changes nothing when it fails, so FundsRead stands   *)
(* for both.  T1's writes take effect when it commits, so Finish makes     *)
(* them in one step; the one T1 write that comes before T2, resolveDispute *)
(* locking the dispute row, is the guard DisputeRowFree.  The other waits   *)
(* for rows and connections are OrderConnections'.                         *)
(***************************************************************************)
EXTENDS EscrowAccounts

CONSTANTS
  Workers,      \* requests that can be in progress at one time
  Requests,     \* the kinds of request that arrive in this run
  ForeignKeys,  \* whether the database enforces Transaction.orderId -> Order.id
  MaxMove,      \* no request reserves more than this
  MaxFaults     \* bound of the run: how many handlers may be lost

MovingOps == {"sell", "accept", "receipt", "cancel", "resolve"}
PlainOps == {"payment", "dispute"}
RowOps == {"buy", "hide"}      \* one statement or transaction of its own

ASSUME WorkersAssumption == IsFiniteSet(Workers) /\ Workers # {}
ASSUME RequestsAssumption == Requests \subseteq MovingOps \cup PlainOps \cup RowOps
ASSUME ForeignKeysAssumption == ForeignKeys \in BOOLEAN
ASSUME MoveAssumption ==
  /\ MaxMove \in Nat
  /\ \A a \in Amounts : a <= MaxMove
  /\ \A a \in Amounts, r \in Rates : a * r <= MaxMove
ASSUME FaultsAssumption == MaxFaults \in Nat

VARIABLES
  orders,    \* the Order table, committed rows
  disputes,  \* the Dispute row of each order: "NONE", "OPEN" or "RESOLVED"
  req,       \* the handler each worker is running
  faults     \* handlers lost so far

vars == <<balance, blocked, totalTrades, ledger, orders, disputes, req, faults>>

\* A handler in progress: the order row as T1 read it (for "sell", the row T1
\* inserted), the caller, the account T2 works on and the amount it is called
\* with (0 for a handler that has no T2), and the balance T2 read.
Request == [phase: {"checked", "read", "moved"}, op: MovingOps \cup PlainOps,
            order: Orders, row: Order, user: Users, account: Users,
            amount: Int, before: Int]

Idle == [phase |-> "idle"]

TypeOK ==
  /\ AccountsTypeOK
  /\ orders \in [Orders -> Order]
  /\ disputes \in [Orders -> {"NONE", "OPEN", "RESOLVED"}]
  /\ req \in [Workers -> Request \cup {Idle}]
  /\ faults \in 0..MaxFaults

Init ==
  /\ AccountsInit
  /\ orders = [o \in Orders |-> NoOrder]
  /\ disputes = [o \in Orders |-> "NONE"]
  /\ req = [w \in Workers |-> Idle]
  /\ faults = 0

-----------------------------------------------------------------------------
(* Faulty variants, used only to show that the properties can fail.        *)

\* T1 commits although T2 has not run.
BugReadyToCommit(w) == req[w].phase \in {"checked", "moved"}

\* acceptOrder keeps the seller's share only.
BugAccepted(row, q) ==
  [row EXCEPT !.buyer = q.user, !.status = "PAYMENT_PENDING",
              !.reserved = q.row.reserved]

\* acceptOrder does not record who accepted.
BugAcceptedAnonymously(row, q) ==
  [row EXCEPT !.status = "PAYMENT_PENDING",
              !.reserved = q.row.reserved + q.amount]

\* A BUY order is marked as if its funds had been reserved.
BugCreated(row) == [row EXCEPT !.status = "RESERVED"]

\* The insert of the ledger row no longer checks its order.
BugLedgerRowAllowed(q) == TRUE

-----------------------------------------------------------------------------
(* The parts of a handler.                                                 *)

\* The Order table has a committed row for o.
Committed(o) == orders[o].status # "ABSENT"

\* No order row is committed, being inserted or mentioned: a uuid not used yet.
Fresh(o) ==
  /\ ~Committed(o)
  /\ \A w \in Workers : req[w] # Idle => req[w].order # o
  /\ \A i \in DOMAIN ledger : ledger[i].order # o

\* A worker takes a request whose checks in T1 pass.
Begin(w, op, o, row, user, account, amount) ==
  /\ op \in Requests
  /\ req[w] = Idle
  /\ req' = [req EXCEPT ![w] =
       [phase |-> "checked", op |-> op, order |-> o, row |-> row,
        user |-> user, account |-> account, amount |-> amount, before |-> 0]]
  /\ UNCHANGED <<accountVars, orders, disputes, faults>>

\* Whether the handler calls TransactionsService: cancelOrder does when the row
\* it read holds a reserve, the others whatever the amount.
CallsT2(q) == q.op \in MovingOps /\ (q.op = "cancel" => q.amount > 0)

\* The check T2 makes before it moves money; transferToSeller makes none.
FundsSuffice(q) ==
  CASE q.op \in {"sell", "accept"}    -> CanReserve(q.account, q.amount)
    [] q.op \in {"cancel", "resolve"} -> CanRelease(q.account, q.amount)
    [] OTHER                          -> TRUE

\* resolveDispute updates the dispute row before it calls T2 and keeps the row
\* locked until T1 ends: a second resolve of the order waits there.
DisputeRowFree(w) ==
  req[w].op = "resolve" =>
    \A v \in Workers \ {w} : req[v].phase \in {"read", "moved"} =>
      ~(req[v].op = "resolve" /\ req[v].order = req[w].order)

\* With the foreign key, T2 cannot insert a row that refers to the order T1
\* has inserted and not committed: createOrder's reserve fails.
LedgerRowAllowed(q) == ForeignKeys => Committed(q.order)

\* T2 is over, or the handler does not call it.
ReadyToCommit(w) ==
  /\ req[w] # Idle
  /\ req[w].phase = IF CallsT2(req[w]) THEN "moved" ELSE "checked"

\* The order row a committing T1 leaves, from the row it finds and the row q
\* it read: an UPDATE writes the columns it names and no other.
Reserved(q) == [q.row EXCEPT !.status = "RESERVED", !.reserved = q.amount]
Accepted(row, q) ==
  [row EXCEPT !.buyer = q.user, !.status = "PAYMENT_PENDING",
              !.reserved = q.row.reserved + q.amount]

\* A BUY order is only inserted; nothing is reserved and nothing updates it.
Created(row) == row

-----------------------------------------------------------------------------
(* Requests arrive.  Callers and amounts come from the request body.       *)

\* createOrder with type SELL: T1 inserts the row, still invisible to others.
BeginSell(w, o, u, amount, rate) ==
  /\ Fresh(o)
  /\ Begin(w, "sell", o, NewOrder("SELL", u, amount, rate), u, u, amount)

\* acceptOrder: any user, the seller included, for any amount; the body's
\* amount is not even tested.
BeginAccept(w, o, u, amount) ==
  /\ CanTransition(orders[o].status, "PAYMENT_PENDING")
  /\ orders[o].type = "SELL"
  /\ Begin(w, "accept", o, orders[o], u, u, amount * orders[o].rate)

\* confirmPayment, by the seller.
BeginPayment(w, o, u) ==
  /\ orders[o].seller = u
  /\ CanTransition(orders[o].status, "PAID")
  /\ Begin(w, "payment", o, orders[o], u, u, 0)

\* confirmReceipt, by the buyer: it checks the transition to CONFIRMED, writes
\* COMPLETED, and asks T2 to take the seller's share.
BeginReceipt(w, o, u) ==
  /\ orders[o].buyer = u
  /\ CanTransition(orders[o].status, "CONFIRMED")
  /\ orders[o].seller \in Users
  /\ Begin(w, "receipt", o, orders[o], u, orders[o].seller, orders[o].amount)

\* cancelOrder, by either party; the whole reserve goes to the caller.
BeginCancel(w, o, u) ==
  /\ CanTransition(orders[o].status, "CANCELLED")
  /\ u \in {orders[o].seller, orders[o].buyer}
  /\ Begin(w, "cancel", o, orders[o], u, u, orders[o].reserved)

\* createDispute: the caller need not be a party.
BeginDispute(w, o, u) ==
  /\ CanTransition(orders[o].status, "DISPUTED")
  /\ Begin(w, "dispute", o, orders[o], u, u, 0)

\* resolveDispute: the whole reserve goes to the named winner.
BeginResolve(w, o, winner) ==
  /\ orders[o].status = "DISPUTED"
  /\ Begin(w, "resolve", o, orders[o], winner, winner, orders[o].reserved)

-----------------------------------------------------------------------------
(* The inner transaction T2, and the requests that fail.                   *)

FundsRead(w) ==
  /\ req[w].phase = "checked"
  /\ CallsT2(req[w])
  /\ DisputeRowFree(w)
  /\ FundsSuffice(req[w])
  /\ req' = [req EXCEPT ![w].phase = "read",
                        ![w].before = balance[req[w].account]]
  /\ UNCHANGED <<accountVars, orders, disputes, faults>>

FundsMove(w) ==
  LET q == req[w] IN
  /\ q.phase = "read"
  /\ LedgerRowAllowed(q)
  /\ CASE q.op \in {"sell", "accept"} ->
            ReserveFunds(q.order, q.account, q.amount, q.before)
       [] q.op \in {"cancel", "resolve"} ->
            ReleaseFunds(q.order, q.account, q.amount, q.before)
       [] OTHER ->
            TransferToSeller(q.order, q.account, q.amount, q.before)
  /\ req' = [req EXCEPT ![w].phase = "moved"]
  /\ UNCHANGED <<orders, disputes, faults>>

\* T2 refuses the amount, its ledger row fails, or the dispute already exists.
Refuse(w) ==
  /\ \/ /\ req[w].phase = "checked"
        /\ CallsT2(req[w])
        /\ DisputeRowFree(w)
        /\ ~FundsSuffice(req[w])
     \/ /\ req[w].phase = "read"
        /\ ~LedgerRowAllowed(req[w])
     \/ /\ req[w].phase = "checked"
        /\ req[w].op = "dispute"
        /\ disputes[req[w].order] # "NONE"
  /\ req' = [req EXCEPT ![w] = Idle]
  /\ UNCHANGED <<accountVars, orders, disputes, faults>>

Abort(w) ==
  /\ req[w] # Idle
  /\ faults < MaxFaults
  /\ faults' = faults + 1
  /\ req' = [req EXCEPT ![w] = Idle]
  /\ UNCHANGED <<accountVars, orders, disputes>>

-----------------------------------------------------------------------------
(* T1 commits.                                                             *)

\* The end of a handler that leaves the money alone.
Finish(w, op, row) ==
  /\ req[w] # Idle
  /\ req[w].op = op
  /\ ReadyToCommit(w)
  /\ orders' = [orders EXCEPT ![req[w].order] = row]
  /\ req' = [req EXCEPT ![w] = Idle]
  /\ UNCHANGED faults

SetStatus(w, status) == [orders[req[w].order] EXCEPT !.status = status]

FinishSell(w) ==
  /\ Finish(w, "sell", Reserved(req[w]))
  /\ UNCHANGED <<accountVars, disputes>>

FinishAccept(w) ==
  /\ Finish(w, "accept", Accepted(orders[req[w].order], req[w]))
  /\ UNCHANGED <<accountVars, disputes>>

FinishPayment(w) ==
  /\ Finish(w, "payment", SetStatus(w, "PAID"))
  /\ UNCHANGED <<accountVars, disputes>>

\* confirmReceipt also takes the order's price from the buyer's blocked
\* balance, without a ledger row, and counts the trade for both parties.
FinishReceipt(w) ==
  LET row == req[w].row
      buyer == req[w].user
      counted == [totalTrades EXCEPT ![row.seller] = @ + 1] IN
  /\ Finish(w, "receipt", SetStatus(w, "COMPLETED"))
  /\ blocked' = [blocked EXCEPT ![buyer] = @ - row.amount * row.rate]
  /\ totalTrades' = [counted EXCEPT ![buyer] = @ + 1]
  /\ UNCHANGED <<balance, ledger, disputes>>

FinishCancel(w) ==
  /\ Finish(w, "cancel", SetStatus(w, "CANCELLED"))
  /\ UNCHANGED <<accountVars, disputes>>

\* createDispute: Dispute.orderId is unique.
FinishDispute(w) ==
  /\ Finish(w, "dispute", SetStatus(w, "DISPUTED"))
  /\ disputes[req[w].order] = "NONE"
  /\ disputes' = [disputes EXCEPT ![req[w].order] = "OPEN"]
  /\ UNCHANGED accountVars

FinishResolve(w) ==
  /\ Finish(w, "resolve", SetStatus(w, "RESOLVED"))
  /\ disputes' = [disputes EXCEPT ![req[w].order] = "RESOLVED"]
  /\ UNCHANGED accountVars

\* createOrder with type BUY, on a free worker: one transaction that inserts.
CreateBuy(w, o, u, amount, rate) ==
  /\ "buy" \in Requests /\ req[w] = Idle
  /\ Fresh(o)
  /\ orders' = [orders EXCEPT ![o] = Created(NewOrder("BUY", u, amount, rate))]
  /\ UNCHANGED <<accountVars, disputes, req, faults>>

\* hideOrder (admin), on a free worker: one UPDATE, whatever the status.
HideOrder(w, o) ==
  /\ "hide" \in Requests /\ req[w] = Idle
  /\ Committed(o)
  /\ orders' = [orders EXCEPT ![o].status = "HIDDEN"]
  /\ UNCHANGED <<accountVars, disputes, req, faults>>

-----------------------------------------------------------------------------

\* What a handler in progress does next.
Handle(w) ==
  \/ FundsRead(w) \/ FundsMove(w) \/ Refuse(w)
  \/ FinishSell(w) \/ FinishAccept(w) \/ FinishPayment(w) \/ FinishReceipt(w)
  \/ FinishCancel(w) \/ FinishDispute(w) \/ FinishResolve(w)

Next ==
  \/ \E w \in Workers, o \in Orders, u \in Users :
       \/ \E a \in Amounts, r \in Rates :
            BeginSell(w, o, u, a, r) \/ CreateBuy(w, o, u, a, r)
       \/ \E a \in Amounts : BeginAccept(w, o, u, a)
       \/ BeginPayment(w, o, u) \/ BeginReceipt(w, o, u)
       \/ BeginCancel(w, o, u) \/ BeginDispute(w, o, u) \/ BeginResolve(w, o, u)
  \/ \E w \in Workers, o \in Orders : HideOrder(w, o)
  \/ \E w \in Workers : Handle(w) \/ Abort(w)

Spec == Init /\ [][Next]_vars

-----------------------------------------------------------------------------
(* Safety: how far concurrent checks can overdraw an account.              *)

\* A release of less than nothing has taken from the free balance of u.
Drained(u) ==
  \E i \in DOMAIN ledger :
    /\ ledger[i].user = u /\ ledger[i].type = "RELEASE"
    /\ ledger[i].role = "owner" /\ ledger[i].amount < 0

\* The balance reserveFunds read may be spent by others before it decrements
\* (transactions.service.ts:92-111).  However the handlers interleave and
\* abort, a user is overdrawn by at most one full move for every OTHER handler
\* that can be in progress: one request at a time never overdraws.  The one
\* exception is a user resolveDispute gave a reserve below zero.
OverdraftBound ==
  \A u \in Users :
    Drained(u) \/ balance[u] >= -((Cardinality(Workers) - 1) * MaxMove)

-----------------------------------------------------------------------------
(* Safety: the order table and the ledger.                                 *)

HasRow(o, u, type, role, amount) ==
  \E i \in DOMAIN ledger :
    /\ ledger[i].order = o /\ ledger[i].user = u
    /\ ledger[i].type = type /\ ledger[i].role = role
    /\ ledger[i].amount = amount

DealStatuses == {"PAYMENT_PENDING", "PAID", "DISPUTED", "RESOLVED", "COMPLETED"}

\* A deal under way is a SELL order with both parties, and its reserve is the
\* sum of two amounts the ledger shows reserved for it: the seller's, and the
\* one of the buyer the row names, whichever of several acceptors won.
DealFunded ==
  \A o \in Orders :
    orders[o].status \in DealStatuses =>
      /\ orders[o].type = "SELL"
      /\ HasRow(o, orders[o].seller, "RESERVE", "owner", orders[o].amount)
      /\ HasRow(o, orders[o].buyer, "RESERVE", "owner",
                orders[o].reserved - orders[o].amount)

\* A final status is visible only after the money it promises has moved, at
\* every crash point: a completed order shows the seller's share taken, a
\* resolved one a release, and so does a cancelled one that held a reserve,
\* unless a reserve of the order was zero or below: then cancelOrder may have
\* read a reserve of nothing that an accept made positive meanwhile.
PaidBeforeFinal ==
  \A o \in Orders :
    LET Released ==
          \E u \in Users, i \in DOMAIN ledger :
            /\ ledger[i].order = o /\ ledger[i].user = u
            /\ ledger[i].type = "RELEASE" /\ ledger[i].role = "owner"
        PositiveReserves ==
          \A i \in DOMAIN ledger :
            (ledger[i].order = o /\ ledger[i].type = "RESERVE") =>
              ledger[i].amount > 0 IN
    /\ orders[o].status = "COMPLETED" =>
         HasRow(o, orders[o].seller, "RELEASE", "seller", orders[o].amount)
    /\ orders[o].status = "RESOLVED" => Released
    /\ (orders[o].status = "CANCELLED" /\ orders[o].reserved > 0
          /\ PositiveReserves) => Released

\* A BUY order is never accepted, reserved or disputed: nothing ever moves
\* money for it (orders.service.ts:145 and 200).  The message of line 201
\* says the opposite, that only BUY orders can be accepted, and the listing of
\* orders.service.spec.ts:221 has a BUY order in RESERVED.
BuyOrdersNeverTrade ==
  \A o \in Orders :
    orders[o].type = "BUY" =>
      /\ orders[o].status \in {"ABSENT", "PENDING", "CANCELLED", "HIDDEN"}
      /\ orders[o].reserved = 0

\* With the foreign key of schema.prisma enforced, createOrder's reserve fails
\* for every SELL order (orders.service.ts:146 runs before T1 commits), so no
\* money ever moves and no deal ever starts, in any interleaving.
ForeignKeyStopsTrading ==
  ForeignKeys =>
    /\ ledger = <<>>
    /\ \A o \in Orders :
         orders[o].status \in {"ABSENT", "PENDING", "CANCELLED", "HIDDEN"}

\* A user's money (free and blocked) changes in two steps of a confirmReceipt
\* only, and by the committed row's numbers, whatever the handler read and
\* whatever their sign: T2 takes the order's amount from its seller, and T1 the
\* order's price from the caller.  With an amount below zero both gain.
MoneyMovesByReceiptOnly ==
  [][\A u \in Users :
       LET gone == (balance[u] + blocked[u]) - (balance[u] + blocked[u])' IN
       \/ gone = 0
       \/ \E w \in Workers :
            LET row == orders[req[w].order] IN
            /\ req[w] # Idle /\ req[w].op = "receipt"
            /\ \/ /\ req[w].phase = "read" /\ req'[w].phase = "moved"
                  /\ u = row.seller /\ gone = row.amount
               \/ /\ req[w].phase = "moved" /\ req'[w] = Idle
                  /\ u = req[w].user /\ gone = row.amount * row.rate
    ]_vars

=============================================================================

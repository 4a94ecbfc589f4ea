------------------------- MODULE OrderRequestsProofs -------------------------
(***************************************************************************)
(* Proofs about OrderRequests, OrderAudit and OrderRefinement for any      *)
(* number of users, orders and workers, any amounts and rates, with or     *)
(* without foreign keys and faults, each from an inductive invariant of    *)
(* its own:                                                                *)
(*                                                                         *)
(*   types                      TypeOK                                     *)
(*   the overdraft bound        OverdraftInv, with OrdersKnown             *)
(*   deals, final statuses,     DealInv: what the row of every order       *)
(*   and where money goes       promises (OrderOK), and what a handler may *)
(*                              rely on when T1 commits although the order *)
(*                              row may have changed (HandlerOK)           *)
(*   the audit                  AuditInv: a handler's row keeps the amount *)
(*                              and the rate of its order, and until a     *)
(*                              handler is lost the users own what they    *)
(*                              began with, less the receipts' shares, and *)
(*                              what receipts have yet to take             *)
(*   the chain of ledger rows   ChainInv, when one request runs at a time  *)
(*   the refinement             AloneInv, when one request runs at a time  *)
(*                              and none is lost: what the handler checked *)
(*                              and read still holds; AccountsSeen, what   *)
(*                              the mapping makes of the accounts          *)
(***************************************************************************)
EXTENDS OrderRefinement, SumTheorems, TLAPS

-----------------------------------------------------------------------------
(* Types.                                                                  *)

\* The row createOrder inserts is an Order row.
LEMMA NewOrderType ==
  ASSUME NEW type \in Types, NEW u \in Users, NEW a \in Amounts, NEW r \in Rates
  PROVE  NewOrder(type, u, a, r) \in Order
  BY AmountAssumption, RateAssumption DEF NewOrder, Order, Statuses, Types

\* A request that begins leaves req a function to requests.
LEMMA BeginType ==
  ASSUME TypeOK, NEW w \in Workers, NEW op \in MovingOps \cup PlainOps,
         NEW o \in Orders, NEW row \in Order, NEW u \in Users,
         NEW account \in Users, NEW amount \in Int,
         Begin(w, op, o, row, u, account, amount)
  PROVE  TypeOK'
  <1> DEFINE q == [phase |-> "checked", op |-> op, order |-> o, row |-> row,
                   user |-> u, account |-> account, amount |-> amount,
                   before |-> 0]
  <1>1. q \in Request
    BY DEF Request
  <1>2. req' = [req EXCEPT ![w] = q]
    BY DEF Begin
  <1>3. req' \in [Workers -> Request \cup {Idle}]
    BY <1>1, <1>2 DEF TypeOK
  <1>4. UNCHANGED <<balance, blocked, totalTrades, ledger, orders, disputes, faults>>
    BY DEF Begin, accountVars
  <1> QED
    BY <1>3, <1>4 DEF TypeOK, AccountsTypeOK

\* Only an idle worker has the value Idle: a phase tells a request from it.
LEMMA BusyType ==
  ASSUME TypeOK, NEW w \in Workers, req[w] # Idle
  PROVE  req[w] \in Request
  BY DEF TypeOK

LEMMA PhaseType ==
  ASSUME TypeOK, NEW w \in Workers, req[w].phase \in {"checked", "read", "moved"}
  PROVE  req[w] # Idle /\ req[w] \in Request
  BY DEF TypeOK, Idle

LEMMA ProductType ==
  ASSUME NEW a \in Int, NEW b \in Int
  PROVE  a * b \in Int
  OBVIOUS

\* A debit, a credit and confirmReceipt's two counts keep the types of the
\* accounts.
LEMMA TakenType ==
  ASSUME NEW f \in [Users -> Int], NEW u \in Users, NEW a \in Int
  PROVE  /\ [f EXCEPT ![u] = @ - a] \in [Users -> Int]
         /\ [f EXCEPT ![u] = @ + a] \in [Users -> Int]
  <1>1. f[u] - a \in Int /\ f[u] + a \in Int
    OBVIOUS
  <1> QED
    BY <1>1

LEMMA CountType ==
  ASSUME NEW f \in [Users -> Nat], NEW u
  PROVE  [f EXCEPT ![u] = @ + 1] \in [Users -> Nat]
  <1>1. CASE u \in Users
    <2>1. f[u] + 1 \in Nat
      BY <1>1
    <2> QED
      BY <2>1
  <1>2. CASE u \notin Users
    <2>1. [f EXCEPT ![u] = @ + 1] = f
      BY <1>2
    <2> QED
      BY <2>1
  <1> QED
    BY <1>1, <1>2

LEMMA CountedType ==
  ASSUME NEW f \in [Users -> Nat], NEW u, NEW v
  PROVE  [[f EXCEPT ![u] = @ + 1] EXCEPT ![v] = @ + 1] \in [Users -> Nat]
  <1> DEFINE g == [f EXCEPT ![u] = @ + 1]
  <1>1. g \in [Users -> Nat]
    BY CountType
  <1> HIDE DEF g
  <1>2. [g EXCEPT ![v] = @ + 1] \in [Users -> Nat]
    BY <1>1, CountType
  <1> QED
    BY <1>2 DEF g

\* Each of TransactionsService's operations keeps the types of the accounts.
LEMMA MoveType ==
  ASSUME AccountsTypeOK, NEW o \in Orders, NEW u \in Users, NEW a \in Int,
         NEW b \in Int,
         \/ ReserveFunds(o, u, a, b)
         \/ ReleaseFunds(o, u, a, b)
         \/ TransferToSeller(o, u, a, b)
  PROVE  AccountsTypeOK'
  <1>1. Entry(o, u, "RESERVE", "owner", a, b, b - a) \in LedgerRow
    BY DEF Entry, LedgerRow
  <1>2. Entry(o, u, "RELEASE", "owner", a, b, b + a) \in LedgerRow
    BY DEF Entry, LedgerRow
  <1>3. Entry(o, u, "RELEASE", "seller", a, b, b) \in LedgerRow
    BY DEF Entry, LedgerRow
  <1>4. CASE ReserveFunds(o, u, a, b)
    BY <1>1, <1>4, TakenType DEF ReserveFunds, AccountsTypeOK
  <1>5. CASE ReleaseFunds(o, u, a, b)
    BY <1>2, <1>5, TakenType DEF ReleaseFunds, AccountsTypeOK
  <1>6. CASE TransferToSeller(o, u, a, b)
    BY <1>3, <1>6 DEF TransferToSeller, AccountsTypeOK
  <1> QED
    BY <1>4, <1>5, <1>6

\* The steps of Next, one by one.
LEMMA TypeStep == TypeOK /\ [Next]_vars => TypeOK'
  <1> SUFFICES ASSUME TypeOK, [Next]_vars PROVE TypeOK'
    OBVIOUS
  <1> USE DEF MovingOps, PlainOps
  <1>1. ASSUME NEW w \in Workers, NEW o \in Orders, NEW u \in Users,
               NEW a \in Amounts, NEW r \in Rates, BeginSell(w, o, u, a, r)
        PROVE  TypeOK'
    <2>1. NewOrder("SELL", u, a, r) \in Order
      BY NewOrderType DEF Types
    <2>2. a \in Int
      BY AmountAssumption
    <2> QED
      BY <1>1, <2>1, <2>2, BeginType DEF BeginSell
  <1>2. ASSUME NEW w \in Workers, NEW o \in Orders, NEW u \in Users,
               NEW a \in Amounts, NEW r \in Rates, CreateBuy(w, o, u, a, r)
        PROVE  TypeOK'
    <2>1. NewOrder("BUY", u, a, r) \in Order
      BY NewOrderType DEF Types
    <2> QED
      BY <1>2, <2>1 DEF CreateBuy, Created, TypeOK, AccountsTypeOK, accountVars
  <1>3. ASSUME NEW w \in Workers, NEW o \in Orders, NEW u \in Users,
               NEW a \in Amounts, BeginAccept(w, o, u, a)
        PROVE  TypeOK'
    <2>1. orders[o] \in Order /\ orders[o].rate \in Int /\ a \in Int
      BY AmountAssumption DEF TypeOK, Order
    <2>2. a * orders[o].rate \in Int
      BY <2>1, ProductType
    <2> QED
      BY <1>3, <2>1, <2>2, BeginType DEF BeginAccept
  <1>4. ASSUME NEW w \in Workers, NEW o \in Orders, NEW u \in Users,
               \/ BeginPayment(w, o, u) \/ BeginReceipt(w, o, u)
               \/ BeginCancel(w, o, u) \/ BeginDispute(w, o, u)
               \/ BeginResolve(w, o, u)
        PROVE  TypeOK'
    <2>1. /\ orders[o] \in Order /\ orders[o].amount \in Int
          /\ orders[o].reserved \in Int
      BY DEF TypeOK, Order
    <2>2. CASE BeginPayment(w, o, u)
      BY <2>1, <2>2, BeginType DEF BeginPayment
    <2>3. CASE BeginReceipt(w, o, u)
      BY <2>1, <2>3, BeginType DEF BeginReceipt
    <2>4. CASE BeginCancel(w, o, u)
      BY <2>1, <2>4, BeginType DEF BeginCancel
    <2>5. CASE BeginDispute(w, o, u)
      BY <2>1, <2>5, BeginType DEF BeginDispute
    <2>6. CASE BeginResolve(w, o, u)
      BY <2>1, <2>6, BeginType DEF BeginResolve
    <2> QED
      BY <1>4, <2>2, <2>3, <2>4, <2>5, <2>6
  <1>5. ASSUME NEW w \in Workers, NEW o \in Orders, HideOrder(w, o)
        PROVE  TypeOK'
    <2>1. orders[o] \in Order
      BY DEF TypeOK
    <2>2. [orders[o] EXCEPT !.status = "HIDDEN"] \in Order
      BY <2>1 DEF Order, Statuses
    <2>3. orders' \in [Orders -> Order]
      BY <1>5, <2>2 DEF HideOrder, TypeOK
    <2> QED
      BY <1>5, <2>3 DEF HideOrder, TypeOK, AccountsTypeOK, accountVars
  <1>6. ASSUME NEW w \in Workers, Handle(w)
        PROVE  TypeOK'
    <2>1. CASE FundsRead(w)
      <3>1. req[w] \in Request
        BY <2>1, PhaseType DEF FundsRead
      <3>2. req' = [req EXCEPT ![w] = [req[w] EXCEPT
                      !.phase = "read", !.before = balance[req[w].account]]]
        BY <2>1 DEF FundsRead
      <3>3. [req[w] EXCEPT !.phase = "read", !.before = balance[req[w].account]]
              \in Request
        BY <3>1 DEF Request, TypeOK, AccountsTypeOK
      <3>4. req' \in [Workers -> Request \cup {Idle}]
        BY <3>2, <3>3 DEF TypeOK
      <3> QED
        BY <2>1, <3>4 DEF FundsRead, TypeOK, AccountsTypeOK, accountVars
    <2>2. CASE FundsMove(w)
      <3>1. req[w] \in Request
        BY <2>2, PhaseType DEF FundsMove
      <3>2. req' \in [Workers -> Request \cup {Idle}]
        BY <2>2, <3>1 DEF FundsMove, TypeOK, Request
      <3>3. /\ req[w].order \in Orders /\ req[w].account \in Users
            /\ req[w].amount \in Int /\ req[w].before \in Int
        BY <3>1 DEF Request
      <3>4. AccountsTypeOK'
        BY <2>2, <3>3, MoveType DEF FundsMove, TypeOK
      <3> QED
        BY <2>2, <3>2, <3>4 DEF FundsMove, TypeOK
    <2>3. CASE Refuse(w)
      BY <2>3 DEF Refuse, TypeOK, AccountsTypeOK, accountVars
    <2>4. CASE \/ FinishSell(w) \/ FinishAccept(w) \/ FinishPayment(w)
               \/ FinishReceipt(w) \/ FinishCancel(w) \/ FinishDispute(w)
               \/ FinishResolve(w)
      <3>1. req[w] \in Request
        BY <2>4, BusyType
           DEF FinishSell, FinishAccept, FinishPayment, FinishReceipt,
               FinishCancel, FinishDispute, FinishResolve, Finish
      <3>2. /\ req[w].order \in Orders /\ req[w].row \in Order
            /\ req[w].user \in Users /\ req[w].amount \in Int
        BY <3>1 DEF Request
      <3>3. orders[req[w].order] \in Order
        BY <3>2 DEF TypeOK
      <3>4. ASSUME NEW op, NEW row \in Order, Finish(w, op, row)
            PROVE  /\ orders' \in [Orders -> Order]
                   /\ req' \in [Workers -> Request \cup {Idle}]
                   /\ faults' = faults
        BY <3>2, <3>4 DEF Finish, TypeOK
      <3>5. ASSUME NEW status \in Statuses
            PROVE  SetStatus(w, status) \in Order
        BY <3>3, <3>5 DEF SetStatus, Order
      <3>6. Reserved(req[w]) \in Order
        BY <3>2 DEF Reserved, Order, Statuses
      <3>7. Accepted(orders[req[w].order], req[w]) \in Order
        <4>1. req[w].row.reserved + req[w].amount \in Int
          BY <3>2 DEF Order
        <4>2. "PAYMENT_PENDING" \in Statuses
          BY DEF Statuses
        <4> QED
          BY <3>2, <3>3, <4>1, <4>2 DEF Accepted, Order
      <3>8. CASE FinishSell(w)
        BY <3>8, <3>4, <3>6 DEF FinishSell, TypeOK, AccountsTypeOK, accountVars
      <3>9. CASE FinishAccept(w)
        BY <3>9, <3>4, <3>7 DEF FinishAccept, TypeOK, AccountsTypeOK, accountVars
      <3>10. CASE FinishPayment(w)
        BY <3>10, <3>4, <3>5
           DEF FinishPayment, Statuses, TypeOK, AccountsTypeOK, accountVars
      <3>11. CASE FinishReceipt(w)
        <4>1. /\ orders' \in [Orders -> Order]
              /\ req' \in [Workers -> Request \cup {Idle}]
              /\ faults' = faults
          BY <3>11, <3>4, <3>5 DEF FinishReceipt, Statuses
        <4>2. req[w].row.amount * req[w].row.rate \in Int
          <5>1. req[w].row.amount \in Int /\ req[w].row.rate \in Int
            BY <3>2 DEF Order
          <5> QED
            BY <5>1, ProductType
        <4>3. blocked \in [Users -> Int] /\ totalTrades \in [Users -> Nat]
          BY DEF TypeOK, AccountsTypeOK
        <4>4. blocked' \in [Users -> Int]
          <5>1. blocked' = [blocked EXCEPT ![req[w].user] =
                              @ - req[w].row.amount * req[w].row.rate]
            BY <3>11 DEF FinishReceipt
          <5> QED
            BY <3>2, <4>2, <4>3, <5>1, TakenType
        <4>5. totalTrades' \in [Users -> Nat]
          <5>1. totalTrades' = [[totalTrades EXCEPT ![req[w].row.seller] = @ + 1]
                                  EXCEPT ![req[w].user] = @ + 1]
            BY <3>11 DEF FinishReceipt
          <5> QED
            BY <4>3, <5>1, CountedType
        <4> QED
          BY <3>11, <4>1, <4>4, <4>5 DEF FinishReceipt, TypeOK, AccountsTypeOK
      <3>12. CASE FinishCancel(w)
        BY <3>12, <3>4, <3>5
           DEF FinishCancel, Statuses, TypeOK, AccountsTypeOK, accountVars
      <3>13. CASE FinishDispute(w)
        BY <3>13, <3>4, <3>5
           DEF FinishDispute, Statuses, TypeOK, AccountsTypeOK, accountVars
      <3>14. CASE FinishResolve(w)
        BY <3>14, <3>4, <3>5
           DEF FinishResolve, Statuses, TypeOK, AccountsTypeOK, accountVars
      <3> QED
        BY <2>4, <3>8, <3>9, <3>10, <3>11, <3>12, <3>13, <3>14
    <2> QED
      BY <1>6, <2>1, <2>2, <2>3, <2>4 DEF Handle
  <1>7. ASSUME NEW w \in Workers, Abort(w)
        PROVE  TypeOK'
    BY <1>7, FaultsAssumption DEF Abort, TypeOK, AccountsTypeOK, accountVars
  <1>8. CASE UNCHANGED vars
    BY <1>8 DEF vars, TypeOK, AccountsTypeOK
  <1> QED
    BY <1>1, <1>2, <1>3, <1>4, <1>5, <1>6, <1>7, <1>8 DEF Next

LEMMA TypeInit == Init => TypeOK
  BY BalanceAssumption, FaultsAssumption
     DEF Init, AccountsInit, TypeOK, AccountsTypeOK, Order, NoOrder, Types

\* Every state has well-typed tables, ledger and handlers.
THEOREM TypeCorrect == Spec => []TypeOK
  BY TypeInit, TypeStep, PTL DEF Spec

-----------------------------------------------------------------------------
(* The arithmetic of the overdraft bound.                                  *)

LEMMA Distribute ==
  ASSUME NEW k \in Int, NEW m \in Nat
  PROVE  /\ k * m \in Int
         /\ (k + 1) * m = k * m + m
         /\ k >= 0 => k * m >= 0
  OBVIOUS

\* R is a set of at most K handlers about to take f[v] <= M each from an
\* account that holds b.  If the bound holds and one of R finds its amount up
\* to the slack, it still does when handler w stops being one of them, having
\* taken its amount or not.
LEMMA OneLess ==
  ASSUME NEW K \in Nat, NEW M \in Nat, NEW R, IsFiniteSet(R),
         Cardinality(R) <= K, NEW f, \A v \in R : f[v] \in Nat /\ f[v] <= M,
         NEW w, NEW b \in Int, NEW c \in Int,
         b >= -((K - 1) * M),
         R # {} => \E v \in R : b >= f[v] - (K - Cardinality(R)) * M,
         c >= b - (IF w \in R THEN f[w] ELSE 0)
  PROVE  /\ c >= -((K - 1) * M)
         /\ R \ {w} # {} =>
              \E v \in R \ {w} : c >= f[v] - (K - Cardinality(R \ {w})) * M
  <1>1. CASE w \notin R
    <2>1. R \ {w} = R
      BY <1>1
    <2>2. (K - 1) * M \in Int
      BY Distribute
    <2>3. c >= b
      BY <1>1
    <2>4. c >= -((K - 1) * M)
      BY <2>2, <2>3
    <2>5. Cardinality(R) \in Nat /\ (K - Cardinality(R)) * M \in Int
      BY FS_CardinalityType, Distribute
    <2>6. ASSUME R # {}
          PROVE  \E v \in R : c >= f[v] - (K - Cardinality(R)) * M
      <3>1. PICK v \in R : b >= f[v] - (K - Cardinality(R)) * M
        BY <2>6
      <3>2. c >= f[v] - (K - Cardinality(R)) * M
        BY <3>1, <2>3, <2>5
      <3> QED
        BY <3>2
    <2> QED
      BY <2>1, <2>4, <2>6
  <1>2. CASE w \in R
    <2> DEFINE n == Cardinality(R)
               slack == (K - n) * M
    <2>1. /\ n \in Nat /\ n >= 1
          /\ Cardinality(R \ {w}) = n - 1
      <3>1. n \in Nat
        BY FS_CardinalityType
      <3>2. n # 0
        BY <1>2, FS_EmptySet
      <3>3. Cardinality(R \ {w}) = n - 1
        BY <1>2, FS_RemoveElement
      <3> QED
        BY <3>1, <3>2, <3>3
    <2>2. K - n \in Nat
      BY <2>1
    <2> HIDE DEF n
    <2>3. slack \in Int /\ slack >= 0 /\ (K - n + 1) * M = slack + M
      BY <2>2, Distribute
    <2>4. K - (n - 1) = K - n + 1
      BY <2>1
    <2>5. (K - Cardinality(R \ {w})) * M = slack + M
      BY <2>1, <2>3, <2>4
    <2>6. PICK p \in R : b >= f[p] - slack
      BY <1>2 DEF n
    <2>7. c >= b - f[w] /\ f[w] \in Nat /\ f[w] <= M /\ f[p] \in Nat /\ f[p] <= M
      BY <1>2
    <2> HIDE DEF slack
    <2>8. R \ {w} # {} => \E v \in R \ {w} : c >= f[v] - (slack + M)
      <3>1. CASE p # w
        <4>1. c >= f[p] - (slack + M)
          BY <2>3, <2>6, <2>7
        <4> QED
          BY <3>1, <4>1
      <3>2. CASE p = w
        <4>1. c >= -slack
          BY <2>3, <2>6, <2>7, <3>2
        <4>2. ASSUME NEW v \in R PROVE c >= f[v] - (slack + M)
          <5>1. f[v] \in Nat /\ f[v] <= M
            OBVIOUS
          <5> QED
            BY <2>3, <4>1, <5>1
        <4> QED
          BY <4>2
      <3> QED
        BY <3>1, <3>2
    <2>9. c >= -((K - 1) * M)
      <3>1. CASE p = w
        <4>1. c >= -slack
          BY <2>3, <2>6, <2>7, <3>1
        <4>2. slack <= (K - 1) * M /\ (K - 1) * M \in Int
          <5>1. (n - 1) * M \in Int /\ (n - 1) * M >= 0
            BY <2>1, Distribute
          <5>2. (K - 1) * M = (K - n) * M + (n - 1) * M
            BY <2>1, <2>2
          <5> QED
            BY <5>1, <5>2, <2>3 DEF slack
        <4> QED
          BY <2>3, <4>1, <4>2
      <3>2. CASE p # w
        <4>1. n >= 2
          <5>1. p \in R \ {w}
            BY <3>2
          <5>2. IsFiniteSet(R \ {w}) /\ Cardinality(R \ {w}) # 0
            BY <5>1, FS_RemoveElement, FS_EmptySet
          <5> QED
            BY <2>1, <5>2
        <4>2. slack + M <= (K - 1) * M /\ (K - 1) * M \in Int
          <5>1. (n - 2) * M \in Int /\ (n - 2) * M >= 0
            BY <4>1, <2>1, Distribute
          <5>2. (K - 1) * M = (K - n) * M + (n - 2) * M + M
            BY <2>1, <2>2
          <5> QED
            BY <5>1, <5>2, <2>3 DEF slack
        <4> QED
          BY <2>3, <2>6, <2>7, <4>2
      <3> QED
        BY <3>1, <3>2
    <2> QED
      BY <2>5, <2>8, <2>9
  <1> QED
    BY <1>1, <1>2

-----------------------------------------------------------------------------
(* What the handlers know of the orders they work on.                      *)

\* A committed order, and the row a handler has read, have an amount and a rate
\* some request gave; a handler other than createOrder works on a committed
\* order; and what createOrder and acceptOrder reserve is at most MaxMove.
OrdersKnown ==
  /\ \A o \in Orders : Committed(o) =>
       orders[o].amount \in Amounts /\ orders[o].rate \in Rates
  /\ \A w \in Workers : req[w] # Idle =>
       /\ req[w].row.amount \in Amounts /\ req[w].row.rate \in Rates
       /\ req[w].op # "sell" => Committed(req[w].order)
       /\ req[w].op \in {"sell", "accept"} => req[w].amount <= MaxMove

USE DEF Committed

LEMMA OrdersKnownInit == Init => OrdersKnown
  BY DEF Init, OrdersKnown, NoOrder

\* A new handler whose own part of OrdersKnown holds.
LEMMA OrdersKnownBegin ==
  ASSUME TypeOK, OrdersKnown, NEW w \in Workers,
         NEW op, NEW o \in Orders, NEW row, NEW u,
         NEW account, NEW amount,
         Begin(w, op, o, row, u, account, amount),
         row.amount \in Amounts, row.rate \in Rates,
         op # "sell" => Committed(o),
         op \in {"sell", "accept"} => amount <= MaxMove
  PROVE  OrdersKnown'
  <1>1. /\ req'[w].op = op /\ req'[w].order = o /\ req'[w].row = row
        /\ req'[w].amount = amount
        /\ \A v \in Workers \ {w} : req'[v] = req[v]
    BY DEF Begin, TypeOK
  <1>2. orders' = orders
    BY DEF Begin
  <1> QED
    BY <1>1, <1>2 DEF OrdersKnown

\* Orders keep amount and rate and never disappear, and handlers only end or
\* change their phase.
LEMMA OrdersKnownKept ==
  ASSUME TypeOK, OrdersKnown, NEW w \in Workers,
         \A v \in Workers \ {w} : req'[v] = req[v],
         req'[w] # Idle =>
           /\ req[w] # Idle
           /\ req'[w].op = req[w].op /\ req'[w].row = req[w].row
           /\ req'[w].order = req[w].order /\ req'[w].amount = req[w].amount,
         \A o \in Orders :
           /\ Committed(o) => Committed(o)'
           /\ Committed(o)' =>
                orders'[o].amount \in Amounts /\ orders'[o].rate \in Rates
  PROVE  OrdersKnown'
  <1>1. ASSUME NEW v \in Workers, req'[v] # Idle
        PROVE  /\ req[v] # Idle
               /\ req'[v].op = req[v].op /\ req'[v].row = req[v].row
               /\ req'[v].order = req[v].order /\ req'[v].amount = req[v].amount
    BY <1>1
  <1>2. ASSUME NEW v \in Workers, req[v] # Idle
        PROVE  req[v].order \in Orders
    BY <1>2, BusyType DEF Request
  <1> QED
    BY <1>1, <1>2 DEF OrdersKnown

\* What a commit of T1 leaves: one order keeps its amount and rate, or gets
\* those of the row createOrder inserted.
LEMMA FinishKnown ==
  ASSUME TypeOK, OrdersKnown, NEW w \in Workers, NEW op, NEW row,
         Finish(w, op, row), row.status # "ABSENT",
         \/ /\ op = "sell"
            /\ row.amount = req[w].row.amount /\ row.rate = req[w].row.rate
         \/ /\ op # "sell"
            /\ row.amount = orders[req[w].order].amount
            /\ row.rate = orders[req[w].order].rate
  PROVE  OrdersKnown'
  <1>1. /\ req[w] # Idle /\ req[w].op = op /\ req[w].order \in Orders
        /\ orders' = [orders EXCEPT ![req[w].order] = row]
        /\ req' = [req EXCEPT ![w] = Idle]
    BY BusyType DEF Finish, Request
  <1>2. row.amount \in Amounts /\ row.rate \in Rates
    BY <1>1 DEF OrdersKnown
  <1>3. \A o \in Orders : orders'[o] = IF o = req[w].order THEN row ELSE orders[o]
    BY <1>1 DEF TypeOK
  <1>4. /\ req'[w] = Idle
        /\ \A v \in Workers \ {w} : req'[v] = req[v]
    BY <1>1 DEF TypeOK
  <1>5. \A o \in Orders :
          /\ Committed(o) => Committed(o)'
          /\ Committed(o)' =>
               orders'[o].amount \in Amounts /\ orders'[o].rate \in Rates
    BY <1>2, <1>3 DEF OrdersKnown
  <1> QED
    BY <1>4, <1>5, OrdersKnownKept

LEMMA OrdersKnownStep == TypeOK /\ OrdersKnown /\ [Next]_vars => OrdersKnown'
  <1> SUFFICES ASSUME TypeOK, OrdersKnown, [Next]_vars PROVE OrdersKnown'
    OBVIOUS
  <1>1. ASSUME NEW w \in Workers, NEW o \in Orders, NEW u \in Users,
               NEW a \in Amounts, NEW r \in Rates, BeginSell(w, o, u, a, r)
        PROVE  OrdersKnown'
    <2>1. /\ NewOrder("SELL", u, a, r).amount = a
          /\ NewOrder("SELL", u, a, r).rate = r
      BY DEF NewOrder
    <2> QED
      BY <1>1, <2>1, MoveAssumption, OrdersKnownBegin DEF BeginSell
  <1>2. ASSUME NEW w \in Workers, NEW o \in Orders, NEW u \in Users,
               NEW a \in Amounts, NEW r \in Rates, CreateBuy(w, o, u, a, r)
        PROVE  OrdersKnown'
    <2>1. /\ orders' = [orders EXCEPT ![o] = NewOrder("BUY", u, a, r)]
          /\ req' = req
      BY <1>2 DEF CreateBuy, Created
    <2>2. /\ NewOrder("BUY", u, a, r).amount = a
          /\ NewOrder("BUY", u, a, r).rate = r
          /\ NewOrder("BUY", u, a, r).status # "ABSENT"
      BY DEF NewOrder
    <2>3. \A p \in Orders :
            orders'[p] = IF p = o THEN NewOrder("BUY", u, a, r) ELSE orders[p]
      BY <2>1 DEF TypeOK
    <2> QED
      BY <2>1, <2>2, <2>3, OrdersKnownKept DEF OrdersKnown
  <1>3. ASSUME NEW w \in Workers, NEW o \in Orders, NEW u \in Users,
               NEW a \in Amounts, BeginAccept(w, o, u, a)
        PROVE  OrdersKnown'
    <2>1. Committed(o)
      BY <1>3 DEF BeginAccept, CanTransition, Statuses
    <2>2. /\ a * orders[o].rate <= MaxMove
          /\ orders[o].amount \in Amounts /\ orders[o].rate \in Rates
      BY <2>1, MoveAssumption DEF OrdersKnown
    <2> QED
      BY <1>3, <2>1, <2>2, OrdersKnownBegin DEF BeginAccept
  <1>4. ASSUME NEW w \in Workers, NEW o \in Orders, NEW u \in Users,
               \/ BeginPayment(w, o, u) \/ BeginReceipt(w, o, u)
               \/ BeginCancel(w, o, u) \/ BeginDispute(w, o, u)
               \/ BeginResolve(w, o, u)
        PROVE  OrdersKnown'
    <2>1. Committed(o)
      BY <1>4 DEF BeginPayment, BeginReceipt, BeginCancel, BeginDispute,
                  BeginResolve, CanTransition, Statuses
    <2>2. orders[o].amount \in Amounts /\ orders[o].rate \in Rates
      BY <2>1 DEF OrdersKnown
    <2> QED
      BY <1>4, <2>1, <2>2, OrdersKnownBegin
         DEF BeginPayment, BeginReceipt, BeginCancel, BeginDispute, BeginResolve
  <1>5. ASSUME NEW w \in Workers, NEW o \in Orders, HideOrder(w, o)
        PROVE  OrdersKnown'
    <2>1. /\ Committed(o) /\ req' = req
          /\ orders' = [orders EXCEPT ![o].status = "HIDDEN"]
      BY <1>5 DEF HideOrder, OrdersKnown
    <2> QED
      BY <2>1, OrdersKnownKept DEF OrdersKnown, TypeOK, Order
  <1>6. ASSUME NEW w \in Workers, FundsRead(w) \/ FundsMove(w) \/ Refuse(w)
        PROVE  OrdersKnown'
    <2>1. /\ orders' = orders
          /\ req[w] # Idle
          /\ \A v \in Workers \ {w} : req'[v] = req[v]
      BY <1>6, PhaseType DEF FundsRead, FundsMove, Refuse, TypeOK
    <2>2. req'[w] # Idle =>
            /\ req'[w].op = req[w].op /\ req'[w].row = req[w].row
            /\ req'[w].order = req[w].order /\ req'[w].amount = req[w].amount
      <3>1. req[w] \in Request
        BY <2>1, BusyType
      <3>2. CASE FundsRead(w)
        BY <3>1, <3>2 DEF FundsRead, TypeOK, Request
      <3>3. CASE FundsMove(w)
        BY <3>1, <3>3 DEF FundsMove, TypeOK, Request
      <3>4. CASE Refuse(w)
        BY <3>4 DEF Refuse, TypeOK
      <3> QED
        BY <1>6, <3>2, <3>3, <3>4
    <2> QED
      BY <2>1, <2>2, OrdersKnownKept DEF OrdersKnown
  <1>7. ASSUME NEW w \in Workers,
               \/ FinishSell(w) \/ FinishAccept(w) \/ FinishPayment(w)
               \/ FinishReceipt(w) \/ FinishCancel(w) \/ FinishDispute(w)
               \/ FinishResolve(w)
        PROVE  OrdersKnown'
    <2>1. req[w] \in Request /\ req[w].order \in Orders /\ req[w].row \in Order
          /\ orders[req[w].order] \in Order
      BY <1>7, BusyType
         DEF FinishSell, FinishAccept, FinishPayment, FinishReceipt,
             FinishCancel, FinishDispute, FinishResolve, Finish, Request, TypeOK
    <2>2. /\ Reserved(req[w]).amount = req[w].row.amount
          /\ Reserved(req[w]).rate = req[w].row.rate
          /\ Reserved(req[w]).status = "RESERVED"
      BY <2>1 DEF Reserved, Order
    <2>3. LET row == Accepted(orders[req[w].order], req[w]) IN
          /\ row.amount = orders[req[w].order].amount
          /\ row.rate = orders[req[w].order].rate
          /\ row.status = "PAYMENT_PENDING"
      BY <2>1 DEF Accepted, Order
    <2>4. ASSUME NEW status
          PROVE  LET row == SetStatus(w, status) IN
                 /\ row.amount = orders[req[w].order].amount
                 /\ row.rate = orders[req[w].order].rate
                 /\ row.status = status
      BY <2>1 DEF SetStatus, Order
    <2>5. CASE FinishSell(w)
      BY <2>2, <2>5, FinishKnown DEF FinishSell
    <2>6. CASE FinishAccept(w)
      BY <2>3, <2>6, FinishKnown DEF FinishAccept
    <2>7. CASE FinishPayment(w)
      BY <2>4, <2>7, FinishKnown DEF FinishPayment
    <2>8. CASE FinishReceipt(w)
      BY <2>4, <2>8, FinishKnown DEF FinishReceipt
    <2>9. CASE FinishCancel(w)
      BY <2>4, <2>9, FinishKnown DEF FinishCancel
    <2>10. CASE FinishDispute(w)
      BY <2>4, <2>10, FinishKnown DEF FinishDispute
    <2>11. CASE FinishResolve(w)
      BY <2>4, <2>11, FinishKnown DEF FinishResolve
    <2> QED
      BY <1>7, <2>5, <2>6, <2>7, <2>8, <2>9, <2>10, <2>11
  <1>8. ASSUME NEW w \in Workers, Abort(w)
        PROVE  OrdersKnown'
    BY <1>8, OrdersKnownKept DEF Abort, TypeOK, OrdersKnown
  <1>9. CASE UNCHANGED vars
    BY <1>9 DEF vars, OrdersKnown
  <1> QED
    BY <1>1, <1>2, <1>3, <1>4, <1>5, <1>6, <1>7, <1>8, <1>9 DEF Next, Handle

-----------------------------------------------------------------------------
(* The overdraft bound.                                                    *)

\* The handlers whose T2 has checked user u's balance and not yet taken from it.
Reserving(u) ==
  {w \in Workers : /\ req[w].phase = "read"
                   /\ req[w].op \in {"sell", "accept"}
                   /\ req[w].account = u /\ req[w].amount > 0}

\* The inductive form of OverdraftBound: of the handlers about to take from u,
\* one (the last to have read) still finds its own amount, give or take one
\* full move for each handler that is not about to take from u.
OverdraftInv ==
  \A u \in Users :
    Drained(u) \/
      (Reserving(u) # {} =>
         \E w \in Reserving(u) :
           balance[u] >= req[w].amount
                           - (Cardinality(Workers) - Cardinality(Reserving(u)))
                               * MaxMove)

LEMMA ReservingFinite ==
  ASSUME NEW u \in Users
  PROVE  /\ IsFiniteSet(Reserving(u))
         /\ Cardinality(Reserving(u)) \in Nat
         /\ Cardinality(Workers) \in Nat
         /\ Cardinality(Reserving(u)) <= Cardinality(Workers)
  <1>1. Reserving(u) \in SUBSET Workers
    BY DEF Reserving
  <1> QED
    BY <1>1, WorkersAssumption, FS_Subset, FS_CardinalityType

LEMMA ReservingAmounts ==
  ASSUME TypeOK, OrdersKnown, NEW u \in Users, NEW w \in Reserving(u)
  PROVE  /\ w \in Workers
         /\ req[w].amount \in Nat
         /\ req[w].amount <= MaxMove
  <1>1. /\ w \in Workers /\ req[w].phase = "read"
        /\ req[w].op \in {"sell", "accept"} /\ req[w].amount > 0
    BY DEF Reserving
  <1>2. req[w] # Idle /\ req[w].amount \in Int
    BY <1>1, PhaseType DEF Request
  <1> QED
    BY <1>1, <1>2 DEF OrdersKnown

\* A step in which handler w does not come to be about to take from anyone,
\* and takes from a user no more than it was about to take.
LEMMA OverdraftKept ==
  ASSUME TypeOK, OrdersKnown, OverdraftBound, OverdraftInv, NEW w \in Workers,
         \A v \in Workers \ {w} : req'[v] = req[v],
         req'[w].phase # "read",
         \A u \in Users : ~Drained(u)' =>
           /\ ~Drained(u)
           /\ balance'[u] \in Int
           /\ balance'[u] >= balance[u]
                - (IF w \in Reserving(u) THEN req[w].amount ELSE 0)
  PROVE  OverdraftBound' /\ OverdraftInv'
  <1> DEFINE K == Cardinality(Workers)
  <1>1. ASSUME NEW u \in Users, ~Drained(u)'
        PROVE  /\ balance'[u] >= -((K - 1) * MaxMove)
               /\ Reserving(u)' # {} =>
                    \E v \in Reserving(u)' :
                      balance'[u] >= req'[v].amount
                        - (K - Cardinality(Reserving(u)')) * MaxMove
    <2> DEFINE R == Reserving(u)
               f == [v \in Workers |-> req[v].amount]
    <2>1. Reserving(u)' = R \ {w}
      BY DEF Reserving
    <2>2. \A v \in R : v \in Workers /\ f[v] = req[v].amount
      BY ReservingAmounts
    <2>3. \A v \in R : f[v] \in Nat /\ f[v] <= MaxMove
      BY <2>2, ReservingAmounts
    <2>4. IsFiniteSet(R) /\ K \in Nat /\ Cardinality(R) <= K /\ MaxMove \in Nat
      BY ReservingFinite, MoveAssumption
    <2>5. balance[u] \in Int
      BY DEF TypeOK, AccountsTypeOK
    <2>6. /\ balance[u] >= -((K - 1) * MaxMove)
          /\ R # {} => \E v \in R : balance[u] >= f[v] - (K - Cardinality(R)) * MaxMove
      BY <1>1, <2>2 DEF OverdraftBound, OverdraftInv
    <2>7. balance'[u] \in Int
          /\ balance'[u] >= balance[u] - (IF w \in R THEN f[w] ELSE 0)
      BY <1>1
    <2>8. \A v \in R \ {w} : f[v] = req'[v].amount
      BY <2>2
    <2> HIDE DEF K, R, f
    <2>9. /\ balance'[u] >= -((K - 1) * MaxMove)
          /\ R \ {w} # {} =>
               \E v \in R \ {w} :
                 balance'[u] >= f[v] - (K - Cardinality(R \ {w})) * MaxMove
      BY <2>3, <2>4, <2>5, <2>6, <2>7, OneLess, ZenonT(60)
    <2> QED
      BY <2>1, <2>8, <2>9
  <1> QED
    BY <1>1 DEF OverdraftBound, OverdraftInv

\* A step in which w reads a balance: the only step that adds to Reserving.
LEMMA OverdraftRead ==
  ASSUME TypeOK, OrdersKnown, OverdraftBound, OverdraftInv, NEW w \in Workers,
         FundsRead(w)
  PROVE  OverdraftBound' /\ OverdraftInv'
  <1> DEFINE K == Cardinality(Workers)
  <1>1. /\ req[w] \in Request /\ balance' = balance /\ ledger' = ledger
        /\ req[w].phase = "checked"
        /\ \A v \in Workers \ {w} : req'[v] = req[v]
        /\ req'[w].amount = req[w].amount /\ req'[w].op = req[w].op
        /\ req'[w].account = req[w].account
    BY PhaseType DEF FundsRead, accountVars, TypeOK, Request
  <1>2. OverdraftBound'
    BY <1>1 DEF OverdraftBound, Drained
  <1>3. ASSUME NEW u \in Users, ~Drained(u)', Reserving(u)' # {}
        PROVE  \E v \in Reserving(u)' :
                 balance'[u] >= req'[v].amount
                   - (K - Cardinality(Reserving(u)')) * MaxMove
    <2>1. CASE w \in Reserving(u)'
      <3>1. req[w].account = u /\ req[w].op \in {"sell", "accept"}
        BY <1>1, <2>1 DEF Reserving
      <3>2. balance[u] >= req[w].amount
        BY <3>1 DEF FundsRead, FundsSuffice, CanReserve
      <3>3. /\ Reserving(u)' \in SUBSET Workers
            /\ Cardinality(Reserving(u)') \in Nat
            /\ K - Cardinality(Reserving(u)') \in Nat
        <4>1. Reserving(u)' \in SUBSET Workers
          BY DEF Reserving
        <4> QED
          BY <4>1, WorkersAssumption, FS_Subset, FS_CardinalityType
      <3>4. /\ (K - Cardinality(Reserving(u)')) * MaxMove \in Int
            /\ (K - Cardinality(Reserving(u)')) * MaxMove >= 0
        BY <3>3, MoveAssumption, Distribute
      <3>5. balance[u] \in Int /\ req[w].amount \in Int
        BY <1>1 DEF Request, TypeOK, AccountsTypeOK
      <3>6. balance'[u] >= req'[w].amount
                   - (K - Cardinality(Reserving(u)')) * MaxMove
        BY <1>1, <3>2, <3>4, <3>5
      <3> QED
        BY <2>1, <3>6
    <2>2. CASE w \notin Reserving(u)'
      <3>1. Reserving(u)' = Reserving(u)
        BY <1>1, <2>2 DEF Reserving
      <3>2. PICK v \in Reserving(u) :
              balance[u] >= req[v].amount - (K - Cardinality(Reserving(u))) * MaxMove
        BY <1>1, <1>3, <3>1 DEF OverdraftInv, Drained
      <3>3. v # w /\ v \in Workers
        BY <1>1 DEF Reserving
      <3> QED
        BY <1>1, <3>1, <3>2, <3>3
    <2> QED
      BY <2>1, <2>2
  <1> QED
    BY <1>2, <1>3 DEF OverdraftInv

\* The row FundsMove adds: that of a cancel or a resolve releases its amount to
\* its account.
LEMMA FundsMoveRow ==
  ASSUME TypeOK, NEW w \in Workers, FundsMove(w)
  PROVE  \E row \in LedgerRow :
           /\ ledger' = Append(ledger, row)
           /\ (req[w].op \in {"cancel", "resolve"}) =>
                /\ row.user = req[w].account
                /\ row.type = "RELEASE" /\ row.role = "owner"
                /\ row.amount = req[w].amount
  <1> DEFINE q == req[w]
             row(type, role, after) ==
               Entry(q.order, q.account, type, role, q.amount, q.before, after)
  <1>1. /\ q.order \in Orders /\ q.account \in Users
        /\ q.amount \in Int /\ q.before \in Int
    BY PhaseType DEF FundsMove, Request
  <1>2. /\ row("RESERVE", "owner", q.before - q.amount) \in LedgerRow
        /\ row("RELEASE", "owner", q.before + q.amount) \in LedgerRow
        /\ row("RELEASE", "seller", q.before) \in LedgerRow
    BY <1>1 DEF Entry, LedgerRow
  <1>3. CASE q.op \in {"sell", "accept"}
    <2>1. ledger' = Append(ledger, row("RESERVE", "owner", q.before - q.amount))
      BY <1>3 DEF FundsMove, ReserveFunds
    <2> QED
      BY <1>2, <1>3, <2>1
  <1>4. CASE q.op \in {"cancel", "resolve"}
    <2>1. ledger' = Append(ledger, row("RELEASE", "owner", q.before + q.amount))
      BY <1>4 DEF FundsMove, ReleaseFunds
    <2>2. /\ row("RELEASE", "owner", q.before + q.amount).user = q.account
          /\ row("RELEASE", "owner", q.before + q.amount).type = "RELEASE"
          /\ row("RELEASE", "owner", q.before + q.amount).role = "owner"
          /\ row("RELEASE", "owner", q.before + q.amount).amount = q.amount
      BY DEF Entry
    <2> QED
      BY <1>2, <2>1, <2>2
  <1>5. CASE q.op \notin {"sell", "accept", "cancel", "resolve"}
    <2>1. ledger' = Append(ledger, row("RELEASE", "seller", q.before))
      BY <1>5 DEF FundsMove, TransferToSeller
    <2> QED
      BY <1>2, <1>5, <2>1
  <1> QED
    BY <1>3, <1>4, <1>5

\* T2's commit takes from the account exactly what w was about to take.
LEMMA OverdraftMove ==
  ASSUME TypeOK, OrdersKnown, OverdraftBound, OverdraftInv, NEW w \in Workers,
         FundsMove(w)
  PROVE  OverdraftBound' /\ OverdraftInv'
  <1>1. /\ req[w] \in Request /\ req[w].phase = "read"
        /\ req[w].account \in Users /\ req[w].amount \in Int
    BY PhaseType DEF FundsMove, Request
  <1>2. /\ \A v \in Workers \ {w} : req'[v] = req[v]
        /\ req'[w].phase # "read"
    BY <1>1 DEF FundsMove, TypeOK, Request
  <1>4. PICK row \in LedgerRow : /\ ledger' = Append(ledger, row)
                                 /\ (req[w].op \in {"cancel", "resolve"}) =>
                                      /\ row.user = req[w].account
                                      /\ row.type = "RELEASE" /\ row.role = "owner"
                                      /\ row.amount = req[w].amount
    BY FundsMoveRow
  <1>5. /\ ledger \in Seq(LedgerRow)
        /\ DOMAIN ledger \subseteq DOMAIN ledger'
        /\ \A i \in DOMAIN ledger : ledger'[i] = ledger[i]
        /\ Len(ledger) + 1 \in DOMAIN ledger'
        /\ ledger'[Len(ledger) + 1] = row
    BY <1>4 DEF TypeOK, AccountsTypeOK
  <1>6. \A u \in Users : ~Drained(u)' => ~Drained(u)
    BY <1>5 DEF Drained
  <1>3. ASSUME NEW u \in Users, ~Drained(u)'
        PROVE  /\ balance'[u] \in Int
               /\ balance'[u] >= balance[u]
                    - (IF w \in Reserving(u) THEN req[w].amount ELSE 0)
    <2>1. balance[u] \in Int
      BY DEF TypeOK, AccountsTypeOK
    <2>2. CASE req[w].op \in {"sell", "accept"}
      <3>1. balance' = [balance EXCEPT ![req[w].account] = @ - req[w].amount]
        BY <2>2 DEF FundsMove, ReserveFunds
      <3>2. w \in Reserving(u) <=> u = req[w].account /\ req[w].amount > 0
        BY <1>1, <2>2 DEF Reserving
      <3>3. balance'[u] = balance[u]
                            - (IF u = req[w].account THEN req[w].amount ELSE 0)
        BY <1>1, <2>1, <3>1 DEF TypeOK, AccountsTypeOK
      <3> QED
        BY <1>1, <2>1, <3>2, <3>3
    <2>3. CASE req[w].op \in {"cancel", "resolve"}
      <3>1. balance' = [balance EXCEPT ![req[w].account] = @ + req[w].amount]
        BY <2>3 DEF FundsMove, ReleaseFunds
      <3>2. w \notin Reserving(u)
        BY <2>3 DEF Reserving
      <3>3. u = req[w].account => req[w].amount >= 0
        BY <1>1, <1>3, <1>4, <1>5, <2>3 DEF Drained
      <3> QED
        BY <1>1, <2>1, <3>1, <3>2, <3>3 DEF TypeOK, AccountsTypeOK
    <2>4. CASE req[w].op \notin {"sell", "accept", "cancel", "resolve"}
      <3>1. balance' = balance
        BY <2>4 DEF FundsMove, TransferToSeller
      <3>2. w \notin Reserving(u)
        BY <2>4 DEF Reserving
      <3> QED
        BY <2>1, <3>1, <3>2
    <2> QED
      BY <2>2, <2>3, <2>4
  <1> QED
    BY <1>2, <1>3, <1>6, OverdraftKept

\* Every other step leaves the balances alone.
LEMMA OverdraftElsewhere ==
  ASSUME TypeOK, OrdersKnown, OverdraftBound, OverdraftInv, NEW w \in Workers,
         balance' = balance, ledger' = ledger, req'[w].phase # "read",
         \A v \in Workers \ {w} : req'[v] = req[v]
  PROVE  OverdraftBound' /\ OverdraftInv'
  <1>1. ASSUME NEW u \in Users
        PROVE  /\ balance'[u] \in Int
               /\ balance'[u] >= balance[u]
                    - (IF w \in Reserving(u) THEN req[w].amount ELSE 0)
    <2>1. balance[u] \in Int
      BY DEF TypeOK, AccountsTypeOK
    <2>2. w \in Reserving(u) => req[w].amount \in Nat
      BY ReservingAmounts
    <2> QED
      BY <2>1, <2>2
  <1>2. \A u \in Users : ~Drained(u)' => ~Drained(u)
    BY DEF Drained
  <1> QED
    BY <1>1, <1>2, OverdraftKept

LEMMA OverdraftStep ==
  TypeOK /\ OrdersKnown /\ OverdraftBound /\ OverdraftInv /\ [Next]_vars
    => OverdraftBound' /\ OverdraftInv'
  <1> SUFFICES ASSUME TypeOK, OrdersKnown, OverdraftBound, OverdraftInv,
                      [Next]_vars
               PROVE  OverdraftBound' /\ OverdraftInv'
    OBVIOUS
  <1>1. ASSUME NEW w \in Workers, NEW o \in Orders, NEW u \in Users,
               \/ \E a \in Amounts, r \in Rates : BeginSell(w, o, u, a, r)
               \/ \E a \in Amounts : BeginAccept(w, o, u, a)
               \/ BeginPayment(w, o, u) \/ BeginReceipt(w, o, u)
               \/ BeginCancel(w, o, u) \/ BeginDispute(w, o, u)
               \/ BeginResolve(w, o, u)
        PROVE  OverdraftBound' /\ OverdraftInv'
    <2>1. ASSUME NEW op, NEW row, NEW account, NEW amount,
                 Begin(w, op, o, row, u, account, amount)
          PROVE  /\ balance' = balance /\ ledger' = ledger
                 /\ req'[w].phase = "checked"
                 /\ \A v \in Workers \ {w} : req'[v] = req[v]
      BY <2>1 DEF Begin, accountVars, TypeOK
    <2>2. /\ balance' = balance /\ ledger' = ledger
          /\ req'[w].phase = "checked"
          /\ \A v \in Workers \ {w} : req'[v] = req[v]
      BY <1>1, <2>1 DEF BeginSell, BeginAccept, BeginPayment, BeginReceipt,
                        BeginCancel, BeginDispute, BeginResolve
    <2> QED
      BY <2>2, OverdraftElsewhere
  <1>2. ASSUME NEW w \in Workers, NEW o \in Orders,
               \/ \E u \in Users, a \in Amounts, r \in Rates :
                    CreateBuy(w, o, u, a, r)
               \/ HideOrder(w, o)
        PROVE  OverdraftBound' /\ OverdraftInv'
    <2>1. balance' = balance /\ ledger' = ledger /\ req' = req /\ req[w] = Idle
      BY <1>2 DEF CreateBuy, HideOrder, accountVars
    <2> QED
      BY <2>1, OverdraftElsewhere DEF Idle
  <1>3. ASSUME NEW w \in Workers, Handle(w) \/ Abort(w)
        PROVE  OverdraftBound' /\ OverdraftInv'
    <2>1. CASE FundsRead(w)
      BY <2>1, OverdraftRead
    <2>2. CASE FundsMove(w)
      BY <2>2, OverdraftMove
    <2>3. CASE Refuse(w) \/ Abort(w)
      <3>1. /\ balance' = balance /\ ledger' = ledger
            /\ req' = [req EXCEPT ![w] = Idle]
        BY <2>3 DEF Refuse, Abort, accountVars
      <3> QED
        BY <3>1, OverdraftElsewhere DEF TypeOK, Idle
    <2>4. CASE \/ FinishSell(w) \/ FinishAccept(w) \/ FinishPayment(w)
               \/ FinishReceipt(w) \/ FinishCancel(w) \/ FinishDispute(w)
               \/ FinishResolve(w)
      <3>1. /\ balance' = balance /\ ledger' = ledger
            /\ req' = [req EXCEPT ![w] = Idle]
        BY <2>4 DEF FinishSell, FinishAccept, FinishPayment, FinishReceipt,
                    FinishCancel, FinishDispute, FinishResolve, Finish,
                    accountVars
      <3> QED
        BY <3>1, OverdraftElsewhere DEF TypeOK, Idle
    <2> QED
      BY <1>3, <2>1, <2>2, <2>3, <2>4 DEF Handle
  <1>4. CASE UNCHANGED vars
    <2>1. \A u \in Users : Reserving(u)' = Reserving(u) /\ Drained(u)' = Drained(u)
      BY <1>4 DEF vars, Reserving, Drained
    <2> QED
      BY <1>4, <2>1 DEF vars, OverdraftBound, OverdraftInv
  <1> QED
    BY <1>1, <1>2, <1>3, <1>4 DEF Next

LEMMA OverdraftInit == Init => OverdraftBound /\ OverdraftInv
  <1> SUFFICES ASSUME Init PROVE OverdraftBound /\ OverdraftInv
    OBVIOUS
  <1>1. \A u \in Users : Reserving(u) = {}
    BY DEF Init, Reserving, Idle
  <1>2. Cardinality(Workers) - 1 \in Nat
    <2>1. Cardinality(Workers) \in Nat
      BY WorkersAssumption, FS_CardinalityType
    <2>2. Cardinality(Workers) # 0
      BY WorkersAssumption, FS_EmptySet
    <2> QED
      BY <2>1, <2>2
  <1>3. /\ (Cardinality(Workers) - 1) * MaxMove \in Int
        /\ (Cardinality(Workers) - 1) * MaxMove >= 0
    <2>1. MaxMove \in Nat
      BY MoveAssumption
    <2>2. /\ (Cardinality(Workers) - 1) * MaxMove \in Int
          /\ (Cardinality(Workers) - 1) * MaxMove >= 0
      BY ONLY <1>2, <2>1, Distribute
    <2> QED
      BY <2>2
  <1>4. \A u \in Users : balance[u] \in Nat
    BY BalanceAssumption DEF Init, AccountsInit
  <1>5. \A u \in Users : balance[u] >= -((Cardinality(Workers) - 1) * MaxMove)
    <2>1. ASSUME NEW k \in Int, k >= 0, NEW b \in Nat
          PROVE  b >= -k
      BY <2>1
    <2> QED
      BY <1>3, <1>4, <2>1
  <1> QED
    BY <1>1, <1>5 DEF OverdraftBound, OverdraftInv

LEMMA OverdraftHolds ==
  Spec => [](TypeOK /\ OrdersKnown /\ OverdraftBound /\ OverdraftInv)
  <1>1. Init => TypeOK /\ OrdersKnown /\ OverdraftBound /\ OverdraftInv
    BY TypeInit, OrdersKnownInit, OverdraftInit
  <1>2. TypeOK /\ OrdersKnown /\ OverdraftBound /\ OverdraftInv /\ [Next]_vars
          => (TypeOK /\ OrdersKnown /\ OverdraftBound /\ OverdraftInv)'
    BY TypeStep, OrdersKnownStep, OverdraftStep
  <1> QED
    BY <1>1, <1>2, PTL DEF Spec

\* However requests interleave, are refused or lost, a user's free balance
\* falls below zero by at most MaxMove for every other request that can be in
\* progress, unless a resolveDispute has released less than nothing to it; when
\* requests come one at a time it is never negative.
THEOREM OverdraftBounded == Spec => []OverdraftBound
  BY OverdraftHolds, PTL

HIDE DEF Committed

------------------------------------------------------------------------------
(* Deals: the invariant.                                                   *)

Reserve(o, u, amount) == HasRow(o, u, "RESERVE", "owner", amount)

\* The seller's share of o has been taken.
Taken(o) == HasRow(o, orders[o].seller, "RELEASE", "seller", orders[o].amount)

\* Some reserve of o has been released.
Released(o) ==
  \E u \in Users, amount \in Int : HasRow(o, u, "RELEASE", "owner", amount)

\* Every reserve of o is above zero.
Positive(o) == \A u, amount : Reserve(o, u, amount) => amount > 0

\* Both parties of o have reserved what the row says.
Funded(o) ==
  /\ orders[o].type = "SELL"
  /\ Reserve(o, orders[o].seller, orders[o].amount)
  /\ Reserve(o, orders[o].buyer, orders[o].reserved - orders[o].amount)

OrderOK(o) ==
  /\ orders[o].status \in DealStatuses => Funded(o)
  /\ orders[o].status = "RESERVED" => orders[o].reserved = orders[o].amount
  /\ (Committed(o) /\ orders[o].type = "SELL") =>
       /\ Reserve(o, orders[o].seller, orders[o].amount)
       /\ Positive(o) => orders[o].reserved > 0
  /\ orders[o].type = "BUY" =>
       /\ orders[o].status \in {"ABSENT", "PENDING", "CANCELLED", "HIDDEN"}
       /\ orders[o].reserved = 0
  /\ orders[o].status = "COMPLETED" => Taken(o)
  /\ orders[o].status = "RESOLVED" => Released(o)
  /\ (orders[o].status = "CANCELLED" /\ orders[o].reserved > 0 /\ Positive(o)) =>
       Released(o)

\* createOrder: the order is its own until T1 commits.
SellOK(w) ==
  /\ ~Committed(req[w].order)
  /\ \A v \in Workers \ {w} : req[v] # Idle => req[v].order # req[w].order
  /\ req[w].row.type = "SELL" /\ req[w].row.seller = req[w].account
  /\ req[w].row.amount = req[w].amount
  /\ req[w].phase = "moved" => Reserve(req[w].order, req[w].account, req[w].amount)

\* acceptOrder: the reserve it read is still the seller's share.
AcceptOK(w) ==
  /\ orders[req[w].order].type = "SELL"
  /\ req[w].row.reserved = orders[req[w].order].amount
  /\ req[w].user = req[w].account
  /\ req[w].phase = "moved" => Reserve(req[w].order, req[w].account, req[w].amount)

ReceiptOK(w) ==
  /\ req[w].account = orders[req[w].order].seller
  /\ req[w].amount = orders[req[w].order].amount
  /\ req[w].phase = "moved" => Taken(req[w].order)

\* cancelOrder and resolveDispute: a BUY order has nothing to release, and no
\* other has, as long as its reserves are above zero.
ReturnOK(w) ==
  /\ orders[req[w].order].type = "BUY" => req[w].amount = 0
  /\ (req[w].amount <= 0 /\ Positive(req[w].order)) =>
       orders[req[w].order].type = "BUY"
  /\ req[w].phase = "moved" => Released(req[w].order)

HandlerOK(w) ==
  req[w] # Idle =>
    /\ req[w].phase # "checked" => CallsT2(req[w])
    /\ req[w].op = "sell" => SellOK(w)
    /\ req[w].op # "sell" => Committed(req[w].order)
    /\ req[w].op = "accept" => AcceptOK(w)
    /\ req[w].op \in {"payment", "receipt", "dispute", "resolve"} =>
         Funded(req[w].order)
    /\ req[w].op = "receipt" => ReceiptOK(w)
    /\ req[w].op \in {"cancel", "resolve"} => ReturnOK(w)

DealInv == (\A o \in Orders : OrderOK(o)) /\ (\A w \in Workers : HandlerOK(w))

-----------------------------------------------------------------------------
(* The ledger only grows.                                                  *)

LEMMA RowsGrow ==
  ASSUME ledger \in Seq(LedgerRow), NEW e, ledger' = Append(ledger, e)
  PROVE  /\ \A o, u, type, role, amount :
              HasRow(o, u, type, role, amount) => HasRow(o, u, type, role, amount)'
         /\ HasRow(e.order, e.user, e.type, e.role, e.amount)'
  <1>1. /\ \A i \in DOMAIN ledger : i \in DOMAIN ledger' /\ ledger'[i] = ledger[i]
        /\ Len(ledger) + 1 \in DOMAIN ledger'
        /\ ledger'[Len(ledger) + 1] = e
    OBVIOUS
  <1>2. ASSUME NEW o, NEW u, NEW type, NEW role, NEW amount,
               HasRow(o, u, type, role, amount)
        PROVE  HasRow(o, u, type, role, amount)'
    <2>1. PICK i \in DOMAIN ledger :
            /\ ledger[i].order = o /\ ledger[i].user = u
            /\ ledger[i].type = type /\ ledger[i].role = role
            /\ ledger[i].amount = amount
      BY <1>2 DEF HasRow
    <2>2. i \in DOMAIN ledger' /\ ledger'[i] = ledger[i]
      BY <1>1
    <2> QED
      BY <2>1, <2>2 DEF HasRow
  <1>3. HasRow(e.order, e.user, e.type, e.role, e.amount)'
    BY <1>1 DEF HasRow
  <1> QED
    BY <1>2, <1>3

LEMMA RowsKept ==
  ASSUME ledger' = ledger
  PROVE  \A o, u, type, role, amount :
           HasRow(o, u, type, role, amount) => HasRow(o, u, type, role, amount)'
  BY DEF HasRow

\* An order whose row does not change keeps what it promises.
LEMMA OrderKept ==
  ASSUME NEW o \in Orders, OrderOK(o), orders'[o] = orders[o],
         \A p, u, type, role, amount :
           HasRow(p, u, type, role, amount) => HasRow(p, u, type, role, amount)'
  PROVE  OrderOK(o)'
  <1>1. /\ Funded(o) => Funded(o)'
        /\ Taken(o) => Taken(o)'
        /\ Released(o) => Released(o)'
        /\ Positive(o)' => Positive(o)
        /\ \A u, amount : Reserve(o, u, amount) => Reserve(o, u, amount)'
    <2>1. \A u, amount : Reserve(o, u, amount) => Reserve(o, u, amount)'
      BY DEF Reserve
    <2>5. Positive(o)' => Positive(o)
      BY <2>1 DEF Positive
    <2>2. Funded(o) => Funded(o)'
      BY <2>1 DEF Funded
    <2>3. Taken(o) => Taken(o)'
      BY DEF Taken
    <2>4. Released(o) => Released(o)'
      BY DEF Released
    <2> QED
      BY <2>1, <2>2, <2>3, <2>4, <2>5
  <1> QED
    BY <1>1 DEF OrderOK, Committed

\* What orders and ledger must keep for the handlers that do not move.
Stable ==
  /\ \A o, u, type, role, amount :
       HasRow(o, u, type, role, amount) => HasRow(o, u, type, role, amount)'
  /\ \A o \in Orders :
       Committed(o) =>
         /\ Committed(o)'
         /\ orders'[o].type = orders[o].type
         /\ orders'[o].seller = orders[o].seller
         /\ orders'[o].amount = orders[o].amount
         /\ Funded(o) => Funded(o)'

\* Another handler's step leaves HandlerOK(v) true.
LEMMA HandlerKept ==
  ASSUME TypeOK, Stable, NEW v \in Workers, HandlerOK(v), req'[v] = req[v],
         (req[v] # Idle /\ req[v].op = "sell") =>
           /\ ~Committed(req[v].order)'
           /\ \A u \in Workers \ {v} :
                req'[u] # Idle => req'[u].order # req[v].order
  PROVE  HandlerOK(v)'
  <1> SUFFICES ASSUME req[v] # Idle
               PROVE  HandlerOK(v)'
    BY DEF HandlerOK
  <1> DEFINE o == req[v].order
  <1>1. o \in Orders
    BY BusyType DEF Request
  <1>2. /\ \A p, u, amount : Reserve(p, u, amount) => Reserve(p, u, amount)'
        /\ \A p : Released(p) => Released(p)'
        /\ \A p : Positive(p)' => Positive(p)
    BY DEF Stable, Reserve, Released, Positive
  <1>3. req[v].op = "sell" => SellOK(v)'
    BY <1>2 DEF HandlerOK, SellOK
  <1>4. ASSUME req[v].op # "sell"
        PROVE  /\ Committed(o) /\ Committed(o)'
               /\ orders'[o].type = orders[o].type
               /\ orders'[o].seller = orders[o].seller
               /\ orders'[o].amount = orders[o].amount
               /\ Funded(o) => Funded(o)'
    BY <1>1, <1>4 DEF HandlerOK, Stable
  <1>5. req[v].op = "accept" => AcceptOK(v)'
    BY <1>2, <1>4 DEF HandlerOK, AcceptOK
  <1>6. req[v].op = "receipt" => ReceiptOK(v)'
    <2>1. ASSUME req[v].op = "receipt", Taken(o)
          PROVE  Taken(o)'
      BY <1>4, <2>1 DEF Taken, Stable
    <2> QED
      BY <1>4, <2>1 DEF HandlerOK, ReceiptOK
  <1>7. req[v].op \in {"cancel", "resolve"} => ReturnOK(v)'
    BY <1>2, <1>4 DEF HandlerOK, ReturnOK
  <1> QED
    BY <1>3, <1>4, <1>5, <1>6, <1>7 DEF HandlerOK

-----------------------------------------------------------------------------
(* Requests begin.                                                         *)

LEMMA StableSame ==
  ASSUME orders' = orders,
         \A o, u, type, role, amount :
           HasRow(o, u, type, role, amount) => HasRow(o, u, type, role, amount)'
  PROVE  Stable
  <1>1. ASSUME NEW o \in Orders, Committed(o)
        PROVE  Committed(o)' /\ (Funded(o) => Funded(o)')
    BY <1>1 DEF Committed, Funded, Reserve
  <1> QED
    BY <1>1 DEF Stable

\* A request that begins, once its own part of DealInv is shown.
LEMMA BeginDeal ==
  ASSUME TypeOK, DealInv, NEW w \in Workers, NEW op, NEW o \in Orders, NEW row,
         NEW u, NEW account, NEW amount,
         Begin(w, op, o, row, u, account, amount),
         IF op = "sell" THEN Fresh(o) ELSE Committed(o),
         (/\ req'[w].phase = "checked" /\ req'[w].op = op /\ req'[w].order = o
          /\ req'[w].row = row /\ req'[w].user = u /\ req'[w].account = account
          /\ req'[w].amount = amount
          /\ \A v \in Workers \ {w} : req'[v] = req[v])
           => HandlerOK(w)'
  PROVE  DealInv'
  <1>1. /\ req[w] = Idle
        /\ req'[w] = [phase |-> "checked", op |-> op, order |-> o, row |-> row,
                      user |-> u, account |-> account, amount |-> amount,
                      before |-> 0]
        /\ \A v \in Workers \ {w} : req'[v] = req[v]
        /\ orders' = orders /\ ledger' = ledger
    BY DEF Begin, TypeOK, accountVars
  <1>2. HandlerOK(w)'
    BY <1>1
  <1>3. Stable
    BY <1>1, RowsKept, StableSame
  <1>4. \A p \in Orders : OrderOK(p)'
    BY <1>1, RowsKept, OrderKept DEF DealInv
  <1>5. ASSUME NEW v \in Workers \ {w}
        PROVE  HandlerOK(v)'
    <2>1. ASSUME req[v] # Idle, req[v].op = "sell"
          PROVE  /\ ~Committed(req[v].order)'
                 /\ \A x \in Workers \ {v} :
                      req'[x] # Idle => req'[x].order # req[v].order
      <3>1. /\ ~Committed(req[v].order)
            /\ \A x \in Workers \ {v} : req[x] # Idle => req[x].order # req[v].order
        BY <2>1 DEF DealInv, HandlerOK, SellOK
      <3>2. req[v].order # o
        BY <2>1, <3>1 DEF Fresh
      <3> QED
        BY <1>1, <3>1, <3>2 DEF Committed
    <2> QED
      BY <1>1, <1>3, <2>1, HandlerKept DEF DealInv
  <1> QED
    BY <1>2, <1>4, <1>5 DEF DealInv

LEMMA BeginStep ==
  ASSUME TypeOK, OrdersKnown, DealInv, NEW w \in Workers, NEW o \in Orders,
         NEW u \in Users,
         \/ \E a \in Amounts, r \in Rates : BeginSell(w, o, u, a, r)
         \/ \E a \in Amounts : BeginAccept(w, o, u, a)
         \/ BeginPayment(w, o, u) \/ BeginReceipt(w, o, u)
         \/ BeginCancel(w, o, u) \/ BeginDispute(w, o, u)
         \/ BeginResolve(w, o, u)
  PROVE  DealInv'
  <1>1. OrderOK(o) /\ orders[o] \in Order
    BY DEF DealInv, TypeOK
  <1>2. ASSUME NEW p \in Orders, orders' = orders, ledger' = ledger, Funded(p)
        PROVE  Funded(p)'
    BY <1>2 DEF Funded, Reserve, HasRow
  <1>3. CASE \E a \in Amounts, r \in Rates : BeginSell(w, o, u, a, r)
    <2>1. PICK a \in Amounts, r \in Rates : BeginSell(w, o, u, a, r)
      BY <1>3
    <2>2. /\ NewOrder("SELL", u, a, r).type = "SELL"
          /\ NewOrder("SELL", u, a, r).seller = u
          /\ NewOrder("SELL", u, a, r).amount = a
      BY DEF NewOrder
    <2>3. Fresh(o) /\ orders' = orders
      BY <2>1 DEF BeginSell, Begin
    <2>4. /\ ~Committed(o)'
          /\ \A v \in Workers \ {w} : req[v] # Idle => req[v].order # o
      BY <2>3 DEF Fresh, Committed
    <2> QED
      BY <2>1, <2>2, <2>3, <2>4, BeginDeal DEF BeginSell, HandlerOK, SellOK
  <1>4. CASE \E a \in Amounts : BeginAccept(w, o, u, a)
    <2>1. PICK a \in Amounts : BeginAccept(w, o, u, a)
      BY <1>4
    <2>2. orders[o].status = "RESERVED" /\ Committed(o)
      BY <2>1 DEF BeginAccept, CanTransition, STATE_TRANSITIONS, Statuses, Committed
    <2>3. orders[o].reserved = orders[o].amount
      BY <1>1, <2>2 DEF OrderOK
    <2>5. /\ orders' = orders /\ orders[o].type = "SELL"
          /\ Begin(w, "accept", o, orders[o], u, u, a * orders[o].rate)
      BY <2>1 DEF BeginAccept, Begin
    <2>6. Committed(o)'
      BY <2>2, <2>5 DEF Committed
    <2> QED
      BY <2>2, <2>3, <2>5, <2>6, BeginDeal DEF HandlerOK, AcceptOK
  <1>5. CASE BeginPayment(w, o, u) \/ BeginDispute(w, o, u)
    <2>1. orders[o].status \in DealStatuses /\ Committed(o)
      BY <1>5 DEF BeginPayment, BeginDispute, CanTransition, STATE_TRANSITIONS,
                  Statuses, DealStatuses, Committed
    <2>2. Funded(o) /\ orders' = orders /\ ledger' = ledger
      BY <1>1, <1>5, <2>1
         DEF OrderOK, BeginPayment, BeginDispute, Begin, accountVars
    <2>3. Funded(o)' /\ Committed(o)'
      BY <1>2, <2>1, <2>2 DEF Committed
    <2> QED
      BY <1>5, <2>1, <2>3, BeginDeal DEF BeginPayment, BeginDispute, HandlerOK
  <1>6. CASE BeginReceipt(w, o, u)
    <2>1. orders[o].status \in DealStatuses /\ Committed(o)
      BY <1>6 DEF BeginReceipt, CanTransition, STATE_TRANSITIONS, Statuses,
                  DealStatuses, Committed
    <2>2. Funded(o) /\ orders' = orders /\ ledger' = ledger
      BY <1>1, <1>6, <2>1 DEF OrderOK, BeginReceipt, Begin, accountVars
    <2>3. Funded(o)' /\ Committed(o)'
      BY <1>2, <2>1, <2>2 DEF Committed
    <2> QED
      BY <1>6, <2>1, <2>2, <2>3, BeginDeal
         DEF BeginReceipt, HandlerOK, ReceiptOK
  <1>7. CASE BeginCancel(w, o, u)
    <2>1. Committed(o) /\ orders' = orders
      BY <1>7 DEF BeginCancel, Begin, CanTransition, Statuses, Committed
    <2>2. /\ orders[o].type = "BUY" => orders[o].reserved = 0
          /\ (orders[o].reserved <= 0 /\ Positive(o)) => orders[o].type = "BUY"
      BY <1>1, <2>1 DEF OrderOK, Order, Types
    <2>4. ledger' = ledger
      BY <1>7 DEF BeginCancel, Begin, accountVars
    <2>5. Positive(o)' => Positive(o)
      BY <2>4, RowsKept DEF Positive, Reserve
    <2>3. Committed(o)'
      BY <2>1 DEF Committed
    <2> QED
      BY <1>7, <2>1, <2>2, <2>3, <2>5, BeginDeal DEF BeginCancel, HandlerOK, ReturnOK
  <1>8. CASE BeginResolve(w, o, u)
    <2>1. orders[o].status \in DealStatuses /\ Committed(o)
      BY <1>8 DEF BeginResolve, DealStatuses, Committed
    <2>2. Funded(o) /\ orders' = orders /\ ledger' = ledger
      BY <1>1, <1>8, <2>1 DEF OrderOK, BeginResolve, Begin, accountVars
    <2>3. Funded(o)' /\ Committed(o)'
      BY <1>2, <2>1, <2>2 DEF Committed
    <2>4. /\ orders[o].type = "BUY" => orders[o].reserved = 0
          /\ (orders[o].reserved <= 0 /\ Positive(o)) => orders[o].type = "BUY"
      BY <1>1, <2>1 DEF OrderOK, Order, Types
    <2>5. Positive(o)' => Positive(o)
      BY <2>2, RowsKept DEF Positive, Reserve
    <2> QED
      BY <1>8, <2>1, <2>2, <2>3, <2>4, <2>5, BeginDeal
         DEF BeginResolve, HandlerOK, ReturnOK
  <1> QED
    BY <1>3, <1>4, <1>5, <1>6, <1>7, <1>8

-----------------------------------------------------------------------------
(* T2, refusals and losses: the order table does not change.               *)

\* A handler ends without a commit, or goes on to its next phase.
LEMMA InnerDeal ==
  ASSUME TypeOK, DealInv, NEW w \in Workers, req[w] # Idle, orders' = orders,
         \A o, u, type, role, amount :
           HasRow(o, u, type, role, amount) => HasRow(o, u, type, role, amount)',
         \A v \in Workers \ {w} : req'[v] = req[v],
         req'[w] # Idle => req'[w].order = req[w].order,
         HandlerOK(w)'
  PROVE  DealInv'
  <1>1. Stable
    BY StableSame
  <1>2. \A o \in Orders : OrderOK(o)'
    BY OrderKept DEF DealInv
  <1>3. ASSUME NEW v \in Workers \ {w}
        PROVE  HandlerOK(v)'
    <2>1. ASSUME req[v] # Idle, req[v].op = "sell"
          PROVE  /\ ~Committed(req[v].order)'
                 /\ \A x \in Workers \ {v} :
                      req'[x] # Idle => req'[x].order # req[v].order
      <3>1. /\ ~Committed(req[v].order)
            /\ \A x \in Workers \ {v} : req[x] # Idle => req[x].order # req[v].order
        BY <2>1 DEF DealInv, HandlerOK, SellOK
      <3> QED
        BY <3>1 DEF Committed
    <2> QED
      BY <1>1, <2>1, HandlerKept DEF DealInv
  <1> QED
    BY <1>2, <1>3 DEF DealInv

\* What a handler relies on when only its phase changes, and the row of T2 is
\* there once the phase is "moved".
LEMMA PhaseDeal ==
  ASSUME TypeOK, NEW w \in Workers, HandlerOK(w), req[w] # Idle, Stable,
         orders' = orders,
         /\ req'[w].op = req[w].op /\ req'[w].order = req[w].order
         /\ req'[w].row = req[w].row /\ req'[w].user = req[w].user
         /\ req'[w].account = req[w].account /\ req'[w].amount = req[w].amount,
         \A v \in Workers \ {w} : req'[v] = req[v],
         req'[w].phase # "checked" => CallsT2(req[w]),
         req'[w].phase = "moved" =>
           CASE req[w].op \in {"sell", "accept"} ->
                  Reserve(req[w].order, req[w].account, req[w].amount)'
             [] req[w].op \in {"cancel", "resolve"} ->
                  Released(req[w].order)'
             [] OTHER ->
                  HasRow(req[w].order, req[w].account, "RELEASE", "seller",
                         req[w].amount)'
  PROVE  HandlerOK(w)'
  <1>1. req[w].order \in Orders
    BY BusyType DEF Request
  <1>2. req[w].op = "sell" => SellOK(w)'
    BY DEF HandlerOK, SellOK, Committed
  <1>3. req[w].op # "sell" =>
          Committed(req[w].order)' /\ (Funded(req[w].order) => Funded(req[w].order)')
    BY <1>1 DEF HandlerOK, Stable
  <1>4. req[w].op = "accept" => AcceptOK(w)'
    BY DEF HandlerOK, AcceptOK
  <1>5. req[w].op = "receipt" => ReceiptOK(w)'
    BY DEF HandlerOK, ReceiptOK, Taken
  <1>7. Positive(req[w].order)' => Positive(req[w].order)
    BY DEF Stable, Positive, Reserve
  <1>6. req[w].op \in {"cancel", "resolve"} => ReturnOK(w)'
    BY <1>7 DEF HandlerOK, ReturnOK
  <1> QED
    BY <1>2, <1>3, <1>4, <1>5, <1>6 DEF HandlerOK, CallsT2

\* T2 of handler w leaves the row its commit promises.
LEMMA MoveRows ==
  ASSUME TypeOK, NEW w \in Workers, FundsMove(w)
  PROVE  /\ \A o, u, type, role, amount :
              HasRow(o, u, type, role, amount) => HasRow(o, u, type, role, amount)'
         /\ CASE req[w].op \in {"sell", "accept"} ->
                  Reserve(req[w].order, req[w].account, req[w].amount)'
              [] req[w].op \in {"cancel", "resolve"} ->
                  Released(req[w].order)'
              [] OTHER ->
                  HasRow(req[w].order, req[w].account, "RELEASE", "seller",
                         req[w].amount)'
  <1> DEFINE q == req[w]
  <1>1. q.account \in Users /\ q.amount \in Int
    BY PhaseType DEF FundsMove, Request
  <1>2. ledger \in Seq(LedgerRow)
    BY DEF TypeOK, AccountsTypeOK
  <1>3. /\ req'[w].op = q.op /\ req'[w].order = q.order
        /\ req'[w].account = q.account /\ req'[w].amount = q.amount
    BY PhaseType DEF FundsMove, TypeOK, Request
  <1>4. CASE q.op \in {"sell", "accept"}
    <2>1. PICK e : e = Entry(q.order, q.account, "RESERVE", "owner", q.amount,
                             q.before, q.before - q.amount)
      OBVIOUS
    <2>2. ledger' = Append(ledger, e)
      BY <1>4, <2>1 DEF FundsMove, ReserveFunds
    <2>3. /\ e.order = q.order /\ e.user = q.account /\ e.type = "RESERVE"
          /\ e.role = "owner" /\ e.amount = q.amount
      BY <2>1 DEF Entry
    <2>4. Reserve(q.order, q.account, q.amount)'
      BY <1>2, <1>3, <2>2, <2>3, RowsGrow DEF Reserve
    <2>5. \A o, u, type, role, amount :
            HasRow(o, u, type, role, amount) => HasRow(o, u, type, role, amount)'
      BY <1>2, <2>2, RowsGrow
    <2> QED
      BY <1>3, <1>4, <2>4, <2>5
  <1>5. CASE q.op \in {"cancel", "resolve"}
    <2>1. PICK e : e = Entry(q.order, q.account, "RELEASE", "owner", q.amount,
                             q.before, q.before + q.amount)
      OBVIOUS
    <2>2. ledger' = Append(ledger, e)
      BY <1>5, <2>1 DEF FundsMove, ReleaseFunds
    <2>3. /\ e.order = q.order /\ e.user = q.account /\ e.type = "RELEASE"
          /\ e.role = "owner" /\ e.amount = q.amount
      BY <2>1 DEF Entry
    <2>4. HasRow(q.order, q.account, "RELEASE", "owner", q.amount)'
      BY <1>2, <1>3, <2>2, <2>3, RowsGrow
    <2>5. \A o, u, type, role, amount :
            HasRow(o, u, type, role, amount) => HasRow(o, u, type, role, amount)'
      BY <1>2, <2>2, RowsGrow
    <2>6. Released(q.order)'
      BY <1>1, <1>3, <2>4 DEF Released
    <2> QED
      BY <1>3, <1>5, <2>5, <2>6
  <1>6. CASE q.op \notin {"sell", "accept", "cancel", "resolve"}
    <2>1. PICK e : e = Entry(q.order, q.account, "RELEASE", "seller", q.amount,
                             q.before, q.before)
      OBVIOUS
    <2>2. ledger' = Append(ledger, e)
      BY <1>6, <2>1 DEF FundsMove, TransferToSeller
    <2>3. /\ e.order = q.order /\ e.user = q.account /\ e.type = "RELEASE"
          /\ e.role = "seller" /\ e.amount = q.amount
      BY <2>1 DEF Entry
    <2>4. HasRow(q.order, q.account, "RELEASE", "seller", q.amount)'
      BY <1>2, <1>3, <2>2, <2>3, RowsGrow
    <2>5. \A o, u, type, role, amount :
            HasRow(o, u, type, role, amount) => HasRow(o, u, type, role, amount)'
      BY <1>2, <2>2, RowsGrow
    <2> QED
      BY <1>3, <1>6, <2>4, <2>5
  <1> QED
    BY <1>4, <1>5, <1>6

LEMMA InnerStep ==
  ASSUME TypeOK, DealInv, NEW w \in Workers,
         FundsRead(w) \/ FundsMove(w) \/ Refuse(w) \/ Abort(w)
  PROVE  DealInv'
  <1>1. /\ req[w] # Idle /\ req[w] \in Request /\ orders' = orders
        /\ \A v \in Workers \ {w} : req'[v] = req[v]
    <2>1. req[w] # Idle
      BY PhaseType DEF FundsRead, FundsMove, Refuse, Abort
    <2> QED
      BY <2>1, BusyType DEF FundsRead, FundsMove, Refuse, Abort, TypeOK
  <1>2. CASE Refuse(w) \/ Abort(w)
    <2>1. req'[w] = Idle /\ ledger' = ledger
      BY <1>2 DEF Refuse, Abort, TypeOK, accountVars
    <2>2. HandlerOK(w)'
      BY <2>1 DEF HandlerOK
    <2> QED
      BY <1>1, <2>1, <2>2, RowsKept, InnerDeal
  <1>3. CASE FundsRead(w)
    <2>1. /\ req'[w].phase = "read"
          /\ req'[w].op = req[w].op /\ req'[w].order = req[w].order
          /\ req'[w].row = req[w].row /\ req'[w].user = req[w].user
          /\ req'[w].account = req[w].account /\ req'[w].amount = req[w].amount
          /\ CallsT2(req[w]) /\ ledger' = ledger
      BY <1>1, <1>3 DEF FundsRead, TypeOK, Request, accountVars
    <2>2. HandlerOK(w)'
      BY <1>1, <2>1, RowsKept, StableSame, PhaseDeal DEF DealInv
    <2> QED
      BY <1>1, <2>1, <2>2, RowsKept, InnerDeal
  <1>4. CASE FundsMove(w)
    <2>1. /\ req'[w].op = req[w].op /\ req'[w].order = req[w].order
          /\ req'[w].row = req[w].row /\ req'[w].user = req[w].user
          /\ req'[w].account = req[w].account /\ req'[w].amount = req[w].amount
          /\ CallsT2(req[w])
      BY <1>1, <1>4 DEF FundsMove, TypeOK, Request, DealInv, HandlerOK
    <2>2. Stable
      BY <1>1, <1>4, MoveRows, StableSame
    <2>3. HandlerOK(w)'
      BY <1>1, <1>4, <2>1, <2>2, MoveRows, PhaseDeal DEF DealInv
    <2> QED
      BY <1>1, <1>4, <2>1, <2>3, MoveRows, InnerDeal
  <1> QED
    BY <1>2, <1>3, <1>4

-----------------------------------------------------------------------------
(* T1 commits, and the requests of one statement.                          *)

\* The row of one order changes and keeps OrderOK; worker w is idle after.
LEMMA ChangeDeal ==
  ASSUME TypeOK, DealInv, NEW w \in Workers, NEW o \in Orders, NEW row,
         orders' = [orders EXCEPT ![o] = row], ledger' = ledger,
         req'[w] = Idle, \A v \in Workers \ {w} : req'[v] = req[v],
         \A v \in Workers \ {w} :
           (req[v] # Idle /\ req[v].op = "sell") => req[v].order # o,
         row.status # "ABSENT",
         Committed(o) =>
           /\ row.type = orders[o].type /\ row.seller = orders[o].seller
           /\ row.amount = orders[o].amount
           /\ Funded(o) => Funded(o)',
         OrderOK(o)'
  PROVE  DealInv'
  <1>1. orders'[o] = row /\ \A p \in Orders \ {o} : orders'[p] = orders[p]
    BY DEF TypeOK
  <1>2. \A p \in Orders : OrderOK(p)'
    BY <1>1, RowsKept, OrderKept DEF DealInv
  <1>3. ASSUME NEW p \in Orders, Committed(p)
        PROVE  /\ Committed(p)'
               /\ orders'[p].type = orders[p].type
               /\ orders'[p].seller = orders[p].seller
               /\ orders'[p].amount = orders[p].amount
               /\ Funded(p) => Funded(p)'
    <2>1. CASE p = o
      BY <1>1, <1>3, <2>1 DEF Committed
    <2>2. CASE p # o
      BY <1>1, <1>3, <2>2, RowsKept DEF Committed, Funded, Reserve
    <2> QED
      BY <2>1, <2>2
  <1>4. Stable
    BY <1>3, RowsKept DEF Stable
  <1>5. ASSUME NEW v \in Workers \ {w}
        PROVE  HandlerOK(v)'
    <2>1. ASSUME req[v] # Idle, req[v].op = "sell"
          PROVE  /\ ~Committed(req[v].order)'
                 /\ \A x \in Workers \ {v} :
                      req'[x] # Idle => req'[x].order # req[v].order
      <3>1. /\ ~Committed(req[v].order)
            /\ \A x \in Workers \ {v} : req[x] # Idle => req[x].order # req[v].order
        BY <2>1 DEF DealInv, HandlerOK, SellOK
      <3>2. req[v].order \in Orders \ {o}
        BY <2>1, BusyType DEF Request
      <3> QED
        BY <1>1, <3>1, <3>2 DEF Committed
    <2> QED
      BY <1>4, <2>1, HandlerKept DEF DealInv
  <1>6. HandlerOK(w)'
    BY DEF HandlerOK
  <1> QED
    BY <1>2, <1>5, <1>6 DEF DealInv

\* What every commit of T1 does.
LEMMA FinishFacts ==
  ASSUME TypeOK, DealInv, NEW w \in Workers, NEW op, NEW row, Finish(w, op, row),
         NEW o, o = req[w].order
  PROVE  /\ req[w] # Idle /\ req[w] \in Request /\ req[w].op = op
         /\ o \in Orders /\ orders[o] \in Order /\ orders'[o] = row
         /\ orders' = [orders EXCEPT ![o] = row]
         /\ req'[w] = Idle /\ \A v \in Workers \ {w} : req'[v] = req[v]
         /\ \A v \in Workers \ {w} :
              (req[v] # Idle /\ req[v].op = "sell") => req[v].order # o
         /\ CallsT2(req[w]) => req[w].phase = "moved"
         /\ OrderOK(o) /\ HandlerOK(w)
         /\ op # "sell" => Committed(o)
  <1>1. req[w] # Idle /\ req[w] \in Request /\ req[w].op = op
    BY BusyType DEF Finish
  <1>2. o \in Orders /\ orders[o] \in Order
    BY <1>1 DEF Request, TypeOK
  <1>3. orders' = [orders EXCEPT ![o] = row] /\ req' = [req EXCEPT ![w] = Idle]
    BY DEF Finish
  <1>4. orders'[o] = row
    BY <1>2, <1>3 DEF TypeOK
  <1>5. req'[w] = Idle /\ \A v \in Workers \ {w} : req'[v] = req[v]
    BY <1>3 DEF TypeOK
  <1>6. \A v \in Workers \ {w} :
          (req[v] # Idle /\ req[v].op = "sell") => req[v].order # o
    BY <1>1 DEF DealInv, HandlerOK, SellOK
  <1>7. CallsT2(req[w]) => req[w].phase = "moved"
    BY <1>1 DEF Finish, ReadyToCommit
  <1>8. OrderOK(o) /\ HandlerOK(w)
    BY <1>2 DEF DealInv
  <1>9. op # "sell" => Committed(o)
    BY <1>1, <1>8 DEF HandlerOK
  <1> QED
    BY <1>1, <1>2, <1>3, <1>4, <1>5, <1>6, <1>7, <1>8, <1>9

LEMMA FinishSellDeal ==
  ASSUME TypeOK, DealInv, NEW w \in Workers, FinishSell(w)
  PROVE  DealInv'
  <1>1. PICK o : o = req[w].order
    OBVIOUS
  <1>2. PICK row : row = Reserved(req[w])
    OBVIOUS
  <1>3. Finish(w, "sell", row) /\ ledger' = ledger
    BY <1>2 DEF FinishSell, accountVars
  <1>4. SellOK(w) /\ req[w].phase = "moved" /\ orders'[o] = row
    BY <1>1, <1>3, FinishFacts DEF HandlerOK, SellOK, CallsT2, MovingOps
  <1>5. /\ row.type = "SELL" /\ row.seller = req[w].account
        /\ row.amount = req[w].amount /\ row.reserved = req[w].amount
        /\ row.status = "RESERVED"
    BY <1>1, <1>2, <1>3, <1>4, FinishFacts DEF SellOK, Reserved, Request, Order
  <1>6. Reserve(o, row.seller, row.amount)
    BY <1>1, <1>4, <1>5 DEF SellOK
  <1>9. Reserve(o, row.seller, row.amount)'
    BY <1>3, <1>6, RowsKept DEF Reserve
  <1>10. Positive(o)' => row.amount > 0
    BY <1>9 DEF Positive
  <1>7. OrderOK(o)'
    BY <1>4, <1>5, <1>9, <1>10 DEF OrderOK, DealStatuses
  <1>8. ~Committed(o)
    BY <1>1, <1>4 DEF SellOK
  <1> QED
    BY <1>1, <1>3, <1>5, <1>7, <1>8, FinishFacts, ChangeDeal

LEMMA FinishAcceptDeal ==
  ASSUME TypeOK, DealInv, NEW w \in Workers, FinishAccept(w)
  PROVE  DealInv'
  <1>1. PICK o : o = req[w].order
    OBVIOUS
  <1>2. PICK row : row = Accepted(orders[o], req[w])
    OBVIOUS
  <1>3. Finish(w, "accept", row) /\ ledger' = ledger
    BY <1>1, <1>2 DEF FinishAccept, accountVars
  <1>4. AcceptOK(w) /\ req[w].phase = "moved" /\ orders'[o] = row /\ Committed(o)
    BY <1>1, <1>3, FinishFacts DEF HandlerOK, AcceptOK, CallsT2, MovingOps
  <1>5. req[w] \in Request /\ orders[o] \in Order /\ OrderOK(o)
    BY <1>1, <1>3, FinishFacts
  <1>6. /\ row.type = "SELL" /\ row.seller = orders[o].seller
        /\ row.type = orders[o].type
        /\ row.amount = orders[o].amount /\ row.buyer = req[w].account
        /\ row.reserved = orders[o].amount + req[w].amount
        /\ row.status = "PAYMENT_PENDING"
    BY <1>1, <1>2, <1>4, <1>5 DEF AcceptOK, Accepted, Request, Order
  <1>7. orders[o].amount \in Int /\ req[w].amount \in Int
    BY <1>5 DEF Request, Order
  <1>8. row.reserved - row.amount = req[w].amount
    BY <1>6, <1>7
  <1>9. Reserve(o, row.seller, row.amount)
    BY <1>4, <1>5, <1>6 DEF OrderOK
  <1>10. Reserve(o, row.buyer, row.reserved - row.amount)
    BY <1>1, <1>4, <1>6, <1>8 DEF AcceptOK
  <1>11. Funded(o)'
    BY <1>3, <1>4, <1>6, <1>9, <1>10, RowsKept DEF Funded, Reserve
  <1>13. /\ Reserve(o, row.seller, row.amount)'
         /\ Reserve(o, row.buyer, row.reserved - row.amount)'
    BY <1>3, <1>9, <1>10, RowsKept DEF Reserve
  <1>14. Positive(o)' => row.amount > 0 /\ row.reserved - row.amount > 0
    BY <1>13 DEF Positive
  <1>15. Positive(o)' => row.reserved > 0
    BY <1>6, <1>7, <1>8, <1>14
  <1>12. OrderOK(o)'
    BY <1>4, <1>6, <1>11, <1>13, <1>15 DEF OrderOK
  <1> QED
    BY <1>1, <1>3, <1>6, <1>11, <1>12, FinishFacts, ChangeDeal

\* The other commits change the status only.
OnlyStatus(row, o, status) ==
  /\ row.type = orders[o].type /\ row.seller = orders[o].seller
  /\ row.buyer = orders[o].buyer /\ row.amount = orders[o].amount
  /\ row.reserved = orders[o].reserved
  /\ row.status = status /\ status # "ABSENT"

LEMMA StatusRow ==
  ASSUME NEW o, orders[o] \in Order, NEW status \in Statuses
  PROVE  OnlyStatus([orders[o] EXCEPT !.status = status], o, status)
  BY DEF OnlyStatus, Order, Statuses

LEMMA StatusDeal ==
  ASSUME NEW o, OrderOK(o), Committed(o),
         NEW row, NEW status \in Statuses \ {"RESERVED", "PENDING"},
         OnlyStatus(row, o, status), orders'[o] = row, ledger' = ledger,
         status \in DealStatuses => Funded(o),
         orders[o].type = "BUY" => status \in {"CANCELLED", "HIDDEN"},
         status = "COMPLETED" => Taken(o),
         status = "RESOLVED" => Released(o),
         (status = "CANCELLED" /\ orders[o].reserved > 0 /\ Positive(o)) =>
           Released(o)
  PROVE  OrderOK(o)' /\ (Funded(o) => Funded(o)')
  <1>1. Funded(o) => Funded(o)'
    BY RowsKept DEF OnlyStatus, Funded, Reserve
  <1>2. /\ Taken(o) => Taken(o)'
        /\ Released(o) => Released(o)'
        /\ \A u, amount : Reserve(o, u, amount) => Reserve(o, u, amount)'
    BY RowsKept DEF OnlyStatus, Taken, Released, Reserve
  <1>4. Positive(o)' => Positive(o)
    BY <1>2 DEF Positive
  <1>3. OrderOK(o)'
    BY <1>1, <1>2, <1>4 DEF OnlyStatus, OrderOK, Committed
  <1> QED
    BY <1>1, <1>3

\* The commit of a handler that sets a status it may set.
LEMMA FinishStatusDeal ==
  ASSUME TypeOK, DealInv, NEW w \in Workers, NEW op,
         NEW status \in Statuses \ {"RESERVED", "PENDING"},
         NEW o, o = req[w].order, op # "sell",
         Finish(w, op, SetStatus(w, status)), ledger' = ledger,
         status \in DealStatuses => Funded(o),
         orders[o].type = "BUY" => status \in {"CANCELLED", "HIDDEN"},
         status = "COMPLETED" => Taken(o),
         status = "RESOLVED" => Released(o),
         (status = "CANCELLED" /\ orders[o].reserved > 0 /\ Positive(o)) =>
           Released(o)
  PROVE  DealInv'
  <1>1. PICK row : row = [orders[o] EXCEPT !.status = status]
    OBVIOUS
  <1>2. Finish(w, op, row)
    BY <1>1 DEF SetStatus
  <1>3. /\ o \in Orders /\ orders[o] \in Order /\ orders'[o] = row
        /\ OrderOK(o) /\ Committed(o)
    BY <1>2, FinishFacts
  <1>4. OnlyStatus(row, o, status)
    BY <1>1, <1>3, StatusRow
  <1>5. OrderOK(o)' /\ (Funded(o) => Funded(o)')
    BY <1>3, <1>4, StatusDeal
  <1>6. /\ row.type = orders[o].type /\ row.seller = orders[o].seller
        /\ row.amount = orders[o].amount /\ row.status # "ABSENT"
    BY <1>4 DEF OnlyStatus
  <1>7. /\ orders' = [orders EXCEPT ![o] = row] /\ req'[w] = Idle
        /\ \A v \in Workers \ {w} : req'[v] = req[v]
        /\ \A v \in Workers \ {w} :
             (req[v] # Idle /\ req[v].op = "sell") => req[v].order # o
    BY <1>2, FinishFacts
  <1> QED
    BY ONLY TypeOK, DealInv, w \in Workers, ledger' = ledger,
            <1>3, <1>5, <1>6, <1>7, ChangeDeal

\* What a handler that commits may rely on.
LEMMA FinishRelies ==
  ASSUME TypeOK, DealInv, NEW w \in Workers, NEW op, NEW row,
         Finish(w, op, row), NEW o, o = req[w].order
  PROVE  /\ op \in {"payment", "receipt", "dispute", "resolve"} => Funded(o)
         /\ op = "receipt" => Taken(o)
         /\ op = "resolve" => Released(o)
         /\ (op = "cancel" /\ orders[o].reserved > 0 /\ Positive(o)) => Released(o)
  <1>1. /\ req[w] # Idle /\ req[w] \in Request /\ req[w].op = op
        /\ OrderOK(o) /\ HandlerOK(w)
        /\ CallsT2(req[w]) => req[w].phase = "moved"
    BY FinishFacts
  <1>2. req[w].amount \in Int
    BY <1>1 DEF Request
  <1>3. op \in {"payment", "receipt", "dispute", "resolve"} => Funded(o)
    BY <1>1 DEF HandlerOK
  <1>4. op = "receipt" => Taken(o)
    BY <1>1 DEF HandlerOK, ReceiptOK, CallsT2, MovingOps
  <1>5. op = "resolve" => Released(o)
    BY <1>1 DEF HandlerOK, ReturnOK, CallsT2, MovingOps
  <1>6. ASSUME op = "cancel", orders[o].reserved > 0, Positive(o)
        PROVE  Released(o)
    <2>1. ReturnOK(w)
      BY <1>1, <1>6 DEF HandlerOK
    <2>2. CASE req[w].amount <= 0
      BY <1>1, <1>6, <2>1, <2>2 DEF ReturnOK, OrderOK
    <2>3. CASE req[w].amount > 0
      BY <1>1, <1>6, <2>1, <2>3 DEF ReturnOK, CallsT2, MovingOps
    <2> QED
      BY <1>2, <2>2, <2>3
  <1> QED
    BY <1>3, <1>4, <1>5, <1>6

LEMMA FinishDeal ==
  ASSUME TypeOK, DealInv, NEW w \in Workers,
         \/ FinishPayment(w) \/ FinishReceipt(w) \/ FinishCancel(w)
         \/ FinishDispute(w) \/ FinishResolve(w)
  PROVE  DealInv'
  <1>1. PICK o : o = req[w].order
    OBVIOUS
  <1>2. ledger' = ledger
    BY DEF FinishPayment, FinishReceipt, FinishCancel, FinishDispute,
           FinishResolve, accountVars
  <1>3. CASE FinishPayment(w)
    <2>1. Finish(w, "payment", SetStatus(w, "PAID"))
      BY <1>3 DEF FinishPayment
    <2>2. Funded(o) /\ orders[o].type # "BUY"
      BY <1>1, <2>1, FinishRelies DEF Funded
    <2> QED
      BY <1>1, <1>2, <2>1, <2>2, FinishStatusDeal DEF Statuses
  <1>4. CASE FinishReceipt(w)
    <2>1. Finish(w, "receipt", SetStatus(w, "COMPLETED"))
      BY <1>4 DEF FinishReceipt
    <2>2. Funded(o) /\ Taken(o) /\ orders[o].type # "BUY"
      BY <1>1, <2>1, FinishRelies DEF Funded
    <2> QED
      BY <1>1, <1>2, <2>1, <2>2, FinishStatusDeal DEF Statuses
  <1>5. CASE FinishCancel(w)
    <2>1. Finish(w, "cancel", SetStatus(w, "CANCELLED"))
      BY <1>5 DEF FinishCancel
    <2>2. (orders[o].reserved > 0 /\ Positive(o)) => Released(o)
      BY <1>1, <2>1, FinishRelies
    <2> QED
      BY <1>1, <1>2, <2>1, <2>2, FinishStatusDeal DEF Statuses, DealStatuses
  <1>6. CASE FinishDispute(w)
    <2>1. Finish(w, "dispute", SetStatus(w, "DISPUTED"))
      BY <1>6 DEF FinishDispute
    <2>2. Funded(o) /\ orders[o].type # "BUY"
      BY <1>1, <2>1, FinishRelies DEF Funded
    <2> QED
      BY <1>1, <1>2, <2>1, <2>2, FinishStatusDeal DEF Statuses
  <1>7. CASE FinishResolve(w)
    <2>1. Finish(w, "resolve", SetStatus(w, "RESOLVED"))
      BY <1>7 DEF FinishResolve
    <2>2. Funded(o) /\ Released(o) /\ orders[o].type # "BUY"
      BY <1>1, <2>1, FinishRelies DEF Funded
    <2> QED
      BY <1>1, <1>2, <2>1, <2>2, FinishStatusDeal DEF Statuses
  <1> QED
    BY <1>3, <1>4, <1>5, <1>6, <1>7

LEMMA CreateBuyDeal ==
  ASSUME TypeOK, DealInv, NEW w \in Workers, NEW o \in Orders, NEW u \in Users,
         NEW a \in Amounts, NEW r \in Rates, CreateBuy(w, o, u, a, r)
  PROVE  DealInv'
  <1>1. PICK row : row = NewOrder("BUY", u, a, r)
    OBVIOUS
  <1>2. /\ orders' = [orders EXCEPT ![o] = row] /\ ledger' = ledger
        /\ req' = req /\ req[w] = Idle /\ Fresh(o)
    BY <1>1 DEF CreateBuy, Created, accountVars
  <1>3. row.type = "BUY" /\ row.status = "PENDING" /\ row.reserved = 0
    BY <1>1 DEF NewOrder
  <1>4. orders'[o] = row
    BY <1>2 DEF TypeOK
  <1>5. OrderOK(o)'
    BY <1>3, <1>4 DEF OrderOK, DealStatuses
  <1>6. /\ ~Committed(o)
        /\ \A v \in Workers \ {w} :
             (req[v] # Idle /\ req[v].op = "sell") => req[v].order # o
    BY <1>2 DEF Fresh
  <1> QED
    BY <1>2, <1>3, <1>5, <1>6, ChangeDeal

LEMMA HideDeal ==
  ASSUME TypeOK, DealInv, NEW w \in Workers, NEW o \in Orders, HideOrder(w, o)
  PROVE  DealInv'
  <1>1. PICK row : row = [orders[o] EXCEPT !.status = "HIDDEN"]
    OBVIOUS
  <1>2. /\ orders' = [orders EXCEPT ![o] = row] /\ ledger' = ledger
        /\ req' = req /\ req[w] = Idle /\ Committed(o)
    BY <1>1 DEF HideOrder, accountVars
  <1>3. orders'[o] = row /\ orders[o] \in Order /\ OrderOK(o)
    BY <1>2 DEF TypeOK, DealInv
  <1>4. "HIDDEN" \in Statuses \ {"RESERVED", "PENDING"} /\ "HIDDEN" \notin DealStatuses
    BY DEF Statuses, DealStatuses
  <1>5. OnlyStatus(row, o, "HIDDEN")
    BY <1>1, <1>3, <1>4, StatusRow
  <1>6. OrderOK(o)' /\ (Funded(o) => Funded(o)')
    BY <1>2, <1>3, <1>4, <1>5, StatusDeal
  <1>7. /\ row.type = orders[o].type /\ row.seller = orders[o].seller
        /\ row.amount = orders[o].amount /\ row.status # "ABSENT"
    BY <1>5 DEF OnlyStatus
  <1>8. \A v \in Workers \ {w} :
          (req[v] # Idle /\ req[v].op = "sell") => req[v].order # o
    BY <1>2 DEF DealInv, HandlerOK, SellOK
  <1> QED
    BY <1>2, <1>6, <1>7, <1>8, ChangeDeal

-----------------------------------------------------------------------------
(* DealInv is an invariant.                                                *)

LEMMA DealInit == Init => DealInv
  BY DEF Init, DealInv, OrderOK, HandlerOK, NoOrder, Committed, DealStatuses

LEMMA DealStep == TypeOK /\ OrdersKnown /\ DealInv /\ [Next]_vars => DealInv'
  <1> SUFFICES ASSUME TypeOK, OrdersKnown, DealInv, [Next]_vars PROVE DealInv'
    OBVIOUS
  <1>1. CASE \E w \in Workers, o \in Orders, u \in Users :
               \/ \E a \in Amounts, r \in Rates : BeginSell(w, o, u, a, r)
               \/ \E a \in Amounts : BeginAccept(w, o, u, a)
               \/ BeginPayment(w, o, u) \/ BeginReceipt(w, o, u)
               \/ BeginCancel(w, o, u) \/ BeginDispute(w, o, u)
               \/ BeginResolve(w, o, u)
    BY <1>1, BeginStep
  <1>2. CASE \E w \in Workers, o \in Orders, u \in Users, a \in Amounts, r \in Rates :
               CreateBuy(w, o, u, a, r)
    BY <1>2, CreateBuyDeal
  <1>3. CASE \E w \in Workers, o \in Orders : HideOrder(w, o)
    BY <1>3, HideDeal
  <1>4. CASE \E w \in Workers : Handle(w) \/ Abort(w)
    BY <1>4, InnerStep, FinishSellDeal, FinishAcceptDeal, FinishDeal DEF Handle
  <1>5. CASE UNCHANGED vars
    <2>1. req' = req /\ orders' = orders /\ ledger' = ledger
      BY <1>5 DEF vars
    <2>2. \A o \in Orders : OrderOK(o)'
      BY <2>1, RowsKept, OrderKept DEF DealInv
    <2>3. Stable
      BY <2>1, RowsKept, StableSame
    <2>4. ASSUME NEW v \in Workers
          PROVE  HandlerOK(v)'
      <3>1. (req[v] # Idle /\ req[v].op = "sell") =>
              /\ ~Committed(req[v].order)'
              /\ \A x \in Workers \ {v} :
                   req'[x] # Idle => req'[x].order # req[v].order
        BY <2>1 DEF DealInv, HandlerOK, SellOK, Committed
      <3> QED
        BY <2>1, <2>3, <3>1, HandlerKept DEF DealInv
    <2> QED
      BY <2>2, <2>4 DEF DealInv
  <1> QED
    BY <1>1, <1>2, <1>3, <1>4, <1>5 DEF Next

\* With the foreign key, T2 never inserts a ledger row: every order it could
\* insert one for is either not committed or a SELL order, which DealInv says
\* has a row already.
LEMMA NoRowStep ==
  ASSUME TypeOK, DealInv, ForeignKeys, ledger = <<>>, [Next]_vars
  PROVE  ledger' = <<>>
  <1>1. ASSUME NEW o \in Orders, Committed(o)
        PROVE  orders[o].type # "SELL"
    BY <1>1 DEF DealInv, OrderOK, Reserve, HasRow
  <1>2. ASSUME NEW w \in Workers, FundsMove(w)
        PROVE  FALSE
    <2>1. req[w] # Idle /\ req[w] \in Request /\ req[w].phase = "read"
      BY <1>2, PhaseType DEF FundsMove
    <2>2. HandlerOK(w) /\ Committed(req[w].order) /\ req[w].order \in Orders
      BY <1>2, <2>1 DEF FundsMove, LedgerRowAllowed, DealInv, Request
    <2>3. orders[req[w].order].type # "SELL" /\ orders[req[w].order] \in Order
      BY <1>1, <2>2 DEF TypeOK
    <2>4. req[w].op \in {"cancel", "resolve"}
      BY <2>1, <2>2, <2>3
         DEF HandlerOK, SellOK, AcceptOK, Funded, Request, MovingOps, PlainOps
    <2>6. CallsT2(req[w]) /\ req[w].op = "cancel"
      BY <2>1, <2>2, <2>3, <2>4 DEF HandlerOK, Funded
    <2>5. orders[req[w].order].type = "BUY"
      BY <2>3 DEF Order, Types
    <2> QED
      BY <2>1, <2>2, <2>4, <2>5, <2>6 DEF HandlerOK, ReturnOK, CallsT2
  <1>3. ASSUME NEW w \in Workers, Handle(w) \/ Abort(w)
        PROVE  ledger' = ledger
    BY <1>2, <1>3
       DEF Handle, accountVars, FundsRead, Refuse, Abort, FinishSell, FinishAccept,
           FinishPayment, FinishReceipt, FinishCancel, FinishDispute, FinishResolve
  <1>4. ASSUME NEW w \in Workers, NEW o \in Orders, NEW u \in Users,
               NEW a \in Amounts, NEW r \in Rates,
               BeginSell(w, o, u, a, r) \/ CreateBuy(w, o, u, a, r)
        PROVE  ledger' = ledger
    BY <1>4 DEF BeginSell, Begin, CreateBuy, accountVars
  <1>5. ASSUME NEW w \in Workers, NEW o \in Orders, NEW u \in Users,
               \/ \E a \in Amounts : BeginAccept(w, o, u, a)
               \/ BeginPayment(w, o, u) \/ BeginReceipt(w, o, u)
               \/ BeginCancel(w, o, u) \/ BeginDispute(w, o, u)
               \/ BeginResolve(w, o, u)
        PROVE  ledger' = ledger
    BY <1>5 DEF BeginAccept, BeginPayment, BeginReceipt, BeginCancel,
                BeginDispute, BeginResolve, Begin, accountVars
  <1>6. ASSUME NEW w \in Workers, NEW o \in Orders, HideOrder(w, o)
        PROVE  ledger' = ledger
    BY <1>6 DEF HideOrder, accountVars
  <1>7. UNCHANGED vars => ledger' = ledger
    BY DEF vars
  <1> QED
    BY <1>3, <1>4, <1>5, <1>6, <1>7 DEF Next

LEMMA DealImplies ==
  ASSUME TypeOK, DealInv
  PROVE  DealFunded /\ PaidBeforeFinal /\ BuyOrdersNeverTrade
  <1>1. DealFunded
    BY DEF DealInv, OrderOK, Funded, Reserve, DealFunded
  <1>2. PaidBeforeFinal
    <2>1. ASSUME NEW o \in Orders, Released(o)
          PROVE  \E u \in Users, i \in DOMAIN ledger :
                   /\ ledger[i].order = o /\ ledger[i].user = u
                   /\ ledger[i].type = "RELEASE" /\ ledger[i].role = "owner"
      BY <2>1 DEF Released, HasRow
    <2>2. ASSUME NEW o \in Orders,
                 \A i \in DOMAIN ledger :
                   (ledger[i].order = o /\ ledger[i].type = "RESERVE") =>
                     ledger[i].amount > 0
          PROVE  Positive(o)
      BY <2>2 DEF Positive, Reserve, HasRow
    <2>3. ASSUME NEW o \in Orders
          PROVE  OrderOK(o)
      BY DEF DealInv
    <2> QED
      BY <2>1, <2>2, <2>3 DEF OrderOK, Taken, PaidBeforeFinal
  <1>3. BuyOrdersNeverTrade
    BY DEF DealInv, OrderOK, BuyOrdersNeverTrade
  <1> QED
    BY <1>1, <1>2, <1>3

LEMMA DealAlways == Spec => [](TypeOK /\ OrdersKnown /\ DealInv)
  <1>1. Init => TypeOK /\ OrdersKnown /\ DealInv
    BY TypeInit, OrdersKnownInit, DealInit
  <1>2. TypeOK /\ OrdersKnown /\ DealInv /\ [Next]_vars =>
          (TypeOK /\ OrdersKnown /\ DealInv)'
    BY TypeStep, OrdersKnownStep, DealStep
  <1> QED
    BY <1>1, <1>2, PTL DEF Spec

\* DealFunded: however handlers interleave, are refused or lost, a deal under
\* way is a SELL order whose seller's share and whose named buyer's share the
\* ledger shows reserved (acceptOrder's commit overwrites the buyer and adds to
\* the reserve it READ).
THEOREM DealsAreFunded == Spec => []DealFunded
  <1>1. TypeOK /\ DealInv => DealFunded
    BY DealImplies
  <1> QED
    BY <1>1, DealAlways, PTL

\* PaidBeforeFinal: T2 commits before T1 does, so a final status is never
\* visible before the ledger row of the money it promises, at any crash point.
THEOREM PaidBeforeFinalStatus == Spec => []PaidBeforeFinal
  <1>1. TypeOK /\ DealInv => PaidBeforeFinal
    BY DealImplies
  <1> QED
    BY <1>1, DealAlways, PTL

\* BuyOrdersNeverTrade: acceptOrder refuses a BUY order and createOrder
\* reserves nothing for one, so no handler ever moves money for it.
THEOREM BuyOrdersStayIdle == Spec => []BuyOrdersNeverTrade
  <1>1. TypeOK /\ DealInv => BuyOrdersNeverTrade
    BY DealImplies
  <1> QED
    BY <1>1, DealAlways, PTL

\* ForeignKeyStopsTrading: createOrder calls reserveFunds before T1 commits its
\* order row, so with the foreign key enforced no reserve ever succeeds, the
\* ledger stays empty and no deal starts.
THEOREM ForeignKeyStopsAllTrading == Spec => []ForeignKeyStopsTrading
  <1> DEFINE NoRow == ForeignKeys => ledger = <<>>
  <1>1. Init => NoRow
    BY DEF Init, AccountsInit
  <1>2. TypeOK /\ DealInv /\ NoRow /\ [Next]_vars => NoRow'
    BY NoRowStep
  <1>3. TypeOK /\ DealInv /\ NoRow => ForeignKeyStopsTrading
    <2> SUFFICES ASSUME TypeOK, DealInv, ForeignKeys, ledger = <<>>,
                        NEW o \in Orders
                 PROVE  orders[o].status \in {"ABSENT", "PENDING", "CANCELLED", "HIDDEN"}
      BY DEF ForeignKeyStopsTrading
    <2>1. Committed(o) => orders[o].type # "SELL"
      BY DEF DealInv, OrderOK, Reserve, HasRow
    <2>2. orders[o].type \in Types
      BY DEF TypeOK, Order
    <2> QED
      BY <2>1, <2>2 DEF DealInv, OrderOK, Types, Committed
  <1> HIDE DEF NoRow
  <1> QED
    BY <1>1, <1>2, <1>3, DealAlways, PTL DEF Spec

-----------------------------------------------------------------------------
(* The ledger and the balances.                                            *)

\* T2's row, and what it says and does to the balance.
MovedRow(w, e, d) ==
  /\ ledger' = Append(ledger, e)
  /\ e.order = req[w].order /\ e.user = req[w].account
  /\ e.amount = req[w].amount
  /\ e.before = req[w].before /\ e.after = e.before + d
  /\ balance' = [balance EXCEPT ![req[w].account] = @ + d]
  /\ e.role = "seller" <=> req[w].op = "receipt"

LEMMA MoveRow ==
  ASSUME TypeOK, DealInv, NEW w \in Workers, FundsMove(w)
  PROVE  \E e \in LedgerRow, d \in Int : MovedRow(w, e, d)
  <1> DEFINE q == req[w]
  <1>1. /\ q # Idle /\ q.order \in Orders /\ q.account \in Users
        /\ q.amount \in Int /\ q.before \in Int
        /\ balance \in [Users -> Int] /\ q.phase = "read"
    BY PhaseType DEF FundsMove, Request, TypeOK, AccountsTypeOK
  <1>2. q.op \in MovingOps
    BY <1>1 DEF DealInv, HandlerOK, CallsT2
  <1> DEFINE row(type, role, after) ==
        Entry(q.order, q.account, type, role, q.amount, q.before, after)
  <1>3. ASSUME NEW type \in {"RESERVE", "RELEASE"}, NEW role \in {"owner", "seller"},
               NEW after \in Int
        PROVE  /\ row(type, role, after) \in LedgerRow
               /\ row(type, role, after).order = q.order
               /\ row(type, role, after).user = q.account
               /\ row(type, role, after).amount = q.amount
               /\ row(type, role, after).before = q.before
               /\ row(type, role, after).after = after
               /\ row(type, role, after).role = role
    BY <1>1 DEF Entry, LedgerRow
  <1>4. CASE q.op \in {"sell", "accept"}
    <2>1. /\ ledger' = Append(ledger, row("RESERVE", "owner", q.before - q.amount))
          /\ balance' = [balance EXCEPT ![q.account] = @ - q.amount]
      BY <1>4 DEF FundsMove, ReserveFunds
    <2>2. /\ q.before - q.amount \in Int /\ -q.amount \in Int
          /\ q.before - q.amount = q.before + (-q.amount)
          /\ balance[q.account] - q.amount = balance[q.account] + (-q.amount)
      <3>1. balance[q.account] \in Int
        BY <1>1
      <3> QED
        BY <1>1, <3>1
    <2>3. balance' = [balance EXCEPT ![q.account] = @ + (-q.amount)]
      BY <2>1, <2>2
    <2>4. PICK after \in Int : after = q.before - q.amount
      BY <2>2
    <2>5. after = q.before + (-q.amount)
      BY <2>2, <2>4
    <2> HIDE DEF row
    <2>6. PICK e \in LedgerRow :
            /\ e = row("RESERVE", "owner", after)
            /\ e.order = q.order /\ e.user = q.account /\ e.amount = q.amount
            /\ e.before = q.before /\ e.after = after /\ e.role = "owner"
      BY <1>3
    <2>7. PICK d \in Int : d = -q.amount
      BY <2>2
    <2>8. ledger' = Append(ledger, e)
      BY <2>1, <2>4, <2>6
    <2>9. balance' = [balance EXCEPT ![q.account] = @ + d]
      BY <2>3, <2>7
    <2>10. e.after = e.before + d
      BY <2>5, <2>6, <2>7
    <2>11. e.role # "seller" /\ q.op # "receipt"
      BY <1>4, <2>6
    <2> QED
      BY <2>6, <2>8, <2>9, <2>10, <2>11 DEF MovedRow
  <1>5. CASE q.op \in {"cancel", "resolve"}
    <2>1. /\ ledger' = Append(ledger, row("RELEASE", "owner", q.before + q.amount))
          /\ balance' = [balance EXCEPT ![q.account] = @ + q.amount]
      BY <1>5 DEF FundsMove, ReleaseFunds
    <2>2. q.before + q.amount \in Int /\ q.amount \in Int
      BY <1>1
    <2> HIDE DEF row
    <2>3. MovedRow(w, row("RELEASE", "owner", q.before + q.amount), q.amount)
      BY <1>3, <1>5, <2>1, <2>2 DEF MovedRow
    <2> QED
      BY <1>3, <2>2, <2>3
  <1>6. CASE q.op \notin {"sell", "accept", "cancel", "resolve"}
    <2>1. /\ ledger' = Append(ledger, row("RELEASE", "seller", q.before))
          /\ balance' = balance
      BY <1>6 DEF FundsMove, TransferToSeller
    <2>2. /\ q.op = "receipt"
          /\ q.before = q.before + 0
          /\ balance = [balance EXCEPT ![q.account] = @ + 0]
      BY <1>1, <1>2, <1>6 DEF MovingOps
    <2> HIDE DEF row
    <2>3. MovedRow(w, row("RELEASE", "seller", q.before), 0)
      BY <1>1, <1>3, <1>6, <2>1, <2>2 DEF MovedRow
    <2> QED
      BY <1>1, <1>3, <2>3
  <1> QED
    BY <1>4, <1>5, <1>6

\* The positions of the ledger with one more row.
LEMMA LongerLedger ==
  ASSUME ledger \in Seq(LedgerRow), NEW e, ledger' = Append(ledger, e)
  PROVE  LET n == Len(ledger) + 1 IN
         /\ DOMAIN ledger' = DOMAIN ledger \cup {n} /\ n \notin DOMAIN ledger
         /\ ledger'[n] = e /\ \A i \in DOMAIN ledger : ledger'[i] = ledger[i]
         /\ \A i \in DOMAIN ledger : i \in Nat /\ i < n
         /\ n \in Nat
         /\ \A u : RowsOf(u)' = IF e.user = u THEN RowsOf(u) \cup {n} ELSE RowsOf(u)
         /\ ReceiptRows' = IF e.role = "seller" THEN ReceiptRows \cup {n} ELSE ReceiptRows
  <1> DEFINE n == Len(ledger) + 1
  <1>1. /\ DOMAIN ledger' = DOMAIN ledger \cup {n} /\ n \notin DOMAIN ledger
        /\ ledger'[n] = e /\ \A i \in DOMAIN ledger : ledger'[i] = ledger[i]
        /\ \A i \in DOMAIN ledger : i \in Nat /\ i < n
        /\ n \in Nat
    OBVIOUS
  <1> HIDE DEF n
  <1>2. \A u : RowsOf(u)' = IF e.user = u THEN RowsOf(u) \cup {n} ELSE RowsOf(u)
    BY <1>1 DEF RowsOf
  <1>3. ReceiptRows' = IF e.role = "seller" THEN ReceiptRows \cup {n} ELSE ReceiptRows
    BY <1>1 DEF ReceiptRows
  <1> QED
    BY <1>1, <1>2, <1>3 DEF n

LEMMA FiniteRows ==
  ASSUME ledger \in Seq(LedgerRow)
  PROVE  /\ \A u : IsFiniteSet(RowsOf(u)) /\ RowsOf(u) \subseteq DOMAIN ledger
         /\ IsFiniteSet(ReceiptRows) /\ ReceiptRows \subseteq DOMAIN ledger
         /\ \A i \in DOMAIN ledger : ledger[i] \in LedgerRow
  <1>1. IsFiniteSet(DOMAIN ledger)
    <2>1. DOMAIN ledger = 1..Len(ledger) /\ Len(ledger) \in Nat
      OBVIOUS
    <2> QED
      BY <2>1, FS_Interval
  <1>2. \A u : RowsOf(u) \subseteq DOMAIN ledger
    BY DEF RowsOf
  <1>3. ReceiptRows \subseteq DOMAIN ledger
    BY DEF ReceiptRows
  <1>4. \A i \in DOMAIN ledger : ledger[i] \in LedgerRow
    OBVIOUS
  <1> QED
    BY <1>1, <1>2, <1>3, <1>4, FS_Subset

\* The sum of a function that is given by its values.
LEMMA SumOver ==
  ASSUME NEW f, NEW S, DOMAIN f = S
  PROVE  SumFunction(f) = SumFunctionOnSet(f, S)
  BY DEF SumFunction

LEMMA BalanceMove ==
  ASSUME TypeOK, DealInv, BalanceMatchesLedger, NEW w \in Workers, FundsMove(w)
  PROVE  BalanceMatchesLedger'
  <1>1. ledger \in Seq(LedgerRow) /\ balance \in [Users -> Int]
    BY DEF TypeOK, AccountsTypeOK
  <1>2. PICK e \in LedgerRow, d \in Int : MovedRow(w, e, d)
    BY MoveRow
  <1>3. e.before \in Int /\ e.after - e.before = d
    BY <1>2 DEF MovedRow, LedgerRow
  <1> DEFINE n == Len(ledger) + 1
             change(u) == [i \in RowsOf(u) |-> ledger[i].after - ledger[i].before]
  <1>4. \A i \in DOMAIN ledger : ledger[i].after - ledger[i].before \in Int
    BY <1>1, FiniteRows DEF LedgerRow
  <1>5. ASSUME NEW u \in Users
        PROVE  balance'[u] = InitBalance[u] + SumFunction(change(u)')
    <2>1. /\ n \notin RowsOf(u) /\ IsFiniteSet(RowsOf(u))
          /\ \A i \in RowsOf(u) : ledger'[i] = ledger[i]
      BY <1>1, <1>2, LongerLedger, FiniteRows DEF MovedRow
    <2>2. /\ DOMAIN change(u) = RowsOf(u)
          /\ \A i \in RowsOf(u) : change(u)[i] = ledger[i].after - ledger[i].before
      OBVIOUS
    <2>3. /\ DOMAIN (change(u)') = RowsOf(u)'
          /\ \A i \in RowsOf(u)' : change(u)'[i] = ledger'[i].after - ledger'[i].before
      OBVIOUS
    <2>4. balance[u] = InitBalance[u] + SumFunctionOnSet(change(u), RowsOf(u))
      BY <2>2, SumOver DEF BalanceMatchesLedger
    <2>5. \A i \in RowsOf(u) : change(u)[i] \in Int
      BY <1>4, <2>2, <1>1, FiniteRows
    <2> HIDE DEF change, n
    <2>6. SumFunctionOnSet(change(u), RowsOf(u)) \in Int
      BY <2>1, <2>5, SumType
    <2>7. InitBalance[u] \in Nat
      BY BalanceAssumption
    <2>8. CASE e.user = u
      <3>1. /\ RowsOf(u)' = RowsOf(u) \cup {n} /\ ledger'[n] = e
        BY <1>1, <1>2, <2>8, LongerLedger DEF MovedRow, n
      <3>2. \A i \in RowsOf(u) : change(u)'[i] = change(u)[i]
        BY <2>1, <2>2, <2>3, <3>1
      <3>3. change(u)'[n] = d
        BY <1>3, <2>3, <3>1
      <3>4. SumFunctionOnSet(change(u)', RowsOf(u)) = SumFunctionOnSet(change(u), RowsOf(u))
        BY <2>1, <3>2, SumSame
      <3>5. SumFunctionOnSet(change(u)', RowsOf(u) \cup {n})
              = SumFunctionOnSet(change(u)', RowsOf(u)) + d
        BY <2>1, <2>5, <3>2, <3>3, SumAdd
      <3>6. balance'[u] = balance[u] + d
        BY <1>1, <1>2, <2>8 DEF MovedRow
      <3> QED
        BY <2>3, <2>4, <2>6, <2>7, <3>1, <3>4, <3>5, <3>6, SumOver
    <2>9. CASE e.user # u
      <3>1. RowsOf(u)' = RowsOf(u)
        BY <1>1, <1>2, <2>9, LongerLedger DEF MovedRow
      <3>2. \A i \in RowsOf(u) : change(u)'[i] = change(u)[i]
        BY <2>1, <2>2, <2>3, <3>1
      <3>3. SumFunctionOnSet(change(u)', RowsOf(u)) = SumFunctionOnSet(change(u), RowsOf(u))
        BY <2>1, <3>2, SumSame
      <3>4. balance'[u] = balance[u]
        BY <1>1, <1>2, <2>9 DEF MovedRow
      <3> QED
        BY <2>3, <2>4, <3>1, <3>3, <3>4, SumOver
    <2> QED
      BY <2>8, <2>9
  <1> QED
    BY <1>5 DEF BalanceMatchesLedger

LEMMA EmptyBooks ==
  ASSUME ledger = <<>>
  PROVE  /\ \A u : RowsOf(u) = {}
         /\ ReceiptRows = {}
  BY DEF RowsOf, ReceiptRows

\* The only steps that touch a balance or the ledger are T2's.
LEMMA LedgerSteps ==
  ASSUME [Next]_vars
  PROVE  (\E w \in Workers : FundsMove(w)) \/ UNCHANGED <<balance, ledger>>
  <1> SUFFICES ASSUME ~ \E w \in Workers : FundsMove(w)
               PROVE  UNCHANGED <<balance, ledger>>
    OBVIOUS
  <1>1. ASSUME NEW w \in Workers, Handle(w) \/ Abort(w)
        PROVE  UNCHANGED <<balance, ledger>>
    BY <1>1 DEF Handle, FundsRead, Refuse, Abort, FinishSell, FinishAccept, FinishPayment,
                FinishReceipt, FinishCancel, FinishDispute, FinishResolve, accountVars
  <1>2. ASSUME NEW w \in Workers, NEW o \in Orders, HideOrder(w, o)
        PROVE  UNCHANGED <<balance, ledger>>
    BY <1>2 DEF HideOrder, accountVars
  <1>3. ASSUME NEW w \in Workers, NEW o \in Orders, NEW u \in Users,
               \/ \E a \in Amounts, r \in Rates :
                    BeginSell(w, o, u, a, r) \/ CreateBuy(w, o, u, a, r)
               \/ \E a \in Amounts : BeginAccept(w, o, u, a)
               \/ BeginPayment(w, o, u) \/ BeginReceipt(w, o, u)
               \/ BeginCancel(w, o, u) \/ BeginDispute(w, o, u) \/ BeginResolve(w, o, u)
        PROVE  UNCHANGED <<balance, ledger>>
    BY <1>3 DEF BeginSell, CreateBuy, BeginAccept, BeginPayment, BeginReceipt,
                BeginCancel, BeginDispute, BeginResolve, Begin, accountVars
  <1>4. CASE UNCHANGED vars
    BY <1>4 DEF vars
  <1> QED
    BY <1>1, <1>2, <1>3, <1>4 DEF Next

\* BalanceMatchesLedger: reserveFunds and releaseFunds read the balance, and
\* another T2 may commit before they write, so that the columns of their rows
\* are stale; the update and the difference of the columns are both relative,
\* so balance and ledger never part.
THEOREM LedgerExplainsBalances == Spec => []BalanceMatchesLedger
  <1>1. Init => BalanceMatchesLedger
    <2> SUFFICES ASSUME Init, NEW u \in Users
                 PROVE  balance[u] = InitBalance[u]
                          + SumFunction([i \in RowsOf(u) |-> ledger[i].after - ledger[i].before])
      BY DEF BalanceMatchesLedger
    <2>1. RowsOf(u) = {} /\ balance[u] = InitBalance[u]
      BY EmptyBooks DEF Init, AccountsInit
    <2>2. SumFunction([i \in RowsOf(u) |-> ledger[i].after - ledger[i].before]) = 0
      BY <2>1, SumOver, SumEmpty
    <2>3. InitBalance[u] \in Nat
      BY BalanceAssumption
    <2> QED
      BY <2>1, <2>2, <2>3
  <1>2. TypeOK /\ DealInv /\ BalanceMatchesLedger /\ [Next]_vars => BalanceMatchesLedger'
    <2> SUFFICES ASSUME TypeOK, DealInv, BalanceMatchesLedger, [Next]_vars
                 PROVE  BalanceMatchesLedger'
      OBVIOUS
    <2>1. CASE \E w \in Workers : FundsMove(w)
      BY <2>1, BalanceMove
    <2>2. CASE UNCHANGED <<balance, ledger>>
      BY <2>2 DEF BalanceMatchesLedger, RowsOf
    <2> QED
      BY <2>1, <2>2, LedgerSteps
  <1> QED
    BY <1>1, <1>2, DealAlways, PTL DEF Spec

-----------------------------------------------------------------------------
(* What a step does to what a user owns.                                   *)

\* What a user's free and blocked balances lose in a step.
Gone(u) == (balance[u] + blocked[u]) - (balance[u] + blocked[u])'

\* The receipt of worker w takes from u: its T2 the order's amount from the
\* seller, or its T1 the price from the caller.
Takes(w, u) ==
  LET row == orders[req[w].order] IN
  /\ req[w] # Idle /\ req[w].op = "receipt"
  /\ \/ /\ req[w].phase = "read" /\ req'[w].phase = "moved"
        /\ u = row.seller /\ Gone(u) = row.amount
     \/ /\ req[w].phase = "moved" /\ req'[w] = Idle
        /\ u = req[w].user /\ Gone(u) = row.amount * row.rate

LEMMA NothingGone ==
  ASSUME TypeOK, NEW u \in Users, balance'[u] = balance[u], blocked'[u] = blocked[u]
  PROVE  Gone(u) = 0
  <1>1. balance[u] \in Int /\ blocked[u] \in Int
    BY DEF TypeOK, AccountsTypeOK
  <1> QED
    BY <1>1 DEF Gone

\* T2 exchanges free for blocked money or back, or takes the share of a receipt.
LEMMA MoveMoney ==
  ASSUME TypeOK, DealInv, NEW w \in Workers, FundsMove(w), NEW u \in Users
  PROVE  Gone(u) = 0 \/ Takes(w, u)
  <1> DEFINE q == req[w]
  <1>1. /\ q # Idle /\ q \in Request /\ q.phase = "read"
        /\ req'[w].phase = "moved"
    <2>1. req[w] # Idle /\ req[w] \in Request /\ req[w].phase = "read"
      BY PhaseType DEF FundsMove
    <2>2. req' = [req EXCEPT ![w].phase = "moved"]
      BY DEF FundsMove
    <2>3. req'[w].phase = "moved"
      BY <2>1, <2>2 DEF TypeOK, Request
    <2> QED
      BY <2>1, <2>3
  <1>2. q.amount \in Int /\ q.account \in Users
    BY <1>1 DEF Request
  <1>3. /\ balance \in [Users -> Int] /\ blocked \in [Users -> Int]
        /\ balance[u] \in Int /\ blocked[u] \in Int
    BY DEF TypeOK, AccountsTypeOK
  <1>4. CASE q.op \in {"sell", "accept"}
    <2>1. /\ balance' = [balance EXCEPT ![q.account] = @ - q.amount]
          /\ blocked' = [blocked EXCEPT ![q.account] = @ + q.amount]
      BY <1>4 DEF FundsMove, ReserveFunds
    <2> QED
      BY <1>2, <1>3, <2>1 DEF Gone
  <1>5. CASE q.op \in {"cancel", "resolve"}
    <2>1. /\ balance' = [balance EXCEPT ![q.account] = @ + q.amount]
          /\ blocked' = [blocked EXCEPT ![q.account] = @ - q.amount]
      BY <1>5 DEF FundsMove, ReleaseFunds
    <2> QED
      BY <1>2, <1>3, <2>1 DEF Gone
  <1>6. CASE q.op \notin {"sell", "accept", "cancel", "resolve"}
    <2>1. /\ balance' = balance
          /\ blocked' = [blocked EXCEPT ![q.account] = @ - q.amount]
      BY <1>6 DEF FundsMove, TransferToSeller
    <2>2. q.op = "receipt"
      BY <1>1, <1>6 DEF DealInv, HandlerOK, CallsT2, MovingOps
    <2>5. /\ q.account = orders[q.order].seller
          /\ q.amount = orders[q.order].amount
      BY <1>1, <2>2 DEF DealInv, HandlerOK, ReceiptOK
    <2>3. CASE u = q.account
      <3>1. Gone(u) = q.amount
        BY <1>2, <1>3, <2>1, <2>3 DEF Gone
      <3> QED
        BY <1>1, <2>2, <2>3, <2>5, <3>1 DEF Takes
    <2>4. CASE u # q.account
      BY <1>3, <2>1, <2>4 DEF Gone
    <2> QED
      BY <2>3, <2>4
  <1> QED
    BY <1>4, <1>5, <1>6

-----------------------------------------------------------------------------
(* The shares of receipts.                                                 *)

\* What a receipt between its two transactions has yet to take.
Due(w) ==
  IF req[w] # Idle /\ req[w].op = "receipt" /\ req[w].phase = "moved"
  THEN req[w].row.amount * req[w].row.rate ELSE 0

Own == [u \in Users |-> balance[u] + blocked[u]]
Share(i) == ledger[i].amount * (1 + orders[ledger[i].order].rate)
Shares == [i \in ReceiptRows |-> Share(i)]
Dues == [w \in Workers |-> Due(w)]

\* The row a handler has read still has the order's amount and rate.
RowsAgree ==
  \A w \in Workers : (req[w] # Idle /\ req[w].op # "sell") =>
    /\ req[w].row.amount = orders[req[w].order].amount
    /\ req[w].row.rate = orders[req[w].order].rate

ReceiptsKnown ==
  \A i \in ReceiptRows : ledger[i].order \in Orders /\ Committed(ledger[i].order)

Books ==
  SumFunction(Own) = SumFunction(InitBalance) - SumFunction(Shares) + SumFunction(Dues)

\* A handler lost between its transactions leaves its due for good.
AuditInv == RowsAgree /\ ReceiptsKnown /\ (faults = 0 => Books)

OrdersStay ==
  \A o \in Orders : Committed(o) =>
    /\ Committed(o)'
    /\ orders'[o].amount = orders[o].amount
    /\ orders'[o].rate = orders[o].rate

LEMMA DueType ==
  ASSUME TypeOK, NEW w \in Workers
  PROVE  Due(w) \in Int
  <1>1. CASE req[w] = Idle
    BY <1>1 DEF Due
  <1>2. CASE req[w] # Idle
    <2>1. req[w].row.amount \in Int /\ req[w].row.rate \in Int
      BY <1>2, BusyType DEF Request, Order
    <2> QED
      BY <2>1, ProductType DEF Due
  <1> QED
    BY <1>1, <1>2

LEMMA ShareType ==
  ASSUME TypeOK, ReceiptsKnown, NEW i \in ReceiptRows
  PROVE  Share(i) \in Int
  <1>1. ledger[i] \in LedgerRow
    BY FiniteRows DEF TypeOK, AccountsTypeOK
  <1>2. ledger[i].amount \in Int /\ orders[ledger[i].order].rate \in Int
    BY <1>1 DEF LedgerRow, TypeOK, Order
  <1>3. 1 + orders[ledger[i].order].rate \in Int
    BY <1>2
  <1> QED
    BY <1>2, <1>3, ProductType DEF Share

LEMMA AuditTypes ==
  ASSUME TypeOK, ReceiptsKnown
  PROVE  /\ SumFunction(Own) = SumFunctionOnSet(Own, Users)
         /\ SumFunction(Own) \in Int /\ \A u \in Users : Own[u] \in Int
         /\ SumFunction(Shares) = SumFunctionOnSet(Shares, ReceiptRows)
         /\ SumFunction(Shares) \in Int /\ \A i \in ReceiptRows : Shares[i] \in Int
         /\ SumFunction(Dues) = SumFunctionOnSet(Dues, Workers)
         /\ SumFunction(Dues) \in Int /\ \A w \in Workers : Dues[w] \in Int
         /\ SumFunction(InitBalance) \in Int
  <1>1. SumFunction(Own) = SumFunctionOnSet(Own, Users) /\ \A u \in Users : Own[u] \in Int
    <2>1. DOMAIN Own = Users /\ \A u \in Users : Own[u] \in Int
      BY DEF Own, TypeOK, AccountsTypeOK
    <2> QED
      BY <2>1, SumOver
  <1>2. /\ SumFunction(Shares) = SumFunctionOnSet(Shares, ReceiptRows)
        /\ \A i \in ReceiptRows : Shares[i] \in Int
    <2>1. DOMAIN Shares = ReceiptRows /\ \A i \in ReceiptRows : Shares[i] \in Int
      BY ShareType DEF Shares
    <2> QED
      BY <2>1, SumOver
  <1>3. /\ SumFunction(Dues) = SumFunctionOnSet(Dues, Workers)
        /\ \A w \in Workers : Dues[w] \in Int
    <2>1. DOMAIN Dues = Workers /\ \A w \in Workers : Dues[w] \in Int
      BY DueType DEF Dues
    <2> QED
      BY <2>1, SumOver
  <1>4. /\ SumFunction(InitBalance) = SumFunctionOnSet(InitBalance, Users)
        /\ \A u \in Users : InitBalance[u] \in Int
    <2>1. DOMAIN InitBalance = Users /\ \A u \in Users : InitBalance[u] \in Int
      BY BalanceAssumption
    <2> QED
      BY <2>1, SumOver
  <1>5. IsFiniteSet(ReceiptRows)
    BY FiniteRows DEF TypeOK, AccountsTypeOK
  <1> QED
    BY <1>1, <1>2, <1>3, <1>4, <1>5, SumType, UsersAssumption, WorkersAssumption

\* What one user loses or wins.
LEMMA OwnChange ==
  ASSUME TypeOK, TypeOK', ReceiptsKnown, ReceiptsKnown', NEW u \in Users, NEW d \in Int,
         balance'[u] + blocked'[u] = balance[u] + blocked[u] + d,
         \A v \in Users \ {u} : balance'[v] = balance[v] /\ blocked'[v] = blocked[v]
  PROVE  SumFunction(Own)' = SumFunction(Own) + d
  <1>1. Own'[u] = Own[u] + d /\ \A v \in Users \ {u} : Own'[v] = Own[v]
    BY DEF Own
  <1>2. SumFunctionOnSet(Own', Users) = SumFunctionOnSet(Own, Users) + d
    BY <1>1, AuditTypes, SumChange, UsersAssumption
  <1>3. SumFunction(Own)' = SumFunctionOnSet(Own', Users)
    <2>1. DOMAIN (Own') = Users
      BY DEF Own
    <2> QED
      BY <2>1, SumOver
  <1> QED
    BY <1>2, <1>3, AuditTypes

LEMMA OwnSame ==
  ASSUME TypeOK, ReceiptsKnown,
         \A u \in Users : balance'[u] + blocked'[u] = balance[u] + blocked[u]
  PROVE  SumFunction(Own)' = SumFunction(Own)
  <1>1. Own' = Own
    BY DEF Own
  <1> QED
    BY <1>1

\* Orders stay, so that the shares of the receipts there are do.
LEMMA SharesStay ==
  ASSUME TypeOK, ReceiptsKnown, OrdersStay,
         NEW i \in ReceiptRows, ledger'[i] = ledger[i]
  PROVE  Share(i)' = Share(i)
  BY DEF ReceiptsKnown, OrdersStay, Share

LEMMA SharesSame ==
  ASSUME TypeOK, ReceiptsKnown, OrdersStay, ledger' = ledger
  PROVE  ReceiptsKnown' /\ SumFunction(Shares)' = SumFunction(Shares)
  <1>1. ReceiptRows' = ReceiptRows
    BY DEF ReceiptRows
  <1>2. \A i \in ReceiptRows : Share(i)' = Share(i)
    BY SharesStay
  <1>3. Shares' = Shares
    BY <1>1, <1>2 DEF Shares
  <1>4. ReceiptsKnown'
    BY <1>1 DEF ReceiptsKnown, OrdersStay
  <1> QED
    BY <1>3, <1>4

\* One more row, of a receipt or not.
LEMMA SharesGrow ==
  ASSUME TypeOK, TypeOK', ReceiptsKnown, OrdersStay, NEW e \in LedgerRow,
         ledger' = Append(ledger, e),
         e.role = "seller" => Committed(e.order)'
  PROVE  /\ ReceiptsKnown'
         /\ SumFunction(Shares)' = SumFunction(Shares)
              + (IF e.role = "seller" THEN e.amount * (1 + orders'[e.order].rate) ELSE 0)
  <1> DEFINE n == Len(ledger) + 1
  <1>1. /\ n \notin ReceiptRows /\ IsFiniteSet(ReceiptRows)
        /\ \A i \in ReceiptRows : ledger'[i] = ledger[i]
        /\ ledger'[n] = e
        /\ ReceiptRows' = IF e.role = "seller" THEN ReceiptRows \cup {n} ELSE ReceiptRows
    <2>1. ledger \in Seq(LedgerRow)
      BY DEF TypeOK, AccountsTypeOK
    <2> QED
      BY <2>1, LongerLedger, FiniteRows
  <1> HIDE DEF n
  <1>2. \A i \in ReceiptRows : Share(i)' = Share(i)
    BY <1>1, SharesStay
  <1>3. ReceiptsKnown'
    <2>1. e.order \in Orders
      BY DEF LedgerRow
    <2> QED
      BY <1>1, <2>1 DEF ReceiptsKnown, OrdersStay
  <1>4. \A i \in ReceiptRows : Shares'[i] = Shares[i]
    BY <1>1, <1>2 DEF Shares
  <1>5. SumFunction(Shares)' = SumFunctionOnSet(Shares', ReceiptRows')
    <2>1. DOMAIN (Shares') = ReceiptRows'
      BY DEF Shares
    <2> QED
      BY <2>1, SumOver
  <1>6. SumFunctionOnSet(Shares', ReceiptRows) = SumFunction(Shares)
    BY <1>1, <1>4, SumSame, AuditTypes
  <1>7. CASE e.role = "seller"
    <2>1. Shares'[n] = e.amount * (1 + orders'[e.order].rate)
      BY <1>1, <1>7 DEF Shares, Share
    <2>2. \A i \in ReceiptRows \cup {n} : Shares'[i] \in Int
      <3>1. e.amount \in Int /\ e.order \in Orders
        BY DEF LedgerRow
      <3>2. orders'[e.order].rate \in Int
        BY <3>1 DEF TypeOK, Order
      <3>3. e.amount * (1 + orders'[e.order].rate) \in Int
        <4>1. 1 + orders'[e.order].rate \in Int
          BY <3>2
        <4> QED
          BY <3>1, <4>1, ProductType
      <3> QED
        BY <1>4, <2>1, <3>3, AuditTypes
    <2>3. SumFunctionOnSet(Shares', ReceiptRows \cup {n})
            = SumFunctionOnSet(Shares', ReceiptRows) + Shares'[n]
      BY <1>1, <2>2, SumAdd
    <2> QED
      BY <1>1, <1>3, <1>5, <1>6, <1>7, <2>1, <2>3
  <1>8. CASE e.role # "seller"
    BY <1>1, <1>3, <1>5, <1>6, <1>8, AuditTypes
  <1> QED
    BY <1>7, <1>8

\* One handler's due changes.
LEMMA DuesChange ==
  ASSUME TypeOK, TypeOK', ReceiptsKnown, NEW w \in Workers, NEW d \in Int,
         \A v \in Workers \ {w} : req'[v] = req[v],
         Due(w)' = Due(w) + d
  PROVE  SumFunction(Dues)' = SumFunction(Dues) + d
  <1>1. Dues'[w] = Dues[w] + d /\ \A v \in Workers \ {w} : Dues'[v] = Dues[v]
    BY DEF Dues, Due
  <1>2. SumFunctionOnSet(Dues', Workers) = SumFunctionOnSet(Dues, Workers) + d
    BY <1>1, AuditTypes, SumChange, WorkersAssumption
  <1>3. SumFunction(Dues)' = SumFunctionOnSet(Dues', Workers)
    <2>1. DOMAIN (Dues') = Workers
      BY DEF Dues
    <2> QED
      BY <2>1, SumOver
  <1> QED
    BY <1>2, <1>3, AuditTypes

\* No step changes the amount or the rate of a committed order.
LEMMA ChangeStays ==
  ASSUME TypeOK, NEW o \in Orders, NEW row, orders' = [orders EXCEPT ![o] = row],
         Committed(o) => /\ row.status # "ABSENT"
                         /\ row.amount = orders[o].amount
                         /\ row.rate = orders[o].rate
  PROVE  OrdersStay
  <1>1. orders'[o] = row /\ \A p \in Orders \ {o} : orders'[p] = orders[p]
    BY DEF TypeOK
  <1> QED
    BY <1>1 DEF OrdersStay, Committed

LEMMA OrdersSame ==
  ASSUME orders' = orders
  PROVE  OrdersStay
  BY DEF OrdersStay, Committed

LEMMA StatusStays ==
  ASSUME TypeOK, NEW o \in Orders, NEW status \in Statuses,
         orders' = [orders EXCEPT ![o] = [orders[o] EXCEPT !.status = status]]
  PROVE  OrdersStay
  <1>1. PICK row : row = [orders[o] EXCEPT !.status = status]
    OBVIOUS
  <1>2. /\ row.status # "ABSENT" /\ row.amount = orders[o].amount
        /\ row.rate = orders[o].rate
    BY <1>1 DEF TypeOK, Order, Statuses
  <1> QED
    BY <1>1, <1>2, ChangeStays

LEMMA FinishStays ==
  ASSUME TypeOK, DealInv, NEW w \in Workers,
         \/ FinishSell(w) \/ FinishAccept(w) \/ FinishPayment(w) \/ FinishReceipt(w)
         \/ FinishCancel(w) \/ FinishDispute(w) \/ FinishResolve(w)
  PROVE  OrdersStay
  <1>1. PICK o : o = req[w].order
    OBVIOUS
  <1>2. CASE FinishSell(w)
    <2>1. PICK row : row = Reserved(req[w])
      OBVIOUS
    <2>2. Finish(w, "sell", row)
      BY <1>2, <2>1 DEF FinishSell
    <2>3. o \in Orders /\ orders' = [orders EXCEPT ![o] = row] /\ ~Committed(o)
      BY <1>1, <2>2, FinishFacts DEF HandlerOK, SellOK
    <2> QED
      BY <2>3, ChangeStays
  <1>3. CASE FinishAccept(w)
    <2>1. PICK row : row = Accepted(orders[o], req[w])
      OBVIOUS
    <2>2. Finish(w, "accept", row)
      BY <1>1, <1>3, <2>1 DEF FinishAccept
    <2>3. o \in Orders /\ orders[o] \in Order /\ orders' = [orders EXCEPT ![o] = row]
      BY <1>1, <2>2, FinishFacts
    <2>4. /\ row.status # "ABSENT" /\ row.amount = orders[o].amount
          /\ row.rate = orders[o].rate
      BY <2>1, <2>3 DEF Accepted, Order
    <2> QED
      BY <2>3, <2>4, ChangeStays
  <1>4. ASSUME NEW op, NEW status \in Statuses, Finish(w, op, SetStatus(w, status))
        PROVE  OrdersStay
    <2>1. PICK row : row = [orders[o] EXCEPT !.status = status]
      OBVIOUS
    <2>2. Finish(w, op, row)
      BY <1>1, <1>4, <2>1 DEF SetStatus
    <2>3. o \in Orders /\ orders' = [orders EXCEPT ![o] = row]
      BY <1>1, <2>2, FinishFacts
    <2> QED
      BY <2>1, <2>3, StatusStays
  <1> QED
    BY <1>2, <1>3, <1>4
       DEF FinishPayment, FinishReceipt, FinishCancel, FinishDispute, FinishResolve, Statuses

-----------------------------------------------------------------------------
(* The audit, step by step.                                                *)

\* One worker's step: what it must show of itself.
LEMMA AuditKept ==
  ASSUME TypeOK, TypeOK', OrdersKnown, AuditInv, OrdersStay, NEW w \in Workers,
         \A v \in Workers \ {w} : req'[v] = req[v],
         (req'[w] # Idle /\ req'[w].op # "sell") =>
           /\ req'[w].row.amount = orders'[req'[w].order].amount
           /\ req'[w].row.rate = orders'[req'[w].order].rate,
         ReceiptsKnown',
         faults' = 0 =>
           /\ faults = 0
           /\ \E a \in Int, b \in Int :
                /\ SumFunction(Own)' = SumFunction(Own) + a
                /\ SumFunction(Shares)' = SumFunction(Shares) + b
                /\ Due(w)' = Due(w) + (a + b)
  PROVE  AuditInv'
  <1>1. RowsAgree'
    <2>1. ASSUME NEW v \in Workers \ {w}, req[v] # Idle, req[v].op # "sell"
          PROVE  /\ req[v].row.amount = orders'[req[v].order].amount
                 /\ req[v].row.rate = orders'[req[v].order].rate
      <3>1. Committed(req[v].order) /\ req[v].order \in Orders
        BY <2>1, BusyType DEF OrdersKnown, Request
      <3> QED
        BY <2>1, <3>1 DEF AuditInv, RowsAgree, OrdersStay
    <2> QED
      BY <2>1 DEF RowsAgree
  <1>2. ASSUME faults' = 0
        PROVE  Books'
    <2>1. Books /\ ReceiptsKnown
      BY <1>2 DEF AuditInv
    <2>2. PICK a \in Int, b \in Int :
            /\ SumFunction(Own)' = SumFunction(Own) + a
            /\ SumFunction(Shares)' = SumFunction(Shares) + b
            /\ Due(w)' = Due(w) + (a + b)
      BY <1>2
    <2>3. PICK d \in Int : d = a + b
      OBVIOUS
    <2>4. SumFunction(Dues)' = SumFunction(Dues) + d
      BY <2>1, <2>2, <2>3, DuesChange
    <2> QED
      BY <2>1, <2>2, <2>3, <2>4, AuditTypes DEF Books
  <1> QED
    BY <1>1, <1>2 DEF AuditInv

\* A step that moves no money and leaves the worker's due alone.
LEMMA AuditQuiet ==
  ASSUME TypeOK, TypeOK', OrdersKnown, AuditInv, OrdersStay, NEW w \in Workers,
         \A v \in Workers \ {w} : req'[v] = req[v],
         (req'[w] # Idle /\ req'[w].op # "sell") =>
           /\ req'[w].row.amount = orders'[req'[w].order].amount
           /\ req'[w].row.rate = orders'[req'[w].order].rate,
         Due(w)' = Due(w),
         balance' = balance, blocked' = blocked, ledger' = ledger, faults' = faults
  PROVE  AuditInv'
  <1>1. ReceiptsKnown' /\ SumFunction(Shares)' = SumFunction(Shares)
    BY SharesSame DEF AuditInv
  <1>2. SumFunction(Own)' = SumFunction(Own)
    BY OwnSame DEF AuditInv
  <1>3. /\ SumFunction(Own) \in Int /\ SumFunction(Shares) \in Int
        /\ Due(w) \in Int
    BY AuditTypes, DueType DEF AuditInv
  <1>4. /\ SumFunction(Own)' = SumFunction(Own) + 0
        /\ SumFunction(Shares)' = SumFunction(Shares) + 0
        /\ Due(w)' = Due(w) + (0 + 0)
    BY <1>1, <1>2, <1>3
  <1> QED
    BY <1>1, <1>4, AuditKept

\* T2 takes the seller's share, and the buyer's falls due.
LEMMA AuditMove ==
  ASSUME TypeOK, TypeOK', OrdersKnown, DealInv, AuditInv, NEW w \in Workers, FundsMove(w)
  PROVE  AuditInv'
  <1> DEFINE q == req[w]
  <1>1. /\ q # Idle /\ q \in Request /\ q.phase = "read"
        /\ q.account \in Users /\ q.amount \in Int /\ q.order \in Orders
    BY PhaseType DEF FundsMove, Request
  <1>2. /\ orders' = orders /\ faults' = faults
        /\ \A v \in Workers \ {w} : req'[v] = req[v]
        /\ req'[w] = [q EXCEPT !.phase = "moved"]
    BY DEF FundsMove, TypeOK
  <1>3. /\ req'[w] # Idle /\ req'[w].phase = "moved" /\ req'[w].op = q.op
        /\ req'[w].row = q.row /\ req'[w].order = q.order
    BY <1>1, <1>2 DEF Request, Idle
  <1>4. OrdersStay
    BY <1>2, OrdersSame
  <1>5. (req'[w] # Idle /\ req'[w].op # "sell") =>
           /\ req'[w].row.amount = orders'[req'[w].order].amount
           /\ req'[w].row.rate = orders'[req'[w].order].rate
    BY <1>1, <1>2, <1>3 DEF AuditInv, RowsAgree
  <1>6. PICK e \in LedgerRow, d \in Int : MovedRow(w, e, d)
    BY MoveRow
  <1>7. Due(w) = 0
    BY <1>1 DEF Due
  <1>8. q.op # "sell" => Committed(q.order)
    BY <1>1 DEF OrdersKnown
  <1>9. /\ ReceiptsKnown'
        /\ SumFunction(Shares)' = SumFunction(Shares)
             + (IF e.role = "seller" THEN e.amount * (1 + orders'[e.order].rate) ELSE 0)
    <2>1. e.role = "seller" => Committed(e.order)'
      BY <1>2, <1>6, <1>8 DEF MovedRow, Committed
    <2> QED
      BY <1>4, <1>6, <2>1, SharesGrow DEF MovedRow, AuditInv
  <1>10. /\ balance \in [Users -> Int] /\ blocked \in [Users -> Int]
         /\ SumFunction(Own) \in Int /\ SumFunction(Shares) \in Int
    BY AuditTypes DEF TypeOK, AccountsTypeOK, AuditInv
  <1>11. CASE q.op = "receipt"
    <2>1. /\ balance' = balance
          /\ blocked' = [blocked EXCEPT ![q.account] = @ - q.amount]
      BY <1>11 DEF FundsMove, TransferToSeller
    <2>2. PICK amount \in Int, rate \in Int :
            /\ amount = q.amount /\ amount = orders[q.order].amount
            /\ amount = q.row.amount
            /\ rate = q.row.rate /\ rate = orders[q.order].rate
      <3>1. q.amount = orders[q.order].amount
        BY <1>1, <1>11 DEF DealInv, HandlerOK, ReceiptOK
      <3>2. q.row.amount = orders[q.order].amount /\ q.row.rate = orders[q.order].rate
        BY <1>1, <1>11 DEF AuditInv, RowsAgree
      <3>3. q.row.rate \in Int
        BY <1>1 DEF Request, Order
      <3> QED
        BY <1>1, <3>1, <3>2, <3>3
    <2>3. PICK price \in Int : price = amount * rate
      BY ProductType
    <2>4. e.role = "seller" /\ e.amount * (1 + orders'[e.order].rate) = amount + price
      <3>1. e.role = "seller" /\ e.amount = amount /\ e.order = q.order
        BY <1>6, <1>11, <2>2 DEF MovedRow
      <3>2. amount * (1 + rate) = amount + amount * rate
        BY Distribute, SMT
      <3> QED
        BY <1>2, <2>2, <2>3, <3>1, <3>2
    <2>5. Due(w)' = price
      BY <1>3, <1>11, <2>2, <2>3 DEF Due
    <2>6. SumFunction(Own)' = SumFunction(Own) + (-amount)
      <3>1. /\ blocked'[q.account] = blocked[q.account] - amount
            /\ \A v \in Users \ {q.account} : blocked'[v] = blocked[v]
        BY <1>1, <1>10, <2>1, <2>2
      <3>2. -amount \in Int /\ blocked[q.account] \in Int /\ balance[q.account] \in Int
        BY <1>1, <1>10
      <3>3. balance'[q.account] + blocked'[q.account]
              = balance[q.account] + blocked[q.account] + (-amount)
        BY <2>1, <3>1, <3>2
      <3> QED
        BY <1>1, <1>9, <2>1, <3>1, <3>2, <3>3, OwnChange DEF AuditInv
    <2>7. /\ SumFunction(Own)' = SumFunction(Own) + (-amount)
          /\ SumFunction(Shares)' = SumFunction(Shares) + (amount + price)
          /\ Due(w)' = Due(w) + (-amount + (amount + price))
      BY <1>7, <1>9, <2>4, <2>5, <2>6
    <2>8. -amount \in Int /\ amount + price \in Int
      OBVIOUS
    <2> QED
      BY <1>2, <1>4, <1>5, <1>9, <2>7, <2>8, AuditKept
  <1>12. CASE q.op # "receipt"
    <2>1. e.role # "seller"
      BY <1>6, <1>12 DEF MovedRow
    <2>2. SumFunction(Own)' = SumFunction(Own)
      <3>1. ASSUME NEW u \in Users
            PROVE  balance'[u] + blocked'[u] = balance[u] + blocked[u]
        <4>1. Gone(u) = 0
          BY <1>1, <1>12, MoveMoney DEF Takes
        <4>2. /\ balance'[u] \in Int /\ blocked'[u] \in Int
              /\ balance[u] \in Int /\ blocked[u] \in Int
          BY DEF TypeOK, AccountsTypeOK
        <4> QED
          BY <4>1, <4>2 DEF Gone
      <3> QED
        BY <3>1, OwnSame DEF AuditInv
    <2>3. Due(w)' = 0
      BY <1>3, <1>12 DEF Due
    <2>4. /\ SumFunction(Own)' = SumFunction(Own) + 0
          /\ SumFunction(Shares)' = SumFunction(Shares) + 0
          /\ Due(w)' = Due(w) + (0 + 0)
      BY <1>7, <1>9, <1>10, <2>1, <2>2, <2>3
    <2>5. \E a \in Int, b \in Int :
             /\ SumFunction(Own)' = SumFunction(Own) + a
             /\ SumFunction(Shares)' = SumFunction(Shares) + b
             /\ Due(w)' = Due(w) + (a + b)
      BY <2>4
    <2> QED
      BY <1>2, <1>4, <1>5, <1>9, <2>5, AuditKept
  <1> QED
    BY <1>11, <1>12

\* T1 takes the buyer's share.
LEMMA AuditReceipt ==
  ASSUME TypeOK, TypeOK', OrdersKnown, DealInv, AuditInv,
         NEW w \in Workers, FinishReceipt(w)
  PROVE  AuditInv'
  <1> DEFINE q == req[w]
  <1>1. PICK row : row = SetStatus(w, "COMPLETED")
    OBVIOUS
  <1>2. Finish(w, "receipt", row)
    BY <1>1 DEF FinishReceipt
  <1>3. /\ q # Idle /\ q \in Request /\ q.op = "receipt"
        /\ req'[w] = Idle /\ \A v \in Workers \ {w} : req'[v] = req[v]
        /\ CallsT2(q) => q.phase = "moved"
        /\ HandlerOK(w)
    BY <1>2, FinishFacts
  <1>4. q.phase = "moved" /\ q.user \in Users
    BY <1>3 DEF CallsT2, MovingOps, Request
  <1>5. PICK price \in Int : price = q.row.amount * q.row.rate
    <2>1. q.row.amount \in Int /\ q.row.rate \in Int
      BY <1>3 DEF Request, Order
    <2> QED
      BY <2>1, ProductType
  <1>6. Due(w) = price /\ Due(w)' = 0
    BY <1>3, <1>4, <1>5 DEF Due
  <1>7. /\ balance' = balance /\ ledger' = ledger /\ faults' = faults
        /\ blocked' = [blocked EXCEPT ![q.user] = @ - price]
    BY <1>5 DEF FinishReceipt, Finish
  <1>8. OrdersStay
    BY FinishStays
  <1>9. ReceiptsKnown' /\ SumFunction(Shares)' = SumFunction(Shares)
    BY <1>7, <1>8, SharesSame DEF AuditInv
  <1>10. SumFunction(Own)' = SumFunction(Own) + (-price)
    <2>1. /\ blocked \in [Users -> Int] /\ balance \in [Users -> Int]
      BY DEF TypeOK, AccountsTypeOK
    <2>2. /\ blocked'[q.user] = blocked[q.user] - price
          /\ \A v \in Users \ {q.user} : blocked'[v] = blocked[v]
      BY <1>4, <1>7, <2>1
    <2>3. -price \in Int /\ blocked[q.user] \in Int /\ balance[q.user] \in Int
      BY <1>4, <2>1
    <2>4. balance'[q.user] + blocked'[q.user]
            = balance[q.user] + blocked[q.user] + (-price)
      BY <1>7, <2>2, <2>3
    <2> QED
      BY <1>4, <1>7, <1>9, <2>2, <2>3, <2>4, OwnChange DEF AuditInv
  <1>11. /\ SumFunction(Shares)' = SumFunction(Shares) + 0
         /\ Due(w)' = Due(w) + (-price + 0) /\ -price \in Int
    BY <1>6, <1>9, AuditTypes DEF AuditInv
  <1> QED
    BY <1>3, <1>7, <1>8, <1>9, <1>10, <1>11, AuditKept

LEMMA AuditBegin ==
  ASSUME TypeOK, TypeOK', OrdersKnown, AuditInv, NEW w \in Workers, NEW op,
         NEW o \in Orders, NEW row, NEW u, NEW account, NEW amount,
         Begin(w, op, o, row, u, account, amount),
         op # "sell" => row = orders[o]
  PROVE  AuditInv'
  <1>1. /\ req[w] = Idle
        /\ req'[w] = [phase |-> "checked", op |-> op, order |-> o, row |-> row,
                      user |-> u, account |-> account, amount |-> amount,
                      before |-> 0]
        /\ \A v \in Workers \ {w} : req'[v] = req[v]
        /\ orders' = orders /\ ledger' = ledger /\ balance' = balance
        /\ blocked' = blocked /\ faults' = faults
    BY DEF Begin, TypeOK, accountVars
  <1>2. Due(w) = 0 /\ Due(w)' = 0
    BY <1>1 DEF Due
  <1>3. (req'[w] # Idle /\ req'[w].op # "sell") =>
           /\ req'[w].row.amount = orders'[req'[w].order].amount
           /\ req'[w].row.rate = orders'[req'[w].order].rate
    BY <1>1
  <1> QED
    BY <1>1, <1>2, <1>3, OrdersSame, AuditQuiet

\* The steps of a handler that move no money.
LEMMA AuditInner ==
  ASSUME TypeOK, TypeOK', OrdersKnown, DealInv, AuditInv, NEW w \in Workers,
         \/ FundsRead(w) \/ Refuse(w)
         \/ FinishSell(w) \/ FinishAccept(w) \/ FinishPayment(w)
         \/ FinishCancel(w) \/ FinishDispute(w) \/ FinishResolve(w)
  PROVE  AuditInv'
  <1>1. CASE FundsRead(w)
    <2>1. req[w] # Idle /\ req[w] \in Request /\ req[w].phase = "checked"
      BY <1>1, PhaseType DEF FundsRead
    <2>2. /\ req'[w].phase = "read" /\ req'[w].row = req[w].row
          /\ req'[w].order = req[w].order /\ req'[w].op = req[w].op
          /\ req'[w] # Idle
          /\ \A v \in Workers \ {w} : req'[v] = req[v]
          /\ orders' = orders /\ ledger' = ledger /\ balance' = balance
          /\ blocked' = blocked /\ faults' = faults
      BY <1>1, <2>1 DEF FundsRead, TypeOK, Request, accountVars, Idle
    <2>3. Due(w) = 0 /\ Due(w)' = 0
      BY <2>1, <2>2 DEF Due
    <2>4. (req'[w] # Idle /\ req'[w].op # "sell") =>
             /\ req'[w].row.amount = orders'[req'[w].order].amount
             /\ req'[w].row.rate = orders'[req'[w].order].rate
      BY <2>1, <2>2 DEF AuditInv, RowsAgree
    <2> QED
      BY <2>2, <2>3, <2>4, OrdersSame, AuditQuiet
  <1>2. CASE Refuse(w)
    <2>1. /\ req'[w] = Idle /\ \A v \in Workers \ {w} : req'[v] = req[v]
          /\ orders' = orders /\ ledger' = ledger /\ balance' = balance
          /\ blocked' = blocked /\ faults' = faults
          /\ req[w].phase \in {"checked", "read"}
      BY <1>2 DEF Refuse, TypeOK, accountVars
    <2>2. Due(w) = 0 /\ Due(w)' = 0
      BY <2>1 DEF Due
    <2> QED
      BY <2>1, <2>2, OrdersSame, AuditQuiet
  <1>3. ASSUME NEW op, NEW row, Finish(w, op, row), op # "receipt", OrdersStay,
               UNCHANGED accountVars
        PROVE  AuditInv'
    <2>1. /\ req[w].op = op /\ req'[w] = Idle
          /\ \A v \in Workers \ {w} : req'[v] = req[v]
          /\ ledger' = ledger /\ balance' = balance
          /\ blocked' = blocked /\ faults' = faults
      BY <1>3, FinishFacts DEF Finish, accountVars
    <2>2. Due(w) = 0 /\ Due(w)' = 0
      BY <1>3, <2>1 DEF Due
    <2> QED
      BY <1>3, <2>1, <2>2, AuditQuiet
  <1> QED
    BY <1>1, <1>2, <1>3, FinishStays
       DEF FinishSell, FinishAccept, FinishPayment, FinishCancel, FinishDispute, FinishResolve

\* A request of one statement.
LEMMA AuditRow ==
  ASSUME TypeOK, TypeOK', OrdersKnown, AuditInv, OrdersStay, NEW w \in Workers,
         req' = req, req[w] = Idle,
         UNCHANGED <<balance, blocked, ledger, faults>>
  PROVE  AuditInv'
  <1>1. Due(w) = 0 /\ Due(w)' = 0
    BY DEF Due
  <1> QED
    BY <1>1, AuditQuiet

LEMMA AuditAbort ==
  ASSUME TypeOK, TypeOK', OrdersKnown, AuditInv, NEW w \in Workers, Abort(w)
  PROVE  AuditInv'
  <1>1. /\ req'[w] = Idle /\ \A v \in Workers \ {w} : req'[v] = req[v]
        /\ orders' = orders /\ ledger' = ledger /\ faults' = faults + 1
    BY DEF Abort, TypeOK, accountVars
  <1>2. faults' # 0
    BY <1>1, FaultsAssumption DEF TypeOK
  <1>3. OrdersStay /\ ReceiptsKnown'
    BY <1>1, OrdersSame, SharesSame DEF AuditInv
  <1> QED
    BY <1>1, <1>2, <1>3, AuditKept

LEMMA AuditStep ==
  ASSUME TypeOK, TypeOK', OrdersKnown, DealInv, AuditInv, [Next]_vars
  PROVE  AuditInv'
  <1>1. ASSUME NEW w \in Workers, Handle(w) \/ Abort(w)
        PROVE  AuditInv'
    BY <1>1, AuditMove, AuditReceipt, AuditInner, AuditAbort DEF Handle
  <1>2. ASSUME NEW w \in Workers, NEW o \in Orders, HideOrder(w, o)
        PROVE  AuditInv'
    <2>1. OrdersStay
      BY <1>2, StatusStays DEF HideOrder, Statuses
    <2> QED
      BY <1>2, <2>1, AuditRow DEF HideOrder, accountVars
  <1>3. ASSUME NEW w \in Workers, NEW o \in Orders, NEW u \in Users,
               NEW a \in Amounts, NEW r \in Rates, CreateBuy(w, o, u, a, r)
        PROVE  AuditInv'
    <2>1. OrdersStay
      BY <1>3, ChangeStays DEF CreateBuy, Fresh
    <2> QED
      BY <1>3, <2>1, AuditRow DEF CreateBuy, accountVars
  <1>4. ASSUME NEW w \in Workers, NEW o \in Orders, NEW u \in Users,
               \/ \E a \in Amounts, r \in Rates : BeginSell(w, o, u, a, r)
               \/ \E a \in Amounts : BeginAccept(w, o, u, a)
               \/ BeginPayment(w, o, u) \/ BeginReceipt(w, o, u)
               \/ BeginCancel(w, o, u) \/ BeginDispute(w, o, u) \/ BeginResolve(w, o, u)
        PROVE  AuditInv'
    BY <1>4, AuditBegin
       DEF BeginSell, BeginAccept, BeginPayment, BeginReceipt, BeginCancel, BeginDispute,
           BeginResolve
  <1>5. CASE UNCHANGED vars
    <2>1. PICK w \in Workers : TRUE
      BY WorkersAssumption
    <2>2. /\ req' = req /\ orders' = orders /\ balance' = balance
          /\ blocked' = blocked /\ ledger' = ledger /\ faults' = faults
      BY <1>5 DEF vars
    <2>3. Due(w)' = Due(w)
      BY <2>2 DEF Due
    <2> QED
      BY <2>2, <2>3, OrdersSame, AuditQuiet DEF AuditInv, RowsAgree
  <1> QED
    BY <1>1, <1>2, <1>3, <1>4, <1>5 DEF Next

LEMMA AuditInit == Init => AuditInv
  <1> SUFFICES ASSUME Init PROVE AuditInv
    OBVIOUS
  <1>1. /\ RowsAgree /\ ReceiptsKnown /\ TypeOK
    BY TypeInit, EmptyBooks DEF Init, AccountsInit, RowsAgree, ReceiptsKnown
  <1>2. Own = InitBalance
    <2>1. \A u \in Users : Own[u] = InitBalance[u]
      <3> TAKE u \in Users
      <3>1. balance[u] = InitBalance[u] /\ blocked[u] = 0 /\ InitBalance[u] \in Int
        BY BalanceAssumption DEF Init, AccountsInit
      <3>2. Own[u] = balance[u] + blocked[u]
        BY DEF Own
      <3> QED
        BY <3>1, <3>2
    <2> QED
      BY <2>1, BalanceAssumption DEF Own
  <1>3. SumFunction(Shares) = 0
    <2>1. DOMAIN Shares = {}
      BY EmptyBooks DEF Init, AccountsInit, Shares
    <2> QED
      BY <2>1, SumOver, SumEmpty
  <1>4. SumFunction(Dues) = 0
    <2>1. DOMAIN Dues = Workers /\ \A w \in Workers : Dues[w] = 0
      BY DEF Init, Dues, Due
    <2> QED
      BY <2>1, SumOver, SumZero, WorkersAssumption
  <1>5. SumFunction(InitBalance) \in Int
    BY <1>1, AuditTypes
  <1> QED
    BY <1>1, <1>2, <1>3, <1>4, <1>5 DEF AuditInv, Books

\* ReceiptsTakeBothShares: once all handlers are done and none was lost, the
\* users own what they started with less both shares of every receipt the
\* ledger shows. On the way every receipt between its T2 and its T1 owes the
\* buyer's share (Books): T2 of one handler is never paired with T1 of another.
THEOREM ReceiptsAreWhole == Spec => []ReceiptsTakeBothShares
  <1>1. TypeOK /\ AuditInv => ReceiptsTakeBothShares
    <2> SUFFICES ASSUME TypeOK, AuditInv, Quiet, faults = 0
                 PROVE  SumFunction([u \in Users |-> balance[u] + blocked[u]])
                          = SumFunction(InitBalance)
                              - SumFunction([i \in ReceiptRows |->
                                  ledger[i].amount * (1 + orders[ledger[i].order].rate)])
      BY DEF ReceiptsTakeBothShares
    <2>1. SumFunction(Dues) = 0
      <3>1. DOMAIN Dues = Workers /\ \A w \in Workers : Dues[w] = 0
        BY DEF Quiet, Dues, Due
      <3> QED
        BY <3>1, SumOver, SumZero, WorkersAssumption
    <2>2. SumFunction(Own) = SumFunction(InitBalance) - SumFunction(Shares)
      BY <2>1, AuditTypes DEF AuditInv, Books
    <2> QED
      BY <2>2 DEF Own, Shares, Share
  <1> QED
    BY <1>1, AuditInit, AuditStep, DealAlways, PTL DEF Spec

-----------------------------------------------------------------------------
(* Money leaves by receipts only.                                          *)

\* The rest of a receipt: T1 takes the buyer's share.
LEMMA ReceiptMoney ==
  ASSUME TypeOK, RowsAgree, NEW w \in Workers, FinishReceipt(w), NEW u \in Users
  PROVE  Gone(u) = 0 \/ Takes(w, u)
  <1> DEFINE q == req[w]
             price == q.row.amount * q.row.rate
  <1>1. q # Idle /\ q \in Request /\ q.op = "receipt" /\ req'[w] = Idle
    BY BusyType DEF FinishReceipt, Finish, TypeOK
  <1>7. q.phase = "moved"
    BY <1>1 DEF FinishReceipt, Finish, ReadyToCommit, CallsT2, MovingOps
  <1>2. price \in Int /\ q.user \in Users
    <2>1. q.row.amount \in Int /\ q.row.rate \in Int /\ q.user \in Users
      BY <1>1 DEF Request, Order
    <2> QED
      BY <2>1, ProductType
  <1>8. price = orders[q.order].amount * orders[q.order].rate
    BY <1>1 DEF RowsAgree
  <1>3. /\ balance \in [Users -> Int] /\ blocked \in [Users -> Int]
        /\ balance[u] \in Int /\ blocked[u] \in Int
    BY DEF TypeOK, AccountsTypeOK
  <1>4. balance' = balance /\ blocked' = [blocked EXCEPT ![q.user] = @ - price]
    BY DEF FinishReceipt
  <1> HIDE DEF price
  <1>5. CASE u = q.user
    <2>1. Gone(u) = price
      BY <1>2, <1>3, <1>4, <1>5 DEF Gone
    <2> QED
      BY <1>1, <1>5, <1>7, <1>8, <2>1 DEF Takes
  <1>6. CASE u # q.user
    BY <1>3, <1>4, <1>6 DEF Gone
  <1> QED
    BY <1>5, <1>6

\* A step exchanges a user's free and blocked money, leaves both alone, or is
\* the receipt of some worker.
LEMMA MoneyStep ==
  ASSUME TypeOK, DealInv, RowsAgree, [Next]_vars, NEW u \in Users
  PROVE  Gone(u) = 0 \/ \E w \in Workers : Takes(w, u)
  <1>1. CASE UNCHANGED <<balance, blocked>>
    BY <1>1, NothingGone
  <1>2. ASSUME NEW w \in Workers, FundsMove(w)
        PROVE  Gone(u) = 0 \/ Takes(w, u)
    BY <1>2, MoveMoney
  <1>3. ASSUME NEW w \in Workers, FinishReceipt(w)
        PROVE  Gone(u) = 0 \/ Takes(w, u)
    BY <1>3, ReceiptMoney
  <1>4. ASSUME NEW w \in Workers, NEW o \in Orders, NEW v \in Users,
               NEW a \in Amounts, NEW r \in Rates,
               BeginSell(w, o, v, a, r) \/ CreateBuy(w, o, v, a, r)
        PROVE  UNCHANGED <<balance, blocked>>
    BY <1>4 DEF BeginSell, CreateBuy, Begin, accountVars
  <1>5. ASSUME NEW w \in Workers, NEW o \in Orders, NEW v \in Users,
               \/ \E a \in Amounts : BeginAccept(w, o, v, a)
               \/ BeginPayment(w, o, v) \/ BeginReceipt(w, o, v)
               \/ BeginCancel(w, o, v) \/ BeginDispute(w, o, v)
               \/ BeginResolve(w, o, v) \/ HideOrder(w, o)
        PROVE  UNCHANGED <<balance, blocked>>
    BY <1>5 DEF BeginAccept, BeginPayment, BeginReceipt, BeginCancel, BeginDispute, BeginResolve,
                HideOrder, Begin, accountVars
  <1>6. ASSUME NEW w \in Workers,
               \/ FundsRead(w) \/ Refuse(w) \/ Abort(w)
               \/ FinishSell(w) \/ FinishAccept(w) \/ FinishPayment(w)
               \/ FinishCancel(w) \/ FinishDispute(w) \/ FinishResolve(w)
        PROVE  UNCHANGED <<balance, blocked>>
    BY <1>6 DEF FundsRead, Refuse, Abort, FinishSell, FinishAccept, FinishPayment,
                FinishCancel, FinishDispute, FinishResolve, accountVars
  <1>7. ASSUME NEW w \in Workers, Handle(w) \/ Abort(w)
        PROVE  Gone(u) = 0 \/ \E v \in Workers : Takes(v, u)
    BY <1>1, <1>2, <1>3, <1>6, <1>7 DEF Handle
  <1>8. CASE UNCHANGED vars
    <2>1. UNCHANGED <<balance, blocked>>
      BY <1>8 DEF vars
    <2> QED
      BY <1>1, <2>1
  <1>9. CASE Next
    <2>1. CASE \E w \in Workers : Handle(w) \/ Abort(w)
      BY <1>7, <2>1
    <2>2. CASE ~ \E w \in Workers : Handle(w) \/ Abort(w)
      <3>1. CASE \E w \in Workers, o \in Orders : HideOrder(w, o)
        <4>1. UNCHANGED <<balance, blocked>>
          BY <1>5, <3>1
        <4> QED
          BY <1>1, <4>1
      <3>2. CASE ~ \E w \in Workers, o \in Orders : HideOrder(w, o)
        <4>1. PICK w \in Workers, o \in Orders, v \in Users :
                \/ \E a \in Amounts, r \in Rates :
                     BeginSell(w, o, v, a, r) \/ CreateBuy(w, o, v, a, r)
                \/ \E a \in Amounts : BeginAccept(w, o, v, a)
                \/ BeginPayment(w, o, v) \/ BeginReceipt(w, o, v)
                \/ BeginCancel(w, o, v) \/ BeginDispute(w, o, v)
                \/ BeginResolve(w, o, v)
          BY <1>9, <2>2, <3>2 DEF Next
        <4>2. UNCHANGED <<balance, blocked>>
          BY <1>4, <1>5, <4>1
        <4> QED
          BY <1>1, <4>2
      <3> QED
        BY <3>1, <3>2
    <2> QED
      BY <2>1, <2>2
  <1> QED
    BY <1>8, <1>9

\* MoneyMovesByReceiptOnly: whatever handlers race, are refused or lost, and
\* whatever the sign of the amounts, the only steps that change what a user owns
\* are the two halves of a confirmReceipt, its T2 for the seller and its T1 for
\* the caller, each by the numbers of the committed order row.
THEOREM OnlyReceiptsTakeMoney == Spec => MoneyMovesByReceiptOnly
  <1>1. TypeOK /\ DealInv /\ AuditInv /\ [Next]_vars =>
          [\A u \in Users :
             LET gone == (balance[u] + blocked[u]) - (balance[u] + blocked[u])' IN
             \/ gone = 0
             \/ \E w \in Workers :
                  LET row == orders[req[w].order] IN
                  /\ req[w] # Idle /\ req[w].op = "receipt"
                  /\ \/ /\ req[w].phase = "read" /\ req'[w].phase = "moved"
                        /\ u = row.seller /\ gone = row.amount
                     \/ /\ req[w].phase = "moved" /\ req'[w] = Idle
                        /\ u = req[w].user /\ gone = row.amount * row.rate]_vars
    BY MoneyStep DEF Gone, Takes, AuditInv
  <1> QED
    BY <1>1, AuditInit, AuditStep, DealAlways, PTL
       DEF Spec, MoneyMovesByReceiptOnly

-----------------------------------------------------------------------------
(* The chain of a user's rows, when one request runs at a time.            *)

OneAtATime == \A v, w \in Workers : v = w

\* The value is where the last of the rows S of user u ended.
Follows(S, u, value) ==
  IF S = {} THEN value = InitBalance[u]
  ELSE \E j \in S : (\A i \in S : i <= j) /\ value = ledger[j].after

Earlier(i) == {j \in RowsOf(ledger[i].user) : j < i}

\* Every row starts where the one before it ended, the balance is where the
\* last one ended, and the balance T2 has read is still the balance.
ChainInv ==
  /\ \A i \in DOMAIN ledger : Follows(Earlier(i), ledger[i].user, ledger[i].before)
  /\ \A u \in Users : Follows(RowsOf(u), u, balance[u])
  /\ \A w \in Workers : (req[w] # Idle /\ req[w].phase = "read") =>
       req[w].before = balance[req[w].account]

LEMMA Greatest ==
  ASSUME NEW S, S \subseteq Int, NEW j \in S, \A i \in S : i <= j
  PROVE  Max(S) = j
  <1>1. j \in S /\ \A i \in S : j >= i
    OBVIOUS
  <1>2. ASSUME NEW k \in S, \A i \in S : k >= i
        PROVE  k = j
    <2>1. k >= j /\ k <= j /\ k \in Int /\ j \in Int
      BY <1>2
    <2> QED
      BY <2>1
  <1> QED
    BY <1>1, <1>2 DEF Max

LEMMA ChainImplies ==
  ASSUME TypeOK, ChainInv
  PROVE  LedgerChains
  <1> SUFFICES ASSUME NEW i \in DOMAIN ledger
               PROVE  ledger[i].before =
                        IF Earlier(i) = {} THEN InitBalance[ledger[i].user]
                        ELSE ledger[Max(Earlier(i))].after
    BY DEF LedgerChains, Earlier
  <1>1. Follows(Earlier(i), ledger[i].user, ledger[i].before)
    BY DEF ChainInv
  <1>2. Earlier(i) \subseteq Int
    BY DEF Earlier, RowsOf, TypeOK, AccountsTypeOK
  <1> QED
    BY <1>1, <1>2, Greatest DEF Follows

LEMMA ChainMove ==
  ASSUME OneAtATime, TypeOK, DealInv, ChainInv, NEW w \in Workers, FundsMove(w)
  PROVE  ChainInv'
  <1> DEFINE n == Len(ledger) + 1
             a == req[w].account
  <1>1. PICK e \in LedgerRow, d \in Int : MovedRow(w, e, d)
    BY MoveRow
  <1>2. ledger \in Seq(LedgerRow) /\ balance \in [Users -> Int]
    BY DEF TypeOK, AccountsTypeOK
  <1>3. /\ req[w] # Idle /\ req[w].phase = "read" /\ a \in Users
        /\ e.user = a /\ e.before = balance[a] /\ e.after = balance[a] + d
    BY <1>1, PhaseType DEF FundsMove, ChainInv, MovedRow, Request
  <1>4. /\ DOMAIN ledger' = DOMAIN ledger \cup {n} /\ n \notin DOMAIN ledger
        /\ ledger'[n] = e /\ \A i \in DOMAIN ledger : ledger'[i] = ledger[i]
        /\ \A i \in DOMAIN ledger : i \in Nat /\ i < n
        /\ n \in Nat
        /\ \A u : RowsOf(u)' = IF a = u THEN RowsOf(u) \cup {n} ELSE RowsOf(u)
        /\ \A u : RowsOf(u) \subseteq DOMAIN ledger
    BY <1>1, <1>2, <1>3, LongerLedger, FiniteRows DEF MovedRow
  <1> HIDE DEF n
  <1>6. ASSUME NEW i \in DOMAIN ledger'
        PROVE  Follows(Earlier(i), ledger[i].user, ledger[i].before)'
    <2>1. CASE i \in DOMAIN ledger
      <3>1. Earlier(i)' = Earlier(i) /\ Earlier(i) \subseteq DOMAIN ledger
        BY <1>4, <2>1 DEF Earlier
      <3>2. Follows(Earlier(i), ledger[i].user, ledger[i].before)
        BY <2>1 DEF ChainInv
      <3> QED
        BY <1>4, <2>1, <3>1, <3>2 DEF Follows
    <2>2. CASE i = n
      <3>1. Earlier(i)' = RowsOf(a)
        BY <1>3, <1>4, <2>2 DEF Earlier
      <3>2. Follows(RowsOf(a), a, balance[a])
        BY <1>3 DEF ChainInv
      <3> QED
        BY <1>3, <1>4, <2>2, <3>1, <3>2 DEF Follows
    <2> QED
      BY <1>4, <2>1, <2>2
  <1>7. ASSUME NEW u \in Users
        PROVE  Follows(RowsOf(u), u, balance[u])'
    <2>1. CASE u = a
      <3>1. RowsOf(u)' = RowsOf(u) \cup {n} /\ \A i \in RowsOf(u)' : i <= n
        BY <1>4, <2>1
      <3>2. balance'[u] = balance[a] + d
        BY <1>1, <1>2, <1>3, <2>1 DEF MovedRow
      <3> QED
        BY <1>3, <1>4, <3>1, <3>2 DEF Follows
    <2>2. CASE u # a
      <3>1. RowsOf(u)' = RowsOf(u) /\ balance'[u] = balance[u]
        BY <1>1, <1>2, <1>4, <2>2 DEF MovedRow
      <3>2. Follows(RowsOf(u), u, balance[u]) /\ RowsOf(u) \subseteq DOMAIN ledger
        BY <1>4 DEF ChainInv
      <3> QED
        BY <1>4, <3>1, <3>2 DEF Follows
    <2> QED
      BY <2>1, <2>2
  <1>8. ASSUME NEW v \in Workers
        PROVE  req'[v].phase = "moved"
    BY <1>3, PhaseType DEF FundsMove, OneAtATime, TypeOK, Request
  <1> QED
    BY <1>6, <1>7, <1>8 DEF ChainInv

\* A handler reads the balance, and nothing else puts it into phase "read".
LEMMA ReadSteps ==
  ASSUME TypeOK, [Next]_vars, ~ \E v \in Workers : FundsMove(v), NEW w \in Workers,
         req'[w] # Idle, req'[w].phase = "read"
  PROVE  req'[w] = req[w] \/ (/\ req'[w].account = req[w].account
                             /\ req'[w].before = balance[req[w].account])
  <1>1. ASSUME NEW v \in Workers, FundsRead(v)
        PROVE  req'[w] = req[w] \/ (/\ req'[w].account = req[w].account
                                   /\ req'[w].before = balance[req[w].account])
    BY <1>1, PhaseType DEF FundsRead, TypeOK, Request
  <1>2. ASSUME NEW v \in Workers, NEW op, NEW o, NEW row, NEW u, NEW account, NEW amount,
               Begin(v, op, o, row, u, account, amount)
        PROVE  req'[w] = req[w]
    BY <1>2 DEF Begin, TypeOK
  <1>3. ASSUME NEW v \in Workers, req' = [req EXCEPT ![v] = Idle] \/ req' = req
        PROVE  req'[w] = req[w]
    BY <1>3 DEF TypeOK
  <1>4. ASSUME NEW v \in Workers, Handle(v) \/ Abort(v)
        PROVE  FundsRead(v) \/ req' = [req EXCEPT ![v] = Idle]
    BY <1>4 DEF Handle, Refuse, Abort, FinishSell, FinishAccept, FinishPayment,
                FinishReceipt, FinishCancel, FinishDispute, FinishResolve, Finish
  <1>5. ASSUME NEW v \in Workers, NEW o \in Orders, HideOrder(v, o)
        PROVE  req' = req
    BY <1>5 DEF HideOrder
  <1>6. ASSUME NEW v \in Workers, NEW o \in Orders, NEW u \in Users,
               \/ \E a \in Amounts, r \in Rates :
                    BeginSell(v, o, u, a, r) \/ CreateBuy(v, o, u, a, r)
               \/ \E a \in Amounts : BeginAccept(v, o, u, a)
               \/ BeginPayment(v, o, u) \/ BeginReceipt(v, o, u)
               \/ BeginCancel(v, o, u) \/ BeginDispute(v, o, u) \/ BeginResolve(v, o, u)
        PROVE  req'[w] = req[w]
    BY <1>2, <1>6
       DEF BeginSell, CreateBuy, BeginAccept, BeginPayment, BeginReceipt, BeginCancel,
           BeginDispute, BeginResolve
  <1> QED
    BY <1>1, <1>3, <1>4, <1>5, <1>6 DEF Next, vars

LEMMA ChainStep ==
  ASSUME OneAtATime, TypeOK, DealInv, ChainInv, [Next]_vars
  PROVE  ChainInv'
  <1>1. CASE \E w \in Workers : FundsMove(w)
    BY <1>1, ChainMove
  <1>2. CASE ~ \E w \in Workers : FundsMove(w)
    <2>1. balance' = balance /\ ledger' = ledger
      BY <1>2, LedgerSteps
    <2>2. \A w \in Workers : (req'[w] # Idle /\ req'[w].phase = "read") =>
            req'[w].before = balance[req'[w].account]
      <3> SUFFICES ASSUME NEW w \in Workers, req'[w] # Idle, req'[w].phase = "read"
                   PROVE  req'[w].before = balance[req'[w].account]
        OBVIOUS
      <3> QED
        BY <1>2, ReadSteps DEF ChainInv
    <2> QED
      BY <2>1, <2>2 DEF ChainInv, Follows, Earlier, RowsOf
  <1> QED
    BY <1>1, <1>2

\* LedgerChains: with one request at a time, every ledger row starts at the
\* balance where the user's previous row ended. Each T2 writes the balance it
\* read into its row, and only a second handler could change it in between.
THEOREM OneRequestChains ==
  ASSUME OneAtATime
  PROVE  Spec => []LedgerChains
  <1>1. Init => ChainInv
    <2> SUFFICES ASSUME Init PROVE ChainInv
      OBVIOUS
    <2>1. \A u : RowsOf(u) = {}
      BY EmptyBooks DEF Init, AccountsInit
    <2> QED
      BY <2>1 DEF Init, AccountsInit, ChainInv, Follows, Idle
  <1>2. TypeOK /\ DealInv /\ ChainInv /\ [Next]_vars => ChainInv'
    BY ChainStep
  <1>3. TypeOK /\ ChainInv => LedgerChains
    BY ChainImplies
  <1> QED
    BY <1>1, <1>2, <1>3, DealAlways, PTL DEF Spec

-----------------------------------------------------------------------------
(* The refinement: what the lifecycle sees of the accounts.                *)

Free == [u \in Users |-> balance[u] + TakenSoFar(u)]
Held == [u \in Users |-> blocked[u] - AddedSoFar(u)]
Trades == [u \in Users |-> totalTrades[u] - CountedSoFar(u)]

\* The sum over at most one element.
LEMMA SumAtMostOne ==
  ASSUME NEW f, NEW x, DOMAIN f \subseteq {x}, x \in DOMAIN f => f[x] \in Int
  PROVE  SumFunction(f) = IF x \in DOMAIN f THEN f[x] ELSE 0
  <1>1. CASE x \in DOMAIN f
    <2>1. DOMAIN f = {} \cup {x}
      BY <1>1
    <2>2. /\ IsFiniteSet({}) /\ x \notin {}
          /\ \A y \in {} \cup {x} : f[y] \in Int
      BY <1>1, FS_EmptySet
    <2>3. SumFunctionOnSet(f, {} \cup {x}) = SumFunctionOnSet(f, {}) + f[x]
      BY <2>2, SumAdd
    <2>4. SumFunctionOnSet(f, {}) = 0 /\ f[x] \in Int
      BY <1>1, SumEmpty
    <2>5. SumFunction(f) = SumFunctionOnSet(f, {} \cup {x})
      BY <2>1, SumOver
    <2> QED
      BY <1>1, <2>3, <2>4, <2>5
  <1>2. CASE x \notin DOMAIN f
    <2>1. DOMAIN f = {}
      BY <1>2
    <2> QED
      BY <1>2, <2>1, SumOver, SumEmpty
  <1> QED
    BY <1>1, <1>2

\* With one handler the sums have at most one summand: while its T2 has moved
\* money and T1 has not committed, the accounts of its user are as before the
\* move; at any other time they are what the database holds.
AccountsSeen ==
  \A w \in Workers :
    /\ req[w].phase # "moved" =>
         Free = balance /\ Held = blocked /\ Trades = totalTrades
    /\ req[w].phase = "moved" =>
         /\ Free = [balance EXCEPT ![req[w].account] = @ + TakenFromFree(w)]
         /\ Held = [blocked EXCEPT ![req[w].account] = @ - AddedToBlocked(w)]
         /\ Trades = [totalTrades EXCEPT ![req[w].account] = @ - TradeCounted(w)]

LEMMA AccountsSeenAlways ==
  ASSUME OneAtATime, TypeOK
  PROVE  AccountsSeen
  <1> SUFFICES ASSUME NEW w \in Workers
               PROVE  /\ req[w].phase # "moved" =>
                           Free = balance /\ Held = blocked /\ Trades = totalTrades
                      /\ req[w].phase = "moved" =>
                           /\ Free = [balance EXCEPT ![req[w].account] = @ + TakenFromFree(w)]
                           /\ Held = [blocked EXCEPT ![req[w].account] = @ - AddedToBlocked(w)]
                           /\ Trades = [totalTrades EXCEPT ![req[w].account] = @ - TradeCounted(w)]
    BY DEF AccountsSeen
  <1>1. /\ balance \in [Users -> Int] /\ blocked \in [Users -> Int]
        /\ totalTrades \in [Users -> Int]
    BY DEF TypeOK, AccountsTypeOK
  <1>2. req[w].phase = "moved" =>
          /\ req[w].account \in Users /\ req[w].amount \in Int
          /\ TakenFromFree(w) \in Int /\ AddedToBlocked(w) \in Int
          /\ TradeCounted(w) \in Int
    BY PhaseType DEF Request, TakenFromFree, AddedToBlocked, TradeCounted
  <1>3. ASSUME NEW u \in Users
        PROVE  MovedFor(u) = IF req[w].phase = "moved" /\ req[w].account = u
                             THEN {w} ELSE {}
    BY DEF MovedFor, OneAtATime
  <1>4. ASSUME NEW u \in Users
        PROVE  /\ TakenSoFar(u) = IF req[w].phase = "moved" /\ req[w].account = u
                                  THEN TakenFromFree(w) ELSE 0
               /\ AddedSoFar(u) = IF req[w].phase = "moved" /\ req[w].account = u
                                  THEN AddedToBlocked(w) ELSE 0
               /\ CountedSoFar(u) = IF req[w].phase = "moved" /\ req[w].account = u
                                    THEN TradeCounted(w) ELSE 0
    <2> DEFINE f == [v \in MovedFor(u) |-> TakenFromFree(v)]
               g == [v \in MovedFor(u) |-> AddedToBlocked(v)]
               h == [v \in MovedFor(u) |-> TradeCounted(v)]
    <2>1. /\ DOMAIN f \subseteq {w} /\ DOMAIN g \subseteq {w} /\ DOMAIN h \subseteq {w}
          /\ (w \in DOMAIN f) <=> (req[w].phase = "moved" /\ req[w].account = u)
          /\ (w \in DOMAIN g) <=> (req[w].phase = "moved" /\ req[w].account = u)
          /\ (w \in DOMAIN h) <=> (req[w].phase = "moved" /\ req[w].account = u)
          /\ w \in DOMAIN f => f[w] = TakenFromFree(w)
          /\ w \in DOMAIN g => g[w] = AddedToBlocked(w)
          /\ w \in DOMAIN h => h[w] = TradeCounted(w)
      BY <1>3
    <2>2. TakenSoFar(u) = SumFunction(f) /\ AddedSoFar(u) = SumFunction(g)
            /\ CountedSoFar(u) = SumFunction(h)
      BY DEF TakenSoFar, AddedSoFar, CountedSoFar
    <2> HIDE DEF f, g, h
    <2>3. SumFunction(f) = IF w \in DOMAIN f THEN f[w] ELSE 0
      BY <1>2, <2>1, SumAtMostOne
    <2>4. SumFunction(g) = IF w \in DOMAIN g THEN g[w] ELSE 0
      BY <1>2, <2>1, SumAtMostOne
    <2>5. SumFunction(h) = IF w \in DOMAIN h THEN h[w] ELSE 0
      BY <1>2, <2>1, SumAtMostOne
    <2> QED
      BY <2>1, <2>2, <2>3, <2>4, <2>5
  <1>5. CASE req[w].phase = "moved"
    <2>1. PICK a \in Users, t \in Int, b \in Int, c \in Int :
            /\ a = req[w].account /\ t = TakenFromFree(w)
            /\ b = AddedToBlocked(w) /\ c = TradeCounted(w)
      BY <1>2, <1>5
    <2>2. \A u \in Users :
            /\ TakenSoFar(u) = IF u = a THEN t ELSE 0
            /\ AddedSoFar(u) = IF u = a THEN b ELSE 0
            /\ CountedSoFar(u) = IF u = a THEN c ELSE 0
      BY <1>4, <1>5, <2>1
    <2>3. Free = [balance EXCEPT ![a] = @ + t]
      <3>1. \A u \in Users :
              balance[u] + TakenSoFar(u) = [balance EXCEPT ![a] = @ + t][u]
        <4> SUFFICES ASSUME NEW u \in Users
                     PROVE  balance[u] + TakenSoFar(u) = [balance EXCEPT ![a] = @ + t][u]
          OBVIOUS
        <4> QED
          BY <1>1, <2>2
      <3> QED
        BY <1>1, <3>1 DEF Free
    <2>4. Held = [blocked EXCEPT ![a] = @ - b]
      <3>1. \A u \in Users :
              blocked[u] - AddedSoFar(u) = [blocked EXCEPT ![a] = @ - b][u]
        <4> SUFFICES ASSUME NEW u \in Users
                     PROVE  blocked[u] - AddedSoFar(u) = [blocked EXCEPT ![a] = @ - b][u]
          OBVIOUS
        <4> QED
          BY <1>1, <2>2
      <3> QED
        BY <1>1, <3>1 DEF Held
    <2>5. Trades = [totalTrades EXCEPT ![a] = @ - c]
      <3>1. \A u \in Users :
              totalTrades[u] - CountedSoFar(u) = [totalTrades EXCEPT ![a] = @ - c][u]
        <4> SUFFICES ASSUME NEW u \in Users
                     PROVE  totalTrades[u] - CountedSoFar(u) = [totalTrades EXCEPT ![a] = @ - c][u]
          OBVIOUS
        <4> QED
          BY <1>1, <2>2
      <3> QED
        BY <1>1, <3>1 DEF Trades
    <2> QED
      BY <1>5, <2>1, <2>3, <2>4, <2>5
  <1>6. CASE req[w].phase # "moved"
    BY <1>1, <1>4, <1>6 DEF Free, Held, Trades
  <1> QED
    BY <1>5, <1>6

-----------------------------------------------------------------------------
(* The refinement: the invariant.                                          *)

\* What the only handler knows: nobody has changed the row it read, its checks
\* in T1 still hold, and T2 has found, and left, what it needs.
AloneOK(w) ==
  req[w] # Idle =>
    /\ req[w].op \in Requests
    /\ IF req[w].op = "sell"
       THEN /\ orders[req[w].order] = NoOrder
            /\ req[w].row =
                 NewOrder("SELL", req[w].account, req[w].amount, req[w].row.rate)
       ELSE req[w].row = orders[req[w].order]
    /\ req[w].op = "accept" =>
         /\ CanTransition(req[w].row.status, "PAYMENT_PENDING")
         /\ \E a \in Amounts : req[w].amount = a * req[w].row.rate
    /\ req[w].op = "payment" =>
         /\ CanTransition(req[w].row.status, "PAID")
         /\ req[w].row.seller = req[w].user
    /\ req[w].op = "receipt" =>
         /\ CanTransition(req[w].row.status, "CONFIRMED")
         /\ req[w].row.buyer = req[w].user
    /\ req[w].op = "cancel" =>
         /\ CanTransition(req[w].row.status, "CANCELLED")
         /\ req[w].user \in {req[w].row.seller, req[w].row.buyer}
    /\ req[w].op = "dispute" => CanTransition(req[w].row.status, "DISPUTED")
    /\ req[w].op = "resolve" => CanTransition(req[w].row.status, "RESOLVED")
    /\ req[w].op \in {"cancel", "resolve"} =>
         req[w].account = req[w].user /\ req[w].amount = req[w].row.reserved
    /\ req[w].phase = "read" => FundsSuffice(req[w])
    /\ req[w].phase = "moved" =>
         /\ req[w].op \in {"sell", "accept"} => balance[req[w].account] >= 0
         /\ req[w].op \in {"cancel", "resolve"} => blocked[req[w].account] >= 0

AloneInv ==
  /\ \A o \in Orders : ~Committed(o) => orders[o] = NoOrder
  /\ \A w \in Workers : AloneOK(w)

\* A new handler whose own part of AloneInv holds.
LEMMA AloneBegin ==
  ASSUME OneAtATime, TypeOK, AloneInv, NEW w \in Workers,
         NEW op, NEW o \in Orders, NEW row, NEW u, NEW account, NEW amount,
         Begin(w, op, o, row, u, account, amount),
         IF op = "sell"
         THEN orders[o] = NoOrder /\ row = NewOrder("SELL", account, amount, row.rate)
         ELSE row = orders[o],
         op = "accept" =>
           /\ CanTransition(row.status, "PAYMENT_PENDING")
           /\ \E a \in Amounts : amount = a * row.rate,
         op = "payment" => CanTransition(row.status, "PAID") /\ row.seller = u,
         op = "receipt" => CanTransition(row.status, "CONFIRMED") /\ row.buyer = u,
         op = "cancel" =>
           CanTransition(row.status, "CANCELLED") /\ u \in {row.seller, row.buyer},
         op = "dispute" => CanTransition(row.status, "DISPUTED"),
         op = "resolve" => CanTransition(row.status, "RESOLVED"),
         op \in {"cancel", "resolve"} => account = u /\ amount = row.reserved
  PROVE  AloneInv'
  <1>1. /\ req'[w].op = op /\ req'[w].order = o /\ req'[w].row = row
        /\ req'[w].user = u /\ req'[w].account = account
        /\ req'[w].amount = amount /\ req'[w].phase = "checked"
        /\ op \in Requests
        /\ \A v \in Workers : v = w
    BY DEF Begin, TypeOK, OneAtATime
  <1>2. orders' = orders
    BY DEF Begin
  <1>3. AloneOK(w)'
    BY <1>1, <1>2 DEF AloneOK
  <1>4. \A o1 \in Orders : ~Committed(o1)' => orders'[o1] = NoOrder
    BY <1>2 DEF AloneInv, Committed
  <1> QED
    BY <1>1, <1>3, <1>4 DEF AloneInv

\* A handler goes on to its next phase.
LEMMA AlonePhase ==
  ASSUME OneAtATime, TypeOK, AloneInv, NEW w \in Workers, req[w] # Idle,
         /\ req'[w].op = req[w].op /\ req'[w].order = req[w].order
         /\ req'[w].row = req[w].row /\ req'[w].user = req[w].user
         /\ req'[w].account = req[w].account /\ req'[w].amount = req[w].amount,
         orders' = orders,
         req'[w].phase = "read" => FundsSuffice(req[w])',
         req'[w].phase = "moved" =>
           /\ req[w].op \in {"sell", "accept"} => balance'[req[w].account] >= 0
           /\ req[w].op \in {"cancel", "resolve"} => blocked'[req[w].account] >= 0
  PROVE  AloneInv'
  <1>1. AloneOK(w)'
    BY DEF AloneInv, AloneOK
  <1>2. \A o \in Orders : ~Committed(o)' => orders'[o] = NoOrder
    BY DEF AloneInv, Committed
  <1> QED
    BY <1>1, <1>2 DEF AloneInv, OneAtATime

\* A handler ends, or one was not running.
LEMMA AloneEnds ==
  ASSUME OneAtATime, TypeOK, AloneInv, NEW w \in Workers, req'[w] = Idle,
         \A o \in Orders :
           orders'[o] = orders[o] \/ orders'[o].status # "ABSENT"
  PROVE  AloneInv'
  <1>1. AloneOK(w)'
    BY DEF AloneOK
  <1>2. \A o \in Orders : ~Committed(o)' => orders'[o] = NoOrder
    BY DEF AloneInv, Committed
  <1> QED
    BY <1>1, <1>2 DEF AloneInv, OneAtATime

LEMMA AloneInner ==
  ASSUME OneAtATime, TypeOK, AloneInv, NEW w \in Workers,
         FundsRead(w) \/ FundsMove(w)
  PROVE  AloneInv'
  <1>1. req[w] # Idle /\ req[w] \in Request
    BY PhaseType DEF FundsRead, FundsMove
  <1>2. CASE FundsRead(w)
    <2>1. /\ req'[w] = [req[w] EXCEPT !.phase = "read",
                                      !.before = balance[req[w].account]]
          /\ orders' = orders /\ balance' = balance /\ blocked' = blocked
          /\ FundsSuffice(req[w])
      BY <1>2 DEF FundsRead, TypeOK, accountVars
    <2>2. /\ req'[w].op = req[w].op /\ req'[w].order = req[w].order
          /\ req'[w].row = req[w].row /\ req'[w].user = req[w].user
          /\ req'[w].account = req[w].account /\ req'[w].amount = req[w].amount
          /\ req'[w].phase = "read"
      BY <1>1, <2>1 DEF Request
    <2>3. FundsSuffice(req[w])'
      BY <2>1, <2>2 DEF FundsSuffice, CanReserve, CanRelease
    <2> QED
      BY <1>1, <2>1, <2>2, <2>3, AlonePhase
  <1>3. CASE FundsMove(w)
    <2>1. /\ req'[w] = [req[w] EXCEPT !.phase = "moved"] /\ orders' = orders
          /\ req[w].phase = "read"
      BY <1>3 DEF FundsMove, TypeOK
    <2>2. /\ req'[w].op = req[w].op /\ req'[w].order = req[w].order
          /\ req'[w].row = req[w].row /\ req'[w].user = req[w].user
          /\ req'[w].account = req[w].account /\ req'[w].amount = req[w].amount
          /\ req'[w].phase = "moved"
      BY <1>1, <2>1 DEF Request
    <2>3. FundsSuffice(req[w])
      BY <1>1, <2>1 DEF AloneInv, AloneOK
    <2>4. /\ balance \in [Users -> Int] /\ blocked \in [Users -> Int]
          /\ req[w].account \in Users /\ req[w].amount \in Int
      BY <1>1 DEF TypeOK, AccountsTypeOK, Request
    <2>5. req[w].op \in {"sell", "accept"} => balance'[req[w].account] >= 0
      BY <1>3, <2>3, <2>4 DEF FundsMove, ReserveFunds, FundsSuffice, CanReserve
    <2>6. req[w].op \in {"cancel", "resolve"} => blocked'[req[w].account] >= 0
      BY <1>3, <2>3, <2>4 DEF FundsMove, ReleaseFunds, FundsSuffice, CanRelease
    <2> QED
      BY <1>1, <2>1, <2>2, <2>5, <2>6, AlonePhase
  <1> QED
    BY <1>2, <1>3

\* T1's commit leaves a row that is in the table.
LEMMA AloneFinish ==
  ASSUME OneAtATime, TypeOK, AloneInv, NEW w \in Workers,
         \/ FinishSell(w) \/ FinishAccept(w) \/ FinishPayment(w) \/ FinishReceipt(w)
         \/ FinishCancel(w) \/ FinishDispute(w) \/ FinishResolve(w)
  PROVE  AloneInv'
  <1>1. ASSUME NEW op, NEW row, Finish(w, op, row), row.status # "ABSENT"
        PROVE  AloneInv'
    <2>1. /\ orders' = [orders EXCEPT ![req[w].order] = row]
          /\ req'[w] = Idle
      BY <1>1 DEF Finish, TypeOK
    <2>2. \A o \in Orders : orders'[o] = orders[o] \/ orders'[o].status # "ABSENT"
      BY <1>1, <2>1 DEF TypeOK
    <2> QED
      BY <2>1, <2>2, AloneEnds
  <1>2. ASSUME NEW op, NEW status \in Statuses, Finish(w, op, SetStatus(w, status))
        PROVE  AloneInv'
    <2>1. orders[req[w].order] \in Order
      BY <1>2, BusyType DEF Finish, TypeOK, Request
    <2>2. SetStatus(w, status).status # "ABSENT"
      BY <2>1, StatusRow DEF SetStatus, OnlyStatus
    <2> QED
      BY <1>1, <1>2, <2>2
  <1>3. CASE FinishSell(w)
    <2>1. req[w].row \in Order
      BY <1>3, BusyType DEF FinishSell, Finish, Request
    <2>2. Reserved(req[w]).status # "ABSENT"
      BY <2>1 DEF Reserved, Order
    <2> QED
      BY <1>1, <1>3, <2>2 DEF FinishSell
  <1>4. CASE FinishAccept(w)
    <2>1. orders[req[w].order] \in Order
      BY <1>4, BusyType DEF FinishAccept, Finish, TypeOK, Request
    <2>2. Accepted(orders[req[w].order], req[w]).status # "ABSENT"
      BY <2>1 DEF Accepted, Order
    <2> QED
      BY <1>1, <1>4, <2>2 DEF FinishAccept
  <1> QED
    BY <1>2, <1>3, <1>4
       DEF FinishPayment, FinishReceipt, FinishCancel, FinishDispute, FinishResolve, Statuses

LEMMA AloneStep ==
  ASSUME OneAtATime, TypeOK, AloneInv, [Next]_vars
  PROVE  AloneInv'
  <1>1. ASSUME NEW w \in Workers, NEW o \in Orders, NEW u \in Users,
               NEW a \in Amounts, NEW r \in Rates, BeginSell(w, o, u, a, r)
        PROVE  AloneInv'
    <2>1. orders[o] = NoOrder
      BY <1>1 DEF BeginSell, Fresh, AloneInv
    <2>2. NewOrder("SELL", u, a, r) = NewOrder("SELL", u, a, NewOrder("SELL", u, a, r).rate)
      BY DEF NewOrder
    <2> QED
      BY <1>1, <2>1, <2>2, AloneBegin DEF BeginSell
  <1>2. ASSUME NEW w \in Workers, NEW o \in Orders, NEW u \in Users,
               NEW a \in Amounts, BeginAccept(w, o, u, a)
        PROVE  AloneInv'
    BY <1>2, AloneBegin DEF BeginAccept
  <1>3. ASSUME NEW w \in Workers, NEW o \in Orders, NEW u \in Users,
               \/ BeginPayment(w, o, u) \/ BeginReceipt(w, o, u)
               \/ BeginCancel(w, o, u) \/ BeginDispute(w, o, u)
        PROVE  AloneInv'
    <2>1. CASE BeginPayment(w, o, u)
      BY <2>1, AloneBegin DEF BeginPayment
    <2>2. CASE BeginReceipt(w, o, u)
      BY <2>2, AloneBegin DEF BeginReceipt
    <2>3. CASE BeginCancel(w, o, u)
      <3>1. /\ CanTransition(orders[o].status, "CANCELLED")
            /\ u \in {orders[o].seller, orders[o].buyer}
            /\ Begin(w, "cancel", o, orders[o], u, u, orders[o].reserved)
        BY <2>3 DEF BeginCancel
      <3> QED
        BY <3>1, AloneBegin, SMTT(30)
    <2>4. CASE BeginDispute(w, o, u)
      BY <2>4, AloneBegin DEF BeginDispute
    <2> QED
      BY <1>3, <2>1, <2>2, <2>3, <2>4
  <1>4. ASSUME NEW w \in Workers, NEW o \in Orders, NEW u \in Users, BeginResolve(w, o, u)
        PROVE  AloneInv'
    <2>1. CanTransition(orders[o].status, "RESOLVED")
      BY <1>4 DEF BeginResolve, CanTransition, STATE_TRANSITIONS, Statuses
    <2>2. Begin(w, "resolve", o, orders[o], u, u, orders[o].reserved)
      BY <1>4 DEF BeginResolve
    <2> QED
      BY <2>1, <2>2, AloneBegin
  <1>5. ASSUME NEW w \in Workers, NEW o \in Orders, NEW u \in Users,
               NEW a \in Amounts, NEW r \in Rates, CreateBuy(w, o, u, a, r)
        PROVE  AloneInv'
    <2>1. req'[w] = Idle
      BY <1>5 DEF CreateBuy
    <2>2. \A o1 \in Orders : orders'[o1] = orders[o1] \/ orders'[o1].status # "ABSENT"
      BY <1>5 DEF CreateBuy, Created, NewOrder, TypeOK
    <2> QED
      BY <2>1, <2>2, AloneEnds
  <1>6. ASSUME NEW w \in Workers, NEW o \in Orders, HideOrder(w, o)
        PROVE  AloneInv'
    <2>1. req'[w] = Idle
      BY <1>6 DEF HideOrder
    <2>2. \A o1 \in Orders : orders'[o1] = orders[o1] \/ orders'[o1].status # "ABSENT"
      BY <1>6 DEF HideOrder, TypeOK, Order
    <2> QED
      BY <2>1, <2>2, AloneEnds
  <1>7. ASSUME NEW w \in Workers, Refuse(w) \/ Abort(w)
        PROVE  AloneInv'
    <2>1. req'[w] = Idle /\ orders' = orders
      BY <1>7 DEF Refuse, Abort, TypeOK
    <2> QED
      BY <2>1, AloneEnds
  <1>8. CASE UNCHANGED vars
    <2>1. /\ orders' = orders /\ req' = req /\ balance' = balance
          /\ blocked' = blocked
      BY <1>8 DEF vars
    <2>2. ASSUME NEW w \in Workers
          PROVE  AloneOK(w)'
      <3>1. FundsSuffice(req[w])' <=> FundsSuffice(req[w])
        BY <2>1 DEF FundsSuffice, CanReserve, CanRelease
      <3>2. AloneOK(w)
        BY DEF AloneInv
      <3> QED
        BY <2>1, <3>1, <3>2 DEF AloneOK
    <2> QED
      BY <2>1, <2>2 DEF AloneInv, Committed
  <1> QED
    BY <1>1, <1>2, <1>3, <1>4, <1>5, <1>6, <1>7, <1>8, AloneInner, AloneFinish
       DEF Next, Handle

LEMMA AloneInit == Init => AloneInv
  BY DEF Init, AloneInv, AloneOK

-----------------------------------------------------------------------------
(* The refinement: the steps of a handler that the lifecycle does not see. *)

\* The vocabulary the two specifications share.
LEMMA SharedWords ==
  /\ Lifecycle!NoOrder = NoOrder
  /\ \A type, u, a, r : Lifecycle!NewOrder(type, u, a, r) = NewOrder(type, u, a, r)
  /\ \A from, to : Lifecycle!CanTransition(from, to) <=> CanTransition(from, to)
  BY DEF Lifecycle!NoOrder, NoOrder, Lifecycle!NewOrder, NewOrder,
         Lifecycle!CanTransition, CanTransition, Lifecycle!Statuses, Statuses,
         Lifecycle!STATE_TRANSITIONS, STATE_TRANSITIONS

LEMMA NothingSeen ==
  ASSUME Free' = Free, Held' = Held, Trades' = Trades, orders' = orders,
         disputes' = disputes
  PROVE  UNCHANGED Lifecycle!lifecycleVars
  BY DEF Lifecycle!lifecycleVars, Free, Held, Trades

\* No T2 has moved money, before or after, and the accounts stay.
LEMMA AccountsStay ==
  ASSUME OneAtATime, AccountsSeen, AccountsSeen', NEW w \in Workers,
         req[w].phase # "moved", req'[w].phase # "moved",
         balance' = balance, blocked' = blocked, totalTrades' = totalTrades
  PROVE  Free' = Free /\ Held' = Held /\ Trades' = Trades
  BY DEF AccountsSeen

\* An update and its inverse.
LEMMA Undone ==
  ASSUME NEW f \in [Users -> Int], NEW u \in Users, NEW d \in Int
  PROVE  /\ [[f EXCEPT ![u] = @ + d] EXCEPT ![u] = @ - d] = f
         /\ [[f EXCEPT ![u] = @ - d] EXCEPT ![u] = @ + d] = f
  <1>1. (f[u] + d) - d = f[u] /\ (f[u] - d) + d = f[u]
    OBVIOUS
  <1> QED
    BY <1>1

\* What T2 moves, the mapping moves back.
LEMMA MoveUnseen ==
  ASSUME TypeOK, DealInv, AccountsSeen, AccountsSeen', NEW w \in Workers, FundsMove(w)
  PROVE  UNCHANGED Lifecycle!lifecycleVars
  <1>1. /\ req[w] # Idle /\ req[w] \in Request /\ req[w].phase = "read"
        /\ req[w].op \in MovingOps
    BY PhaseType DEF FundsMove, DealInv, HandlerOK, CallsT2
  <1>2. /\ req'[w] = [req[w] EXCEPT !.phase = "moved"] /\ orders' = orders
        /\ disputes' = disputes
    BY DEF FundsMove, TypeOK
  <1>3. /\ req'[w].op = req[w].op /\ req'[w].account = req[w].account
        /\ req'[w].amount = req[w].amount /\ req'[w].phase = "moved"
    BY <1>1, <1>2 DEF Request
  <1>4. PICK u \in Users, a \in Int : u = req[w].account /\ a = req[w].amount
    BY <1>1 DEF Request
  <1>5. /\ balance \in [Users -> Int] /\ blocked \in [Users -> Int]
        /\ totalTrades \in [Users -> Int]
    BY DEF TypeOK, AccountsTypeOK
  <1>6. Free = balance /\ Held = blocked /\ Trades = totalTrades
    BY <1>1 DEF AccountsSeen
  <1>7. /\ Free' = [balance' EXCEPT ![u] = @ + TakenFromFree(w)']
        /\ Held' = [blocked' EXCEPT ![u] = @ - AddedToBlocked(w)']
        /\ Trades' = [totalTrades' EXCEPT ![u] = @ - TradeCounted(w)']
    BY <1>3, <1>4 DEF AccountsSeen
  <1>8. CASE req[w].op \in {"sell", "accept"}
    <2>1. /\ balance' = [balance EXCEPT ![u] = @ - a]
          /\ blocked' = [blocked EXCEPT ![u] = @ + a]
          /\ totalTrades' = totalTrades
      BY <1>4, <1>8 DEF FundsMove, ReserveFunds
    <2>2. TakenFromFree(w)' = a /\ AddedToBlocked(w)' = a /\ TradeCounted(w)' = 0
      BY <1>3, <1>4, <1>8 DEF TakenFromFree, AddedToBlocked, TradeCounted
    <2>3. Free' = balance /\ Held' = blocked
      BY <1>5, <1>7, <2>1, <2>2, Undone
    <2>4. Trades' = totalTrades
      BY <1>5, <1>7, <2>1, <2>2
    <2> QED
      BY <1>2, <1>6, <2>3, <2>4, NothingSeen
  <1>9. CASE req[w].op \in {"cancel", "resolve"}
    <2>1. /\ balance' = [balance EXCEPT ![u] = @ + a]
          /\ blocked' = [blocked EXCEPT ![u] = @ - a]
          /\ totalTrades' = totalTrades
      BY <1>4, <1>9 DEF FundsMove, ReleaseFunds
    <2>2. TakenFromFree(w)' = -a /\ AddedToBlocked(w)' = -a /\ TradeCounted(w)' = 0
      BY <1>3, <1>4, <1>9 DEF TakenFromFree, AddedToBlocked, TradeCounted
    <2>3. Free' = balance
      BY <1>5, <1>7, <2>1, <2>2
    <2>4. Held' = blocked
      BY <1>5, <1>7, <2>1, <2>2
    <2>5. Trades' = totalTrades
      BY <1>5, <1>7, <2>1, <2>2
    <2> QED
      BY <1>2, <1>6, <2>3, <2>4, <2>5, NothingSeen
  <1>10. CASE req[w].op = "receipt"
    <2>1. /\ balance' = balance
          /\ blocked' = [blocked EXCEPT ![u] = @ - a]
          /\ totalTrades' = [totalTrades EXCEPT ![u] = @ + 1]
      BY <1>4, <1>10 DEF FundsMove, TransferToSeller
    <2>2. TakenFromFree(w)' = 0 /\ AddedToBlocked(w)' = -a /\ TradeCounted(w)' = 1
      BY <1>3, <1>4, <1>10 DEF TakenFromFree, AddedToBlocked, TradeCounted
    <2>3. Free' = balance
      BY <1>5, <1>7, <2>1, <2>2
    <2>4. Held' = blocked
      BY <1>5, <1>7, <2>1, <2>2
    <2>5. Trades' = totalTrades
      BY <1>5, <1>7, <2>1, <2>2, Undone
    <2> QED
      BY <1>2, <1>6, <2>3, <2>4, <2>5, NothingSeen
  <1> QED
    BY <1>1, <1>8, <1>9, <1>10 DEF MovingOps

-----------------------------------------------------------------------------
(* The refinement: T1's commit is the lifecycle's step.                    *)

LEMMA HoldSeen ==
  ASSUME NEW u \in Users, NEW a \in Int, TypeOK,
         Free = [balance EXCEPT ![u] = @ + a], Held = [blocked EXCEPT ![u] = @ - a],
         balance[u] >= 0, Free' = balance, Held' = blocked
  PROVE  Lifecycle!Hold(u, a)
  <1>1. balance \in [Users -> Int] /\ blocked \in [Users -> Int]
    BY DEF TypeOK, AccountsTypeOK
  <1>2. Free[u] >= a
    BY <1>1
  <1>3. Free' = [Free EXCEPT ![u] = @ - a] /\ Held' = [Held EXCEPT ![u] = @ + a]
    BY <1>1, Undone
  <1> QED
    BY <1>2, <1>3 DEF Lifecycle!Hold, Free, Held

LEMMA GiveBackSeen ==
  ASSUME NEW u \in Users, NEW a \in Int, TypeOK,
         Free = [balance EXCEPT ![u] = @ - a], Held = [blocked EXCEPT ![u] = @ + a],
         blocked[u] >= 0, Free' = balance, Held' = blocked
  PROVE  Lifecycle!GiveBack(u, a)
  <1>1. balance \in [Users -> Int] /\ blocked \in [Users -> Int]
    BY DEF TypeOK, AccountsTypeOK
  <1>2. Held[u] >= a
    BY <1>1
  <1>3. Free' = [Free EXCEPT ![u] = @ + a] /\ Held' = [Held EXCEPT ![u] = @ - a]
    BY <1>1, Undone
  <1> QED
    BY <1>2, <1>3 DEF Lifecycle!GiveBack, Free, Held

LEMMA ToSeen ==
  ASSUME NEW o \in Orders, NEW status, CanTransition(orders[o].status, status),
         orders' = [orders EXCEPT ![o] = [orders[o] EXCEPT !.status = status]]
  PROVE  Lifecycle!To(o, status)
  BY SharedWords DEF Lifecycle!To

\* The invariants the refinement rests on.
RefinementInv == TypeOK /\ OrdersKnown /\ DealInv /\ AloneInv /\ AccountsSeen

\* What a commit that leaves the accounts alone finds and leaves.
LEMMA CommitSeen ==
  ASSUME RefinementInv, AccountsSeen', NEW w \in Workers, NEW op, NEW row,
         Finish(w, op, row), NEW o, o = req[w].order
  PROVE  /\ req[w] # Idle /\ req[w] \in Request /\ req[w].op = op
         /\ o \in Orders /\ orders[o] \in Order
         /\ orders' = [orders EXCEPT ![o] = row]
         /\ OrderOK(o) /\ HandlerOK(w) /\ AloneOK(w) /\ op \in Requests
         /\ Free' = balance' /\ Held' = blocked' /\ Trades' = totalTrades'
         /\ CallsT2(req[w]) => req[w].phase = "moved"
         /\ ~CallsT2(req[w]) =>
              Free = balance /\ Held = blocked /\ Trades = totalTrades
  <1>1. /\ req[w] # Idle /\ req[w] \in Request /\ req[w].op = op
        /\ o \in Orders /\ orders[o] \in Order
        /\ orders' = [orders EXCEPT ![o] = row]
        /\ OrderOK(o) /\ HandlerOK(w) /\ req'[w] = Idle
        /\ CallsT2(req[w]) => req[w].phase = "moved"
    BY FinishFacts DEF RefinementInv
  <1>2. AloneOK(w) /\ op \in Requests
    BY <1>1 DEF RefinementInv, AloneInv, AloneOK
  <1>3. req'[w].phase # "moved"
    BY <1>1 DEF Idle
  <1>4. Free' = balance' /\ Held' = blocked' /\ Trades' = totalTrades'
    BY <1>3 DEF AccountsSeen
  <1>5. ~CallsT2(req[w]) => req[w].phase # "moved"
    BY <1>1 DEF Finish, ReadyToCommit
  <1>6. ~CallsT2(req[w]) =>
          Free = balance /\ Held = blocked /\ Trades = totalTrades
    BY <1>5 DEF RefinementInv, AccountsSeen
  <1> QED
    BY <1>1, <1>2, <1>4, <1>6

\* What the mapping shows of a user whose T2 has moved money.
LEMMA MovedSeen ==
  ASSUME RefinementInv, NEW w \in Workers, req[w].phase = "moved",
         NEW u, u = req[w].account, NEW a, a = req[w].amount
  PROVE  /\ u \in Users /\ a \in Int
         /\ req[w].op \in {"sell", "accept"} =>
              /\ Free = [balance EXCEPT ![u] = @ + a]
              /\ Held = [blocked EXCEPT ![u] = @ - a]
              /\ Trades = totalTrades /\ balance[u] >= 0
         /\ req[w].op \in {"cancel", "resolve"} =>
              /\ Free = [balance EXCEPT ![u] = @ - a]
              /\ Held = [blocked EXCEPT ![u] = @ + a]
              /\ Trades = totalTrades /\ blocked[u] >= 0
         /\ req[w].op = "receipt" =>
              /\ Free = balance
              /\ Held = [blocked EXCEPT ![u] = @ + a]
              /\ Trades = [totalTrades EXCEPT ![u] = @ - 1]
  <1>1. req[w] # Idle /\ u \in Users /\ a \in Int
    BY PhaseType DEF RefinementInv, Request
  <1>2. /\ balance \in [Users -> Int] /\ blocked \in [Users -> Int]
        /\ totalTrades \in [Users -> Int]
    BY DEF RefinementInv, TypeOK, AccountsTypeOK
  <1>3. /\ Free = [balance EXCEPT ![u] = @ + TakenFromFree(w)]
        /\ Held = [blocked EXCEPT ![u] = @ - AddedToBlocked(w)]
        /\ Trades = [totalTrades EXCEPT ![u] = @ - TradeCounted(w)]
    BY DEF RefinementInv, AccountsSeen
  <1>4. /\ req[w].op \in {"sell", "accept"} => balance[u] >= 0
        /\ req[w].op \in {"cancel", "resolve"} => blocked[u] >= 0
    BY <1>1 DEF RefinementInv, AloneInv, AloneOK
  <1>5. CASE req[w].op \in {"sell", "accept"}
    <2>1. TakenFromFree(w) = a /\ AddedToBlocked(w) = a /\ TradeCounted(w) = 0
      BY <1>5 DEF TakenFromFree, AddedToBlocked, TradeCounted
    <2>2. Trades = totalTrades
      BY <1>1, <1>2, <1>3, <2>1
    <2> QED
      BY <1>1, <1>3, <1>4, <1>5, <2>1, <2>2
  <1>6. CASE req[w].op \in {"cancel", "resolve"}
    <2>1. TakenFromFree(w) = -a /\ AddedToBlocked(w) = -a /\ TradeCounted(w) = 0
      BY <1>6 DEF TakenFromFree, AddedToBlocked, TradeCounted
    <2>2. Trades = totalTrades
      BY <1>1, <1>2, <1>3, <2>1
    <2>3. Free = [balance EXCEPT ![u] = @ - a]
      BY <1>1, <1>2, <1>3, <2>1
    <2>4. Held = [blocked EXCEPT ![u] = @ + a]
      <3>1. Held = [blocked EXCEPT ![u] = @ - (-a)]
        BY <1>3, <2>1
      <3>2. a \in Int
        BY <1>1
      <3>3. [blocked EXCEPT ![u] = @ - (-a)] = [blocked EXCEPT ![u] = @ + a]
        <4>1. blocked[u] \in Int
          BY <1>1, <1>2
        <4>2. blocked[u] - (-a) = blocked[u] + a
          BY <3>2, <4>1
        <4> QED
          BY <4>2
      <3> QED
        BY <3>1, <3>3
    <2> QED
      BY <1>1, <1>4, <1>6, <2>2, <2>3, <2>4
  <1>7. CASE req[w].op = "receipt"
    <2>1. TakenFromFree(w) = 0 /\ AddedToBlocked(w) = -a /\ TradeCounted(w) = 1
      BY <1>7 DEF TakenFromFree, AddedToBlocked, TradeCounted
    <2>2. Free = balance
      BY <1>1, <1>2, <1>3, <2>1
    <2>3. Held = [blocked EXCEPT ![u] = @ + a]
      <3>1. Held = [blocked EXCEPT ![u] = @ - (-a)]
        BY <1>3, <2>1
      <3>2. a \in Int
        BY <1>1
      <3>3. [blocked EXCEPT ![u] = @ - (-a)] = [blocked EXCEPT ![u] = @ + a]
        <4>1. blocked[u] \in Int
          BY <1>1, <1>2
        <4>2. blocked[u] - (-a) = blocked[u] + a
          BY <3>2, <4>1
        <4> QED
          BY <4>2
      <3> QED
        BY <3>1, <3>3
    <2> QED
      BY <1>1, <1>3, <1>7, <2>1, <2>2, <2>3
  <1>8. CASE req[w].op \notin {"sell", "accept", "cancel", "resolve", "receipt"}
    BY <1>1, <1>8
  <1> QED
    BY <1>5, <1>6, <1>7, <1>8

LEMMA SellSeen ==
  ASSUME RefinementInv, AccountsSeen', NEW w \in Workers, FinishSell(w)
  PROVE  Lifecycle!Next
  <1>1. PICK o, u, a, r :
          o = req[w].order /\ u = req[w].account /\ a = req[w].amount
            /\ r = req[w].row.rate
    OBVIOUS
  <1>2. PICK row : row = Reserved(req[w])
    OBVIOUS
  <1>3. /\ Finish(w, "sell", row) /\ balance' = balance /\ blocked' = blocked
        /\ totalTrades' = totalTrades /\ disputes' = disputes
    BY <1>2 DEF FinishSell, accountVars
  <1>4. /\ req[w] # Idle /\ req[w].op = "sell" /\ o \in Orders /\ "sell" \in Requests
        /\ orders' = [orders EXCEPT ![o] = row] /\ HandlerOK(w) /\ AloneOK(w)
        /\ Free' = balance /\ Held' = blocked /\ Trades' = totalTrades
    BY <1>1, <1>3, CommitSeen
  <1>5. req[w].phase = "moved"
    BY <1>3, <1>4, CommitSeen DEF CallsT2, MovingOps
  <1>6. orders[o] = NoOrder /\ req[w].row = NewOrder("SELL", u, a, r)
    BY <1>1, <1>4 DEF AloneOK
  <1>7. /\ u \in Users /\ a \in Int /\ Free = [balance EXCEPT ![u] = @ + a]
        /\ Held = [blocked EXCEPT ![u] = @ - a] /\ Trades = totalTrades
        /\ balance[u] >= 0
    BY <1>1, <1>4, <1>5, MovedSeen
  <1>8. a \in Amounts /\ r \in Rates
    <2>1. req[w].row.amount = a
      BY <1>6 DEF NewOrder
    <2> QED
      BY <1>1, <1>4, <2>1 DEF RefinementInv, OrdersKnown
  <1>9. Lifecycle!Hold(u, a)
    BY <1>4, <1>7, HoldSeen DEF RefinementInv
  <1>10. row = [NewOrder("SELL", u, a, r) EXCEPT !.status = "RESERVED", !.reserved = a]
    BY <1>1, <1>2, <1>6 DEF Reserved
  <1>11. Lifecycle!Sell(o, u, a, r)
    BY <1>3, <1>4, <1>6, <1>7, <1>9, <1>10, SharedWords DEF Lifecycle!Sell, Trades
  <1> QED
    BY <1>4, <1>7, <1>8, <1>11 DEF Lifecycle!Next

LEMMA AcceptSeen ==
  ASSUME RefinementInv, AccountsSeen', NEW w \in Workers, FinishAccept(w)
  PROVE  Lifecycle!Next
  <1>1. PICK o, u, p :
          o = req[w].order /\ u = req[w].account /\ p = req[w].amount
    OBVIOUS
  <1>2. PICK row : row = Accepted(orders[o], req[w])
    OBVIOUS
  <1>3. /\ Finish(w, "accept", row) /\ balance' = balance /\ blocked' = blocked
        /\ totalTrades' = totalTrades /\ disputes' = disputes
    BY <1>1, <1>2 DEF FinishAccept, accountVars
  <1>4. /\ req[w] # Idle /\ req[w].op = "accept" /\ o \in Orders
        /\ "accept" \in Requests /\ orders[o] \in Order
        /\ orders' = [orders EXCEPT ![o] = row] /\ HandlerOK(w) /\ AloneOK(w)
        /\ Free' = balance /\ Held' = blocked /\ Trades' = totalTrades
    BY <1>1, <1>3, CommitSeen
  <1>5. /\ req[w].phase = "moved" /\ orders[o].type = "SELL" /\ req[w].user = u
        /\ req[w].row = orders[o] /\ CanTransition(orders[o].status, "PAYMENT_PENDING")
    BY <1>1, <1>3, <1>4, CommitSeen DEF HandlerOK, AcceptOK, CallsT2, MovingOps, AloneOK
  <1>6. PICK a \in Amounts : p = a * orders[o].rate
    BY <1>1, <1>4, <1>5 DEF AloneOK
  <1>7. /\ u \in Users /\ p \in Int /\ Free = [balance EXCEPT ![u] = @ + p]
        /\ Held = [blocked EXCEPT ![u] = @ - p] /\ Trades = totalTrades
        /\ balance[u] >= 0
    BY <1>1, <1>4, <1>5, MovedSeen
  <1>8. Lifecycle!Hold(u, p)
    BY <1>4, <1>7, HoldSeen DEF RefinementInv
  <1>9. row = [orders[o] EXCEPT !.buyer = u, !.status = "PAYMENT_PENDING",
                                !.reserved = orders[o].reserved + p]
    BY <1>1, <1>2, <1>5 DEF Accepted
  <1>10. orders' = [orders EXCEPT ![o].status = "PAYMENT_PENDING", ![o].buyer = u,
                                  ![o].reserved = @ + p]
    BY <1>4, <1>9 DEF RefinementInv, TypeOK, Order
  <1>11. Lifecycle!Accept(o, u, a)
    BY <1>3, <1>4, <1>5, <1>6, <1>7, <1>8, <1>10, SharedWords
       DEF Lifecycle!Accept, Lifecycle!Hold, Trades
  <1> QED
    BY <1>4, <1>7, <1>11 DEF Lifecycle!Next

LEMMA PaymentSeen ==
  ASSUME RefinementInv, AccountsSeen', NEW w \in Workers, FinishPayment(w)
  PROVE  Lifecycle!Next
  <1>1. PICK o, u : o = req[w].order /\ u = req[w].user
    OBVIOUS
  <1>2. PICK row : row = [orders[o] EXCEPT !.status = "PAID"]
    OBVIOUS
  <1>3. /\ Finish(w, "payment", row) /\ balance' = balance /\ blocked' = blocked
        /\ totalTrades' = totalTrades /\ disputes' = disputes
    BY <1>1, <1>2 DEF FinishPayment, SetStatus, accountVars
  <1>4. /\ req[w] # Idle /\ req[w] \in Request /\ req[w].op = "payment"
        /\ o \in Orders /\ "payment" \in Requests
        /\ orders' = [orders EXCEPT ![o] = row] /\ AloneOK(w)
        /\ Free' = Free /\ Held' = Held /\ Trades' = Trades
    BY <1>1, <1>3, CommitSeen DEF CallsT2, MovingOps
  <1>5. /\ orders[o].seller = u /\ CanTransition(orders[o].status, "PAID")
        /\ u \in Users
    BY <1>1, <1>4 DEF AloneOK, Request
  <1>6. Lifecycle!To(o, "PAID")
    BY <1>2, <1>4, <1>5, ToSeen
  <1>7. Lifecycle!ConfirmPayment(o, u)
    BY <1>3, <1>4, <1>5, <1>6 DEF Lifecycle!ConfirmPayment, Free, Held, Trades
  <1> QED
    BY <1>4, <1>5, <1>7 DEF Lifecycle!Next

LEMMA DisputeSeen ==
  ASSUME RefinementInv, AccountsSeen', NEW w \in Workers, FinishDispute(w)
  PROVE  Lifecycle!Next
  <1>1. PICK o : o = req[w].order
    OBVIOUS
  <1>2. PICK row : row = [orders[o] EXCEPT !.status = "DISPUTED"]
    OBVIOUS
  <1>3. /\ Finish(w, "dispute", row) /\ disputes[o] = "NONE"
        /\ disputes' = [disputes EXCEPT ![o] = "OPEN"]
        /\ balance' = balance /\ blocked' = blocked /\ totalTrades' = totalTrades
    BY <1>1, <1>2 DEF FinishDispute, SetStatus, accountVars
  <1>4. /\ req[w] # Idle /\ req[w].op = "dispute"
        /\ o \in Orders /\ "dispute" \in Requests
        /\ orders' = [orders EXCEPT ![o] = row] /\ AloneOK(w)
        /\ Free' = Free /\ Held' = Held /\ Trades' = Trades
    BY <1>1, <1>3, CommitSeen DEF CallsT2, MovingOps
  <1>5. CanTransition(orders[o].status, "DISPUTED")
    BY <1>1, <1>4 DEF AloneOK
  <1>6. Lifecycle!To(o, "DISPUTED")
    BY <1>2, <1>4, <1>5, ToSeen
  <1>7. Lifecycle!Dispute(o)
    BY <1>3, <1>4, <1>6 DEF Lifecycle!Dispute, Free, Held, Trades
  <1> QED
    BY <1>4, <1>7 DEF Lifecycle!Next

LEMMA CancelSeen ==
  ASSUME RefinementInv, AccountsSeen', NEW w \in Workers, FinishCancel(w)
  PROVE  Lifecycle!Next
  <1>1. PICK o, u, p :
          o = req[w].order /\ u = req[w].account /\ p = req[w].amount
    OBVIOUS
  <1>2. PICK row : row = [orders[o] EXCEPT !.status = "CANCELLED"]
    OBVIOUS
  <1>3. /\ Finish(w, "cancel", row) /\ balance' = balance /\ blocked' = blocked
        /\ totalTrades' = totalTrades /\ disputes' = disputes
    BY <1>1, <1>2 DEF FinishCancel, SetStatus, accountVars
  <1>4. /\ req[w] # Idle /\ req[w] \in Request /\ req[w].op = "cancel"
        /\ o \in Orders /\ "cancel" \in Requests
        /\ orders' = [orders EXCEPT ![o] = row] /\ AloneOK(w)
        /\ Free' = balance /\ Held' = blocked /\ Trades' = totalTrades
        /\ p > 0 => req[w].phase = "moved"
        /\ ~(p > 0) => Free = balance /\ Held = blocked /\ Trades = totalTrades
    BY <1>1, <1>3, CommitSeen DEF CallsT2, MovingOps
  <1>5. /\ u \in {orders[o].seller, orders[o].buyer}
        /\ CanTransition(orders[o].status, "CANCELLED")
        /\ u \in Users /\ p = orders[o].reserved /\ p \in Int
    BY <1>1, <1>4 DEF AloneOK, Request
  <1>6. Lifecycle!To(o, "CANCELLED")
    BY <1>2, <1>4, <1>5, ToSeen
  <1>7. CASE p > 0
    <2>1. /\ Free = [balance EXCEPT ![u] = @ - p]
          /\ Held = [blocked EXCEPT ![u] = @ + p] /\ Trades = totalTrades
          /\ blocked[u] >= 0
      BY <1>1, <1>4, <1>7, MovedSeen
    <2>2. Lifecycle!GiveBack(u, p)
      BY <1>4, <1>5, <2>1, GiveBackSeen DEF RefinementInv
    <2>3. Lifecycle!Cancel(o, u)
      BY <1>3, <1>4, <1>5, <1>6, <1>7, <2>1, <2>2 DEF Lifecycle!Cancel, Lifecycle!GiveBack, Trades
    <2> QED
      BY <1>4, <1>5, <2>3 DEF Lifecycle!Next
  <1>8. CASE ~(p > 0)
    <2>1. orders[o].reserved <= 0
      BY <1>5, <1>8
    <2>2. Lifecycle!CancelUnfunded(o, u)
      BY <1>3, <1>4, <1>5, <1>6, <1>8, <2>1
         DEF Lifecycle!CancelUnfunded, Free, Held, Trades
    <2> QED
      BY <1>4, <1>5, <2>2 DEF Lifecycle!Next
  <1> QED
    BY <1>7, <1>8

LEMMA ResolveSeen ==
  ASSUME RefinementInv, AccountsSeen', NEW w \in Workers, FinishResolve(w)
  PROVE  Lifecycle!Next
  <1>1. PICK o, u, p :
          o = req[w].order /\ u = req[w].account /\ p = req[w].amount
    OBVIOUS
  <1>2. PICK row : row = [orders[o] EXCEPT !.status = "RESOLVED"]
    OBVIOUS
  <1>3. /\ Finish(w, "resolve", row) /\ balance' = balance /\ blocked' = blocked
        /\ totalTrades' = totalTrades
        /\ disputes' = [disputes EXCEPT ![o] = "RESOLVED"]
    BY <1>1, <1>2 DEF FinishResolve, SetStatus, accountVars
  <1>4. /\ req[w] # Idle /\ req[w] \in Request /\ req[w].op = "resolve"
        /\ o \in Orders /\ "resolve" \in Requests
        /\ orders' = [orders EXCEPT ![o] = row] /\ AloneOK(w) /\ HandlerOK(w)
        /\ Free' = balance /\ Held' = blocked /\ Trades' = totalTrades
        /\ req[w].phase = "moved"
    BY <1>1, <1>3, CommitSeen DEF CallsT2, MovingOps
  <1>5. /\ CanTransition(orders[o].status, "RESOLVED")
        /\ u \in Users /\ p = orders[o].reserved /\ p \in Int
    BY <1>1, <1>4 DEF AloneOK, Request
  <1>7. Lifecycle!To(o, "RESOLVED")
    BY <1>2, <1>4, <1>5, ToSeen
  <1>8. /\ Free = [balance EXCEPT ![u] = @ - p]
        /\ Held = [blocked EXCEPT ![u] = @ + p] /\ Trades = totalTrades
        /\ blocked[u] >= 0
    BY <1>1, <1>4, MovedSeen
  <1>9. Lifecycle!GiveBack(u, p)
    BY <1>4, <1>5, <1>8, GiveBackSeen DEF RefinementInv
  <1>10. Lifecycle!Resolve(o, u)
    BY <1>3, <1>4, <1>5, <1>7, <1>8, <1>9 DEF Lifecycle!Resolve, Lifecycle!GiveBack, Trades
  <1> QED
    BY <1>4, <1>5, <1>10 DEF Lifecycle!Next

LEMMA ReceiptSeen ==
  ASSUME RefinementInv, AccountsSeen', NEW w \in Workers, FinishReceipt(w)
  PROVE  Lifecycle!Next
  <1>1. PICK o, s, u, p, d :
          /\ o = req[w].order /\ s = req[w].account /\ u = req[w].user
          /\ p = req[w].amount /\ d = req[w].row.amount * req[w].row.rate
    OBVIOUS
  <1>2. PICK row : row = [orders[o] EXCEPT !.status = "COMPLETED"]
    OBVIOUS
  <1>3. /\ Finish(w, "receipt", row) /\ balance' = balance
        /\ blocked' = [blocked EXCEPT ![u] = @ - d]
        /\ totalTrades' = [[totalTrades EXCEPT ![req[w].row.seller] = @ + 1]
                             EXCEPT ![u] = @ + 1]
        /\ disputes' = disputes
    BY <1>1, <1>2 DEF FinishReceipt, SetStatus
  <1>4. /\ req[w] # Idle /\ req[w] \in Request /\ req[w].op = "receipt"
        /\ o \in Orders /\ "receipt" \in Requests /\ orders[o] \in Order
        /\ orders' = [orders EXCEPT ![o] = row] /\ AloneOK(w) /\ HandlerOK(w)
        /\ Free' = balance /\ Held' = blocked' /\ Trades' = totalTrades'
    BY <1>1, <1>3, CommitSeen
  <1>5. /\ req[w].row = orders[o] /\ orders[o].buyer = u
        /\ CanTransition(orders[o].status, "CONFIRMED")
        /\ s = orders[o].seller /\ p = orders[o].amount
        /\ s \in Users /\ u \in Users /\ p \in Int /\ d = p * orders[o].rate
    BY <1>1, <1>4 DEF AloneOK, HandlerOK, ReceiptOK, Request
  <1>6. req[w].phase = "moved"
    BY <1>1, <1>3, <1>5, CommitSeen DEF CallsT2, MovingOps
  <1>7. /\ Free = balance /\ Held = [blocked EXCEPT ![s] = @ + p]
        /\ Trades = [totalTrades EXCEPT ![s] = @ - 1]
    BY <1>1, <1>4, <1>6, MovedSeen
  <1>8. /\ blocked \in [Users -> Int] /\ totalTrades \in [Users -> Int]
        /\ orders[o].rate \in Int /\ d \in Int
    <2>1. /\ blocked \in [Users -> Int] /\ totalTrades \in [Users -> Int]
          /\ orders[o].rate \in Int
      BY <1>4 DEF RefinementInv, TypeOK, AccountsTypeOK, Order
    <2> QED
      BY <1>5, <2>1, ProductType
  <1>9. Held' = [v \in Users |->
                   Held[v] - (IF v = s THEN p ELSE 0) - (IF v = u THEN d ELSE 0)]
    <2>1. \A v \in Users : blocked'[v] = blocked[v] - (IF v = u THEN d ELSE 0)
      BY <1>3, <1>5, <1>8
    <2>2. \A v \in Users : Held[v] = blocked[v] + (IF v = s THEN p ELSE 0)
      BY <1>5, <1>7, <1>8
    <2>3. ASSUME NEW v \in Users
          PROVE  blocked'[v] =
                   Held[v] - (IF v = s THEN p ELSE 0) - (IF v = u THEN d ELSE 0)
      <3>1. blocked[v] \in Int
        BY <1>8
      <3> QED
        BY <1>5, <1>8, <2>1, <2>2, <3>1
    <2>4. Held' = [v \in Users |-> blocked'[v]]
      BY <1>3, <1>4, <1>8
    <2> QED
      BY <2>3, <2>4
  <1>10. Trades' = [v \in Users |->
                      Trades[v] + (IF v = s THEN 2 ELSE 0) + (IF v = u THEN 1 ELSE 0)]
    <2>1. \A v \in Users : totalTrades'[v] =
            totalTrades[v] + (IF v = s THEN 1 ELSE 0) + (IF v = u THEN 1 ELSE 0)
      BY <1>3, <1>5, <1>8
    <2>2. \A v \in Users : Trades[v] = totalTrades[v] - (IF v = s THEN 1 ELSE 0)
      BY <1>5, <1>7, <1>8
    <2>3. ASSUME NEW v \in Users
          PROVE  totalTrades'[v] =
                   Trades[v] + (IF v = s THEN 2 ELSE 0) + (IF v = u THEN 1 ELSE 0)
      <3>1. totalTrades[v] \in Int
        BY <1>8
      <3> QED
        BY <2>1, <2>2, <3>1
    <2>4. Trades' = [v \in Users |-> totalTrades'[v]]
      BY <1>3, <1>4, <1>8
    <2> QED
      BY <2>3, <2>4
  <1>11. orders' = [orders EXCEPT ![o].status = "COMPLETED"]
    BY <1>2, <1>4
  <1>12. Lifecycle!ConfirmReceipt(o, u)
    <2>1. Held' = [v \in Users |->
                     Held[v] - (IF v = orders[o].seller THEN orders[o].amount ELSE 0)
                       - (IF v = u THEN orders[o].amount * orders[o].rate ELSE 0)]
      BY <1>5, <1>9
    <2>2. Trades' = [v \in Users |->
                       Trades[v] + (IF v = orders[o].seller THEN 2 ELSE 0)
                         + (IF v = u THEN 1 ELSE 0)]
      BY <1>5, <1>10
    <2>3. Free' = Free
      BY <1>4, <1>7
    <2> QED
      BY <1>3, <1>5, <1>11, <2>1, <2>2, <2>3, SharedWords
         DEF Lifecycle!ConfirmReceipt, Free, Held, Trades
  <1> QED
    BY <1>4, <1>5, <1>12 DEF Lifecycle!Next

\* Requests that are one statement of their own.
LEMMA RowSeen ==
  ASSUME OneAtATime, RefinementInv, AccountsSeen', NEW w \in Workers, NEW o \in Orders,
         \/ HideOrder(w, o)
         \/ \E u \in Users, a \in Amounts, r \in Rates : CreateBuy(w, o, u, a, r)
  PROVE  Lifecycle!Next
  <1>1. /\ req[w] = Idle /\ req' = req /\ balance' = balance /\ blocked' = blocked
        /\ totalTrades' = totalTrades /\ disputes' = disputes
    BY DEF HideOrder, CreateBuy, accountVars
  <1>2. Free' = Free /\ Held' = Held /\ Trades' = Trades
    <2>1. req[w].phase # "moved" /\ req'[w].phase # "moved"
      BY <1>1 DEF Idle
    <2> QED
      BY <1>1, <2>1, AccountsStay DEF RefinementInv
  <1>3. CASE HideOrder(w, o)
    <2>1. orders[o] # NoOrder
      BY <1>3 DEF HideOrder, Committed, NoOrder
    <2>2. Lifecycle!Hide(o)
      BY <1>1, <1>2, <1>3, <2>1, SharedWords
         DEF Lifecycle!Hide, HideOrder, Free, Held, Trades
    <2>3. "hide" \in Requests
      BY <1>3 DEF HideOrder
    <2> QED
      BY <2>2, <2>3 DEF Lifecycle!Next
  <1>4. ASSUME NEW u \in Users, NEW a \in Amounts, NEW r \in Rates,
               CreateBuy(w, o, u, a, r)
        PROVE  Lifecycle!Next
    <2>1. orders[o] = NoOrder
      BY <1>4 DEF CreateBuy, Fresh, RefinementInv, AloneInv
    <2>2. orders' = [orders EXCEPT ![o] = NewOrder("BUY", u, a, r)]
      BY <1>4 DEF CreateBuy, Created
    <2>3. Lifecycle!Buy(o, u, a, r)
      BY <1>1, <1>2, <2>1, <2>2, SharedWords DEF Lifecycle!Buy, Free, Held, Trades
    <2>4. "buy" \in Requests
      BY <1>4 DEF CreateBuy
    <2> QED
      BY <2>3, <2>4 DEF Lifecycle!Next
  <1> QED
    BY <1>3, <1>4

\* The other steps move no money and write no order.
LEMMA QuietUnseen ==
  ASSUME OneAtATime, RefinementInv, AccountsSeen', NEW w \in Workers,
         req'[w].phase # "moved", req[w].phase # "moved",
         UNCHANGED <<accountVars, orders, disputes>>
  PROVE  UNCHANGED Lifecycle!lifecycleVars
  <1>1. Free' = Free /\ Held' = Held /\ Trades' = Trades
    BY AccountsStay DEF RefinementInv, accountVars
  <1> QED
    BY <1>1, NothingSeen

LEMMA BeginUnseen ==
  ASSUME OneAtATime, RefinementInv, AccountsSeen', NEW w \in Workers,
         NEW op, NEW o, NEW row, NEW u, NEW account, NEW amount,
         Begin(w, op, o, row, u, account, amount)
  PROVE  UNCHANGED Lifecycle!lifecycleVars
  <1>1. /\ req[w].phase # "moved" /\ req'[w].phase # "moved"
        /\ UNCHANGED <<accountVars, orders, disputes>>
    BY DEF Begin, Idle, RefinementInv, TypeOK
  <1> QED
    BY <1>1, QuietUnseen

\* Every step is one of the lifecycle's, or is not seen there.
LEMMA RefinementStep ==
  ASSUME OneAtATime, MaxFaults = 0, RefinementInv, AccountsSeen', [Next]_vars
  PROVE  [Lifecycle!Next]_(Lifecycle!lifecycleVars)
  <1>1. ASSUME NEW w \in Workers, NEW o \in Orders, NEW u \in Users,
               \/ \E a \in Amounts, r \in Rates : BeginSell(w, o, u, a, r)
               \/ \E a \in Amounts : BeginAccept(w, o, u, a)
               \/ BeginPayment(w, o, u) \/ BeginReceipt(w, o, u)
               \/ BeginCancel(w, o, u) \/ BeginDispute(w, o, u) \/ BeginResolve(w, o, u)
        PROVE  UNCHANGED Lifecycle!lifecycleVars
    BY <1>1, BeginUnseen
       DEF BeginSell, BeginAccept, BeginPayment, BeginReceipt, BeginCancel,
           BeginDispute, BeginResolve
  <1>2. ASSUME NEW w \in Workers, FundsRead(w) \/ Refuse(w)
        PROVE  UNCHANGED Lifecycle!lifecycleVars
    <2>1. req[w] # Idle /\ req[w] \in Request /\ req[w].phase # "moved"
      BY <1>2, PhaseType DEF RefinementInv, FundsRead, Refuse
    <2>2. req'[w].phase # "moved" /\ UNCHANGED <<accountVars, orders, disputes>>
      BY <1>2, <2>1 DEF FundsRead, Refuse, Idle, RefinementInv, TypeOK, Request
    <2> QED
      BY <2>1, <2>2, QuietUnseen
  <1>3. ASSUME NEW w \in Workers PROVE ~ Abort(w)
    BY FaultsAssumption DEF Abort, RefinementInv, TypeOK
  <1>4. ASSUME NEW w \in Workers, FundsMove(w)
        PROVE  UNCHANGED Lifecycle!lifecycleVars
    BY <1>4, MoveUnseen DEF RefinementInv
  <1>5. ASSUME NEW w \in Workers,
               \/ FinishSell(w) \/ FinishAccept(w) \/ FinishPayment(w)
               \/ FinishReceipt(w) \/ FinishCancel(w) \/ FinishDispute(w)
               \/ FinishResolve(w)
        PROVE  Lifecycle!Next
    BY <1>5, SellSeen, AcceptSeen, PaymentSeen, ReceiptSeen, CancelSeen, DisputeSeen,
       ResolveSeen
  <1>6. CASE UNCHANGED vars
    <2>1. PICK w \in Workers : TRUE
      BY WorkersAssumption
    <2>2. /\ req' = req /\ orders' = orders /\ disputes' = disputes
          /\ balance' = balance /\ blocked' = blocked /\ totalTrades' = totalTrades
      BY <1>6 DEF vars
    <2>3. Free' = Free /\ Held' = Held /\ Trades' = Trades
      BY <2>2
         DEF Free, Held, Trades, TakenSoFar, AddedSoFar, CountedSoFar, MovedFor,
             TakenFromFree, AddedToBlocked, TradeCounted
    <2> QED
      BY <2>2, <2>3, NothingSeen
  <1> QED
    BY <1>1, <1>2, <1>3, <1>4, <1>5, <1>6, RowSeen DEF Next, Handle

LEMMA RefinementInit ==
  ASSUME Init, AccountsSeen
  PROVE  Lifecycle!Init
  <1>1. PICK w \in Workers : TRUE
    BY WorkersAssumption
  <1>2. req[w].phase # "moved"
    BY DEF Init, Idle
  <1>3. Free = balance /\ Held = blocked /\ Trades = totalTrades
    BY <1>1, <1>2 DEF AccountsSeen
  <1> QED
    BY <1>3, SharedWords DEF Init, AccountsInit, Lifecycle!Init, Free, Held, Trades

\* ImplementsLifecycle: requests that come one at a time, none of them lost,
\* do what the abstract lifecycle does in one atomic step each: the handler's
\* two transactions, the checks it makes twice and the row it writes back are
\* not visible from outside.
THEOREM OneRequestRefines ==
  ASSUME OneAtATime, MaxFaults = 0
  PROVE  Spec => ImplementsLifecycle
  <1>1. Init => AloneInv
    BY AloneInit
  <1>2. TypeOK /\ AloneInv /\ [Next]_vars => AloneInv'
    BY AloneStep
  <1>3. TypeOK => AccountsSeen
    BY AccountsSeenAlways
  <1>4. Init /\ AccountsSeen => Lifecycle!Init
    BY RefinementInit
  <1>5. TypeOK /\ OrdersKnown /\ DealInv /\ AloneInv /\ AccountsSeen /\ AccountsSeen'
          /\ [Next]_vars => [Lifecycle!Next]_(Lifecycle!lifecycleVars)
    BY RefinementStep DEF RefinementInv
  <1> QED
    BY <1>1, <1>2, <1>3, <1>4, <1>5, DealAlways, PTL
       DEF Spec, ImplementsLifecycle, Lifecycle!Spec
=============================================================================

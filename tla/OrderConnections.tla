-------------------------- MODULE OrderConnections --------------------------
(***************************************************************************)
(* What the handlers of OrdersService wait for: the connections of the     *)
(* Prisma pool and the rows other transactions have locked.                *)
(*                                                                         *)
(* A handler holds the connection of its transaction T1 while the funds,   *)
(* the fraud check and the risk score ask for another one (T2).  An update *)
(* locks its row until its transaction ends; reads, foreign keys and rows  *)
(* nobody else can see lock nothing others wait for.  OrderRequests has    *)
(* what the handlers decide; here any request may come at any time.        *)
(*                                                                         *)
(* A new row another transaction would insert too (User.telegramId is      *)
(* unique) counts as locked.  The queries the fraud check and the risk     *)
(* score make outside a transaction count as a T2 each: they, too, take a  *)
(* connection, and an update among them locks its row.                     *)
(***************************************************************************)
EXTENDS Naturals, Sequences, FiniteSets

CONSTANTS Workers,        \* requests that can be in progress at one time
          Users, Orders,
          Seller, Buyer,  \* the parties of each order
          Requests,       \* the kinds of requests that arrive
          PoolSizes       \* by default the pool has 2 connections per core, and 1

Ops == {"sell", "buy", "join", "accept", "payment", "receipt", "cancel", "dispute",
        "resolve", "hide", "demo"}

ASSUME ConnectionsAssumption ==
    /\ Seller \in [Orders -> Users] /\ Buyer \in [Orders -> Users]
    /\ Requests \subseteq Ops
    /\ IsFiniteSet(Workers) /\ PoolSizes \subseteq Nat \ {0}

VARIABLES
  pool,    \* the connections of this replica
  todo,    \* the steps each handler still has before it; none when idle
  open,    \* its transactions that have a connection
  held     \* the rows each of them has locked

vars == <<pool, todo, open, held>>

Transactions == {"T1", "T2"}
Rows == ({"user", "telegramId"} \X Users) \cup ({"order", "dispute"} \X Orders)

Init ==
  /\ pool \in PoolSizes
  /\ todo = [w \in Workers |-> <<>>]
  /\ open = [w \in Workers |-> {}]
  /\ held = [w \in Workers |-> [t \in Transactions |-> {}]]

-----------------------------------------------------------------------------
(* The handlers, step by step.                                             *)

Open(t)      == [do |-> "open", tx |-> t, rows |-> {}]
Use(t, rows) == [do |-> "use", tx |-> t, rows |-> rows]
Close(t)     == [do |-> "close", tx |-> t, rows |-> {}]

\* T1 updates one row, or inserts one nobody else can see.
Lock(table, x) == <<Use("T1", {<<table, x>>})>>
Insert         == <<Use("T1", {})>>

\* reserveFunds, releaseFunds and transferToSeller; the end of updateUserRiskScore.
UserUpdate(u) == <<Open("T2"), Use("T2", {<<"user", u>>}), Close("T2")>>

\* Queries that lock nothing: checkBeforeCreateOrder; updateUserRiskScore when
\* the user is not committed yet, so that there is nothing to update.
Query == <<Open("T2"), Use("T2", {}), Close("T2")>>

createOrder(u, type) ==
  Query \o Insert
    \o (IF type = "SELL" THEN UserUpdate(u) \o Insert ELSE <<>>)
    \o UserUpdate(u)

\* createOrder of a user it has to create, who can only buy: the balance is 0.
createOrderNew(u) == Lock("telegramId", u) \o Query \o Insert \o Query

\* The demo's timer makes up a seller and has the order refused for the balance of 0, so that the
\* BUY order and the broadcast after it never come about; nobody waits for its answer, nor does
\* the next demo trade.
createDemoTrade(u) == Lock("telegramId", u) \o Query

\* Mutant: the order is marked before its money is released.
BugCancelOrder(o, u) == Lock("order", o) \o UserUpdate(u)

acceptOrder(o, u)    == UserUpdate(u) \o Lock("order", o)
confirmPayment(o)    == Lock("order", o)
confirmReceipt(o)    == UserUpdate(Seller[o]) \o Lock("user", Buyer[o])
                          \o Lock("order", o) \o Lock("user", Seller[o])
cancelOrder(o, u)    == UserUpdate(u) \o Lock("order", o)
createDispute(o)     == Lock("order", o) \o Insert
resolveDispute(o, u) == Lock("dispute", o) \o UserUpdate(u) \o Lock("order", o)
\* One statement of its own, which T1 stands for.
hideOrder(o)         == Lock("order", o)

Body(kind, o, u) ==
  CASE kind = "sell"    -> createOrder(u, "SELL")
    [] kind = "buy"     -> createOrder(u, "BUY")
    [] kind = "join"    -> createOrderNew(u)
    [] kind = "accept"  -> acceptOrder(o, u)
    [] kind = "payment" -> confirmPayment(o)
    [] kind = "receipt" -> confirmReceipt(o)
    [] kind = "cancel"  -> cancelOrder(o, u)
    [] kind = "dispute" -> createDispute(o)
    [] kind = "resolve" -> resolveDispute(o, u)
    [] kind = "hide"    -> hideOrder(o)
    [] kind = "demo"    -> createDemoTrade(u)

Handler(kind, o, u) == <<Open("T1")>> \o Body(kind, o, u) \o <<Close("T1")>>

-----------------------------------------------------------------------------
(* What a handler waits for.                                               *)

Busy == {w \in Workers : todo[w] # <<>>}
InUse == Cardinality({c \in Workers \X Transactions : c[2] \in open[c[1]]})

\* The handlers with a lock the next step of w needs.  A transaction is not in
\* its own way, but T1 is in the way of the T2 its own handler waits for.
Blockers(w) ==
  {v \in Workers : \E t \in Transactions :
     /\ todo[w] # <<>> /\ <<v, t>> # <<w, Head(todo[w]).tx>>
     /\ held[v][t] \cap Head(todo[w]).rows # {}}

\* Handlers that wait for each other in a circle (a row has one holder).
Circle(S) == S # {} /\ S = UNION {Blockers(w) : w \in S}

\* T1 has run into its limit, and w is about to use it.
Lost(w) ==
  LET next == Head(todo[w]) IN next.do # "open" /\ next.tx \notin open[w]

\* What PostgreSQL can see of a circle: waits of the transactions that hold
\* the locks, not a T1 whose handler waits for a T2.
Seen(S) == \A w \in S : Head(todo[w]).tx = "T1"

CanStep(w) ==
  \/ Lost(w)
  \/ Head(todo[w]).do = "open" /\ InUse < pool
  \/ Head(todo[w]).do # "open" /\ Blockers(w) = {}

-----------------------------------------------------------------------------

\* The handler answers, or throws: what it has open is committed or rolled back.
End(w) ==
  /\ todo' = [todo EXCEPT ![w] = <<>>]
  /\ open' = [open EXCEPT ![w] = {}]
  /\ held' = [held EXCEPT ![w] = [t \in Transactions |-> {}]]
  /\ UNCHANGED pool

Drop(w, t) ==
  /\ open' = [open EXCEPT ![w] = @ \ {t}]
  /\ held' = [held EXCEPT ![w][t] = {}]
  /\ UNCHANGED pool

\* A request arrives; only a party cancels.
Begin(w, kind, o, u) ==
  /\ w \notin Busy
  /\ kind = "cancel" => u \in {Seller[o], Buyer[o]}
  /\ todo' = [todo EXCEPT ![w] = Handler(kind, o, u)]
  /\ UNCHANGED <<pool, open, held>>

\* The next step of a handler, when nothing is in its way.
Advance(w) ==
  LET next == Head(todo[w]) IN
  /\ w \in Busy /\ CanStep(w) /\ ~Lost(w)
  /\ todo' = [todo EXCEPT ![w] = Tail(@)]
  /\ \/ /\ next.do = "open"
        /\ open' = [open EXCEPT ![w] = @ \cup {next.tx}]
        /\ UNCHANGED <<pool, held>>
     \/ /\ next.do = "use"
        /\ held' = [held EXCEPT ![w][next.tx] = @ \cup next.rows]
        /\ UNCHANGED <<pool, open>>
     \/ /\ next.do = "close"
        /\ Drop(w, next.tx)

\* "Transaction already closed": the handler throws.
FindLost(w) == w \in Busy /\ Lost(w) /\ End(w)

\* Prisma's maxWait (2 s), or the pool's limit for a single query.
GiveUpConnection(w) == w \in Busy /\ Head(todo[w]).do = "open" /\ End(w)

\* Prisma's timeout (5 s) ends T1 while its handler waits for a T2; the handler
\* learns of it when it uses T1 again.
ExpireT1(w) ==
  /\ w \in Busy /\ "T1" \in open[w] /\ Head(todo[w]).tx = "T2"
  /\ Drop(w, "T1")
  /\ UNCHANGED todo

\* Mutant: only the first connection has a limit.
BugTimeout(w) == open[w] = {} /\ GiveUpConnection(w)

Timeout(w) == GiveUpConnection(w) \/ ExpireT1(w)

\* PostgreSQL ends one transaction of a circle it sees.
BreakCircle(w) ==
  /\ \E S \in SUBSET Busy : w \in S /\ Circle(S) /\ Seen(S)
  /\ End(w)

\* A check fails, the connection is lost, a row has not been found, and so on.
Fail(w) == w \in Busy /\ End(w)

Next ==
  \E w \in Workers :
    \/ \E kind \in Requests, o \in Orders, u \in Users : Begin(w, kind, o, u)
    \/ Advance(w) \/ FindLost(w) \/ Timeout(w) \/ BreakCircle(w) \/ Fail(w)

\* Strong fairness of Advance: PostgreSQL grants a row in the order of the
\* requests, so nobody is overtaken for ever.  Timers run whatever others do.
Spec ==
  /\ Init /\ [][Next]_vars
  /\ \A w \in Workers :
       /\ SF_vars(Advance(w)) /\ WF_vars(FindLost(w))
       /\ WF_vars(Timeout(w)) /\ WF_vars(BreakCircle(w))

-----------------------------------------------------------------------------

\* The code never waits in a way neither PostgreSQL nor the pool knows of.
\* A circle of row locks never goes through a T2, whose wait the holder of T1
\* makes invisible to the deadlock detector (orders.service.ts:319-356, 483-508);
\* and when everybody waits without a circle, outer transactions alone have
\* taken the whole pool, so that one limit running out frees a connection for
\* another (line 222): no T2 is left waiting for a row of one of them.
DeadlocksAreKnown ==
  /\ \A S \in SUBSET Busy : Circle(S) => Seen(S)
  /\ (/\ Busy # {} /\ \A w \in Busy : ~CanStep(w)
      /\ \A S \in SUBSET Busy : ~Circle(S))
       => InUse = pool /\ \A w \in Workers : "T2" \notin open[w]

\* Every request is answered: no lock order, full pool or lost transaction
\* leaves a caller without an answer, although no handler sets a limit itself.
EveryRequestEnds == \A w \in Workers : w \in Busy ~> w \notin Busy
=============================================================================

# P2PSPB: a formal model of the deal, its escrow and its failures

P2PSPB is a peer-to-peer exchange: users post orders to buy or sell USDT, the
API holds the parties' funds while a deal is under way, and an administrator
settles disputes. This directory holds TLA+ models of the parts whose
correctness depends on the order in which things happen, from the order handlers
and their database transactions to the contracts and the pages that show the
result, the TLC runs that check them on small instances, and TLAPS proofs for
every instance. Paths are
relative to the repository root; `A/` abbreviates
`services/api/src/modules/`.

## 1. The system

### Components

| Component | Code | State it keeps | Operations |
|---|---|---|---|
| Orders | `A/orders/orders.service.ts`, `orders.controller.ts` | `Order` and `Dispute` rows | create, accept, confirm payment, confirm receipt, cancel, dispute, resolve, hide, two queries |
| Funds | `A/transactions/transactions.service.ts` | `User.balance`, `blockedBalance`, `totalTrades`; `Transaction` rows (the ledger) | reserve, release, transfer to seller; unused: `createTransaction`, `refundToBuyer` |
| Database | `services/api/prisma/schema.prisma` | the tables; unique keys; relations | READ COMMITTED transactions of PostgreSQL through Prisma |
| Notifications | `A/ws/` | Socket.IO rooms | one event per order operation, sent from inside its transaction |
| Fraud detection | `A/fraud/` | `riskScore`, `isBlocked`, `FraudAlert`, `LoginSession` | check before an order, score update with automatic block, unblock, session log |
| AML | `A/aml/` | none (remote or mock) | score of a transaction or an address |
| Webhook | `A/webhook/` | timestamps seen, per process | validate, refuse duplicates, create an order |
| Settlement strategies | `A/orders/strategies/` | none | `create` is called by the orders service; six others are not |
| Blockchain access | `A/blockchain/` | a listener flag, a provider | RPC wrappers, events listener |
| Contracts | `contracts/src/` | trades; owners and confirmations; token balances; split fees | Solidity functions, each atomic |
| Administration | `A/admin/`, `A/auth/`, `apps/web/app/admin/` | `Admin` rows, two-factor secret, the cookie | login, set up, enable and disable two-factor; the admin pages |
| Rate limiting | `A/redis/` | counters in Redis | a storage no guard uses |
| Demo, SSE, KMS, health, logging | `A/demo/`, `A/sse/`, `A/kms/`, `A/health/`, `common/` | a timer | periodic orders, periodic reads, library calls |
| Web client | `apps/web` | React state fed by WebSocket events | pages, hooks |

### How they interact

An HTTP request reaches one of three API replicas (`k8s/api-deployment.yaml:7`)
and is served by one asynchronous handler of `OrdersService`. All but
`hideOrder` run inside an interactive transaction **T1**
(`this.prisma.$transaction(async (tx) => ...)`). A handler that moves money
calls `TransactionsService`, which does not receive `tx`: it opens a
transaction **T2** of its own, on a second pooled connection, and T2 commits
before T1 does. Within T1 the handler also calls the fraud check (its own
connection), the settlement strategy, and the notifications (a WebSocket send).
Handlers share nothing but the database; no row is locked when it is read, no
transaction raises the isolation level, and every update of an order selects by
id only. So between two `await`s of a handler anything may be committed by
others, and T1 may be lost (Prisma's limit of five seconds, a deadlock victim, a
lost connection, the end of the process) after T2 has committed.

### What is hard

* checks made on rows that have changed when the write comes (balance, status,
  `reservedAmount`);
* a committed T2 inside a T1 that may not commit;
* two numbers, the parties' two reserves, kept in one column;
* a handler that waits for a row lock while it holds a connection;
* a pool whose connections are asked for by those who hold one already;
* events emitted before the change they tell of is committed;
* the same things again one level up: the webhook's duplicate window per
  replica, the score and the block in two statements, a trade on the chain
  inside a transaction that can roll back, a receiver that calls the wallet back,
  two-factor requests that overlap.

`PROJECT.json` lists each of these hazards at its line, with the properties that
cover it, or why none does.

### What makes each component correct

* **Orders**: a deal's reserve is backed by ledger rows of its two parties; a
  final status is shown only when the money has moved; BUY orders, which nothing
  can accept, move no money; every request ends.
* **Funds**: a balance is the opening balance and the ledger's changes; what a
  user owns changes only through `confirmReceipt`; a user can be overdrawn only so
  far.
* **Notifications**: the last committed word on an order is true, and its parties
  hear it.
* **Fraud detection and AML**: a high score goes with a block, if nothing is lost;
  a block stops all orders but those already past the check; silence of the AML
  platform holds nobody up.
* **Webhook**: a timestamp, as it is written, is let in once per process; what is
  announced is stored, and what is stored is what was meant.
* **Contracts**: signatures are counted once per owner; tokens are conserved; what
  leaves the wallet and the escrow, and what does not.
* **Settlement**: no order has a trade that nobody knows of; a connected API tells
  administrators what is so (unconnected, it answers a request to complete or to
  cancel a trade with an invented hash).
* **Administration**: an administrator is not locked out.

## 2. Modules

| Module | What it is |
|---|---|
| `OrderSchema` | ids, the `Order` row, `STATE_TRANSITIONS`, `canTransition` |
| `EscrowAccounts` | the user rows and the ledger; `ReserveFunds`, `ReleaseFunds`, `TransferToSeller` and their checks |
| `OrderRequests` | concurrent handlers of `OrdersService`, T1 and T2, losses; type invariant and properties |
| `OrderAudit` | properties that sum over the ledger; a claim of a comment that a run refutes |
| `OrderLifecycle` | the abstract specification: the same requests, each in one step |
| `OrderRefinement` | the refinement mapping from `OrderRequests` to `OrderLifecycle` |
| `OrderConnections` | the rows and pooled connections the same handlers wait for; limits, deadlocks |
| `OrderNotices` | what the handlers tell of their orders before they commit |
| `OrderFeed` | extends `OrderNotices`: the gateway's rooms and the messages a client sends to enter them |
| `Screening` | fraud check, risk score, alerts, AML inside `createOrder` |
| `Webhook` | messages to several replicas that restart and forget |
| `TokenEscrow` | the token, the escrow and the fee splitter |
| `Settlement` | extends `TokenEscrow`: strategies, key, listener, administrator's requests, composed with the contracts |
| `MultiSigWallet` | the wallet, with receivers that call back or fail |
| `AdminAccess` | login, two-factor requests, admin pages |
| `MCOrders`, `MCConnections`, `MCScreening`, `MCWebhook`, `MCWallet`, `MCAdmin` | constants and symmetry for TLC |
| `OrderRequestsProofs` | theorems on `OrderRequests`, `OrderAudit` and `OrderRefinement` |
| `OrderConnectionsProofs`, `OrderNoticesProofs`, `ScreeningProofs`, `WebhookProofs`, `AdminAccessProofs` | theorems on one module each |
| `ContractProofs` | theorems on `TokenEscrow` and `Settlement`, and on `MultiSigWallet` |
| `SumTheorems` | a library: sums over finite sets |

`OrderRequests` EXTENDS `EscrowAccounts`, which EXTENDS `OrderSchema`;
`OrderAudit` extends `OrderRequests`, and `OrderRefinement`, which instantiates
`OrderLifecycle`, extends `OrderAudit`; `OrderRequestsProofs` is about all three.
`OrderNotices` shares `OrderSchema` with them. A module on orders leaves out what
another one is about: money and its transactions are in `OrderRequests`, waiting
in `OrderConnections`, events in `OrderNotices`; each lets the rest happen in
any way it could.

### A handler in `OrderRequests`

    idle --Begin--> checked --FundsRead--> read --FundsMove--> moved
                       |                                         |
                       +----------(no money to move)-------------+
                                       |
                                    Finish --> idle

`Workers` is the set of requests that can be in progress at one time, over all
replicas. `Begin...` takes a request: T1 reads the order and makes the handler's
checks; a request whose checks fail changes nothing and is not modelled as a
step. `FundsRead` is T2's read and check of the user row, `FundsMove` its
update, its ledger row and its commit. `Finish...` is T1's writes and commit;
it computes from the row T1 **read**, but writes only the columns the code's
`update` names into the row as it is **now**. `Refuse` is a T2 check, a ledger
insert or a dispute insert that fails; `Abort` loses T1 at any point and leaves
a committed T2 alone. `CreateBuy` and `HideOrder` are single steps because each
is one transaction, or one statement, that depends on no earlier read of a row
that can change.

The handlers correspond to the code line by line in this sense: the guard of
`Begin...` is the handler's early exits in their order; `amount` and `account`
are the arguments it passes to `TransactionsService`; the row expression of
`Finish...` is the `data` of its `order.update`. `PROJECT.json` gives the lines.

Three choices deserve a remark.

* *The balance check in T1.* `createOrder` and `acceptOrder` check the balance in
  T1 and `reserveFunds` checks it again in T2. A failure of either leaves no
  trace, so `FundsRead` stands for both.
* *The dispute row.* T1's writes become visible at its commit, so they are one
  step with it, except the one that comes before T2 and can make others wait:
  `resolveDispute` updates the dispute row, whose lock it then holds during T2.
  `DisputeRowFree` is that lock. The other locks delay handlers and are
  `OrderConnections`' subject.
* *The foreign key.* `createOrder` reserves funds for an order T1 has inserted
  and not committed. If `Transaction.orderId` references `Order.id` in the
  database, T2's insert fails. The schema declares the relation
  (`schema.prisma:110`), but it lacks the back relations Prisma demands and the
  repository has no migrations, so whether the key exists is the constant
  `ForeignKeys`. Most runs set it to FALSE, which is what the rest of the code
  and its end-to-end test (`services/api/test/orders.e2e-spec.ts:66`) assume;
  the run `foreign_key` shows what TRUE means:
  every SELL order is refused, although the docs promise it is `RESERVED`.

### The other modules

* **`OrderConnections`.** `Handler` writes each handler down as the sequence of
  connections it asks for and rows it locks, in the order of the code; the actions
  run the sequences. One of the handlers is the demo's timer, which makes up a
  user and has its order refused (`createDemoTrade`). `Blockers` and `Circle` say
  who waits for whom. The limits are Prisma's defaults, since
  `prisma.service.ts:6` sets none: `GiveUpConnection` for `maxWait`, `ExpireT1`
  for `timeout`, which ends T1 while its handler is busy in T2. `BreakCircle` is
  PostgreSQL's deadlock detection, which sees waits between database transactions
  and not the wait of a T1 for the T2 its own handler has opened (`Seen`).
* **`OrderNotices`.** A handler reads (`Begin`), locks and writes its row, calls
  its `notify` method, commits; it may be lost at each point. `word` is the last
  event of each order with what became of its transaction.
* **`OrderFeed`.** Which sockets are in which rooms, who has asked for the list of
  orders on its present connection, and what each emission brings to whom. A
  client is a program that sends what the hook `useWebSocket.ts` sends and has its
  socket in the gateway's namespace. (The hook's own socket, and that of
  `WebSocketProvider.tsx`, are opened with `path: '/trades'` and would not reach
  it; no component calls the hook.)
* **`Screening`.** Every `await` of the screening is a step of its own, on a
  connection that sees committed rows only. `past` counts, as history, what was
  under way when a user was blocked. Scores are kept as the highest threshold they
  reach (`Level`), which is all that is ever compared. `Fail` ends a handler at
  any step, between the score and the block too; `past.lost` remembers a user for
  whom that has happened there.
* **`Webhook`.** The part of the handler before its first `await` is one step
  (Node runs it without interruption), then creation and answer. The header is a
  text, `ParseInt` the number it begins with: the window is asked of the number,
  the memory is keyed by the text. In the body, the number 0 counts as not given
  and the text `"0"` (`ZeroText`) does not; processes restart, messages are sent
  again at will to any replica.
* **`Settlement` over `TokenEscrow`.** The process starts, gets its key or not,
  the listener's timer fires; `createOrder` calls the strategy; the administrator
  closes trades; anybody asks for a trade (`ShowTrade`: the API's ABI has two
  words more in a trade than the contract sends, so `getTrade` reads nothing);
  everybody else calls the contracts at any time.
* **`MultiSigWallet`.** Where `_executeTransaction` calls the receiver, control
  leaves the wallet: the call becomes a frame of `calls`, with the storage to
  return to if the receiver fails, and any function may be called meanwhile.
* **`AdminAccess`.** Each handler reads the admin's row, waits, and writes by id;
  answers can be lost; the authenticator knows the secrets it has been shown. The
  pages are the panel, the two-factor page and the fraud page, with what each asks
  of `localStorage` and of the API when it is shown.

### What is abstracted

Amounts, rates and balances are integers (the code uses doubles). Amounts and
rates may be zero or below: the REST controller asks of a new order only that they
are truthy (`orders.controller.ts:86`) and of an acceptance nothing (`:109-117`),
and the webhook asks nothing of the sign of a rate. Order types are BUY or SELL: an
order the REST controller creates with another type has no parties, so that nothing
but `hideOrder` ever changes it.
Users exist from the start with given balances: nothing in the repository
deposits money. `minLimit`, `maxLimit`, payment methods and `expiresAt` are
stored and never read by the deal logic. Time is absent but in `Webhook`: a
limit may run out at any moment it can run out. The fraud check's query of the
last 24 hours sees all orders of an instance. Contracts have no gas and ETH and
tokens are small integers.

## 3. Runs

| Run | Instance | Checks |
|---|---|---|
| `one_request` | 1 worker, 2 users, 2 orders, amounts -1 and 1, rate 1, balances 2, all requests, symmetry | `ImplementsLifecycle`, `LedgerChains` |
| `two_requests` | 2 workers, 2 users, 1 order, amounts -1 and 1, rate 1, balances 1, all requests but hide, 1 loss, symmetry | `TypeOK`, `OverdraftBound`, `DealFunded`, `PaidBeforeFinal`, `BuyOrdersNeverTrade`, `BalanceMatchesLedger`, `ReceiptsTakeBothShares`, `MoneyMovesByReceiptOnly` |
| `foreign_key` | 2 workers, 2 users, 2 orders, amounts -1 and 1, `ForeignKeys = TRUE`, 1 loss | `ForeignKeyStopsTrading` |
| `stale_status_write` | 2 workers, 2 users, 1 order, four kinds of requests; expects a violation | `FinalStatusesAreFinal` |
| `connections` | 2 handlers of every kind, pools of 2 and 3, two users who have sold to each other | `DeadlocksAreKnown`, `EveryRequestEnds` |
| `notices` | 2 workers, 3 users, 1 order, losses at every step | `LastWordIsTrue`, `PartiesAreTold` |
| `feed` | 1 worker, 1 order, 1 client; expects a violation | `NewOrdersAreHeard` |
| `screening` | 1 user, 2 workers, up to 2 orders and 4 alerts | `HighRiskIsBlocked`, `BlockStopsOrders`, `OneUnseenOrder`, `ScreeningEnds` |
| `webhook` | 6 messages, 2 replicas, 2 handlers, 4 ticks, 1 restart | `OneChancePerLife`, `OneOrderPerProcess`, `MemoryIsBounded`, `SuccessIsStored`, `OrdersAreAsMeant` |
| `settlement` | 3 accounts with a key, 1 trade, 1 order, each mode and source of the key | `SupplyIsConserved`, `OrdersHaveNoTrade`, `SuccessIsReal`, `TokensStayInEscrow`, `OnceDeafAlwaysDeaf` |
| `wallet` | 3 owners, one a contract, 3 ids, calls nested twice, symmetry | `SignaturesMatchCount`, `EnoughOwners`, `LargePaymentsNeverLeave`, `ExecuteTransactionReverts` |
| `admin` | 2 browsers, 2 requests at a time, 3 secrets, symmetry | `LockoutNeedsOverlap`, `PanelNeverLoads`, `LockoutIsPermanent` |

`CHECK_DEADLOCK` is FALSE where a run may use up its order ids, messages,
secrets or trades, after which nothing more can happen, and requests need not
arrive. `wallet` and `connections` check deadlock: there something can always be
called.

### What they show

**Deals.** Taken one at a time and not lost, the two-transaction handlers are the
simple lifecycle of `OrderLifecycle`. Taken two at a time, with losses, some
things survive: a deal under way is always a SELL order whose reserve is the sum
of two reserves recorded for exactly the parties the row names, although several
buyers may race for it; a final status never precedes its money, if
the order's reserves were positive; the balances
agree with the ledger's differences, because updates are relative; what a user
owns changes in the two steps of a receipt only, by the order's numbers (with an
amount below zero both parties gain); when everything is
quiet and nothing was lost every receipt has taken both shares; and an
overdraft, which does happen, stays within one full move per further request.

**What does not survive.** `stale_status_write` shows a status that
`orders.service.ts:19` calls final ("Конечное состояние") overwritten by a handler
that had checked it earlier. Sentences of the docs and tests that a property
contradicts are listed below. Others, which the same models contradict: the
seller's funds never reach the buyer, both shares are debited and none is credited
(`docs/STATE_MACHINE.md:95`); reserves are not atomic with their orders, T2 stays
when T1 is lost (`docs/STATE_MACHINE.md:184`); `balanceBefore` need not be the end
of the row before (`docs/STATE_MACHINE.md:175`, `LedgerChains` holds for requests
one at a time); the balance check does not keep a balance from going negative
(`transactions.service.ts:100`, `OverdraftBound` says how far); a cancellation
hands the whole reserve to the caller (`docs/STATE_MACHINE.md:99`).

**Waiting.** Rows are locked in different orders by crossed receipts, so
deadlocks happen; but each circle consists of waits PostgreSQL sees, because no
handler keeps a user's or an order's row locked while it asks for a T2. A T1
holding the order row during T2 (the mutant) would make circles that nothing
detects before a limit runs out. A pool can be used up by outer transactions
waiting for inner ones; Prisma's default limits are all that ends that.

**Events.** A notice may be emitted and its transaction lost. But notices of one
order are emitted under its row lock, so the last committed one is true however
many handlers raced; two handlers hand over an older row (a creation and a
dispute), and hiding is not announced. A client that follows the list of orders
hears of no new order: the gateway has no handler for the message that asks for the
list's room, as the run `feed` shows. The creator of an order gets a `notification`
in its own room, if it has joined a trade before.

**Screening.** A block does not stop orders whose handler has read the user
before; no others escape it. A score that calls for a block stays without one when
the handler is lost between the two statements, and only then. The check does not
see a user its own transaction inserts, so every first order is unchecked, and no
second one.

**Webhook.** Two replicas and a restart let one message make several orders, one
for each process there has been, and no more under one text of its timestamp; with
a leading zero it is another text of the same number. A failed message has used up its
timestamp. Forgetting is safe: what the clean-up deletes is out of the window.
`BUY` in capitals becomes a SELL order, and a limit of 0 is not compared.

**Chain.** In blockchain mode connected, every trade is refused by the chain (the
call and the contract disagree); not connected, the order is refused by the
database, as the table has no column for the invented number. So no order ever has a
trade, and a lost T1 leaves none behind. Tokens sent to the escrow stay there,
as completion requires a status no function sets. In the wallet no submission
from the threshold upwards succeeds, because confirmation asks for a
transaction that is counted only afterwards; ids reused by a receiver that
submits again do not let a signature count twice.

**Administration.** Repeated set-ups and lost answers lock nobody out; two
overlapping requests can, and then for good. The admin pages send everyone back
to the login: they look in `localStorage` for what is now a cookie.

### What the docs and tests say otherwise

Some of these properties hold of the code and are the opposite of what the
repository promises. `PROJECT.json` lists each as a finding, with the quoted lines:

| Property | The code | A doc, comment or test says |
|---|---|---|
| `FinalStatusesAreFinal` (violated) | writes a status by id, after a check that may be stale | `orders.service.ts:19`: COMPLETED is a final state |
| `NewOrdersAreHeard` (violated) | no handler for `join` | `docs/WEBSOCKET.md:147`, `:166`, `docs/DEMO_MODE.md:45`: clients of the list hear of new orders |
| `BuyOrdersNeverTrade` | only SELL orders can be accepted | `orders.service.ts:201`: only orders to buy can; `orders.service.spec.ts:221`: a BUY order is RESERVED |
| `ForeignKeyStopsTrading` | with the schema's relation enforced, no SELL order can be created | `docs/STATE_MACHINE.md:81-84`, `docs/API.md:110`, `orders.e2e-spec.ts:66`: it is RESERVED |
| `OneOrderPerProcess` | used timestamps are kept per process and text | `docs/SECURITY.md:65`, `docs/STATUS_REPORT.md:217`: replay protection |
| `OrdersHaveNoTrade` | no order is ever recorded on the chain | `docs/BLOCKCHAIN_INTEGRATION.md:6`, `docs/SETTLEMENT_STRATEGY.md:205`, `docs/DEMO_MODE.md:66`: all are |
| `TokensStayInEscrow` | completion is never possible | `P2PSPBEscrow.sol:84`, `docs/BLOCKCHAIN_INTEGRATION.md:47`, `contracts/README.md:23`: it pays the seller |
| `SupplyIsConserved` | nothing mints | `P2PSPB.test.ts:57`, `docs/BLOCKCHAIN_INTEGRATION.md:38`, `contracts/README.md:14`: the owner does |
| `LargePaymentsNeverLeave` | no payment from the threshold upwards can be submitted | `P2PSPBMultiSigWallet.sol:8`, `:111`: it leaves with two signatures |
| `PanelNeverLoads` | the pages look in the wrong place for the session | `docs/SECURITY.md:5-25`, `README.md:199`, `docs/DEMO_MODE.md:55-63`, `docs/ANTI_FRAUD.md:135-146`: the pages work |

One more is not modelled: `docs/BLOCKCHAIN_INTEGRATION.md:176-188` promises
administrators the events of the chain. The API's ABI has parameters the contract's
`TradeCreated` and `TradeCompleted` lack, so only cancellations would be understood,
and they are sent to a room no message lets anybody enter.

### Bounds

*Deals.* Two users are the two parties; who is who is open, so self-trading and
third parties who open disputes occur. Two workers give every pairwise race; the
overdraft, where more requests make a difference, is proved for any number. One
order is enough for the races of one deal; the one-request and foreign-key runs
use two, so that funds blocked for one order can be asked for by another. Balances
of 1 and 2 with amounts of -1 and 1 make both outcomes of each funds check occur,
and the parties' reserves differ wherever an offer of one sign is accepted with an
amount of the other. Zero is the one sign missing from the instances; the theorems
have it. `two_requests` leaves out `hide`, which is one statement and in
`one_request` and `foreign_key`. `MaxFaults` bounds losses: one loss at any of the
points of any handler. `MaxMove` is the largest amount an instance can reserve,
and the bound in the overdraft. Users and workers are symmetric: they start alike
and no definition singles one out.

*Connections.* Two handlers between two users who have sold to each other make
every circle of two, crossed receipts included. A pool of two is what both
handlers use up with their T1; with three a T2 can be open and wait for a row
besides. Longer circles only repeat the same waits.

*Notices and feed.* A third user is the rival who accepts too, and a stranger
otherwise. One worker and one client in `feed`: the races are in `notices`, the
reception is the question there.

*Screening.* One user, since nothing relates users; a newcomer, so that a few
alerts reach the threshold; a daily limit of 0 orders and a large amount, so that
each order adds alerts, and four of them are enough to be blocked and unblocked;
`MaxOrders` and `MaxAlerts` are guards. An alert in REVIEWING counts as RESOLVED:
no rule of the code reads either.

*Webhook.* Of the six messages two have different texts of one number, a third has
the text of the first and lacks its limits, one has a later number, one none, and
one a text that is no number; a rate below zero, a type in mixed case, limits of 0
and of `"0"` are among them. Window 1, memory above 1 and 4 ticks make the clean-up
delete. `MaxOrders` bounds only the orders from the message without a timestamp,
`MaxRestarts` the processes that die.

*Settlement.* One trade is created and closed by the API or others; transfers of
one size, supply twice the grant, so that balances of 0 and refused transfers
occur. `MaxTrades` bounds trades.

*Wallet.* Two signatures required of three owners, one of whom is a contract that
calls back; depth 2 lets a nested submission reuse an id and fail or succeed;
ids up to 2 leave one never used; `MaxBalance` bounds the ETH received.

*Admin.* Three secrets allow a set-up, its repetition and a late one; two
requests at a time are the overlap.

### Fairness

`Screening`: weak fairness of each handler's steps. Node runs a handler on as long
as its awaits return; the HTTP calls have timeouts of five and three seconds
(`aml.service.ts:66`, `:102`), and `connections` shows that database waits end.

`OrderConnections`: strong fairness of `Advance(w)`, because PostgreSQL grants a row
lock in the order of the requests and Prisma's pool likewise, so nobody is
overtaken for ever although others keep coming; weak fairness of what is only a
matter of time: `Timeout` (Prisma's limits), `BreakCircle` (the deadlock detector
runs after a second) and `FindLost`. `Fail`, which could also end a request, has
no fairness. In neither module is it assumed that requests arrive.

### Mutants

Every property of a passing run is tested the other way round: `PROJECT.json`
names, for each, a faulty variant of an operation (a check on the wrong balance,
an absolute instead of a relative update, a lock taken too early, a limit that
covers the first connection only, an answer before the order, a forgotten
column) under which the run finds the property violated.

## 4. Proofs

TLC shows a property on an instance; the theorems of this section state it for
every value of the constants that satisfies the named assumptions of the modules.
Those assumptions are what the code gives: amounts and rates are integers of any
sign, opening balances natural, `MaxMove` at least every possible move, ids distinct
from null;
and, where something is counted or summed, that there are finitely many workers,
users, accounts or timestamps (`WorkersAssumption`, `UsersAssumption`,
`FiniteAssumption`, `PeopleAssumption`). Every safety property and every action
property of a passing run, and the refinement, is stated by a theorem.

Each section of a proof module has the same form: an inductive invariant, one
lemma for each kind of step that preserves it, one that it implies the property,
and the theorem. What makes each invariant necessary:

### Deals and money: `OrderRequestsProofs`

* `TypeCorrect == Spec => []TypeOK`. The lemmas follow the steps: `BeginType` for
  the requests that start, `MoveType` for T2, `PhaseType` and `BusyType` for what
  a worker holds, `TypeStep` for all of `Next`.
* `OverdraftBounded == Spec => []OverdraftBound`: with K workers no free balance
  falls below `-(K-1) * MaxMove`, unless a resolution has handed its user a
  reserve below zero (`Drained`). The bound is not inductive, since a worker past
  its check takes from whatever the balance is by then. `OverdraftInv` adds what
  is missing: among the workers about to take from a user, one, intuitively the
  last to have read, finds its own amount still there, up to one full move for
  each worker that is *not* about to take. If that one moves next it stays within
  the bound; if another does, the balance drops by at most `MaxMove` and the
  number of workers about to take drops by one, which leaves `OverdraftInv` true
  (`OneLess`). A read (`OverdraftRead`) becomes the new witness, and releases only
  help. `OrdersKnown` bounds the amounts: committed orders, and the rows handlers
  have read, carry an amount and a rate some request gave, and what is reserved at
  once is at most `MaxMove`.
* `DealsAreFunded == Spec => []DealFunded`, `PaidBeforeFinalStatus == Spec =>
  []PaidBeforeFinal` and `BuyOrdersStayIdle == Spec => []BuyOrdersNeverTrade`,
  from one inductive invariant, `DealInv`. `PaidBeforeFinal` asks
  `PositiveReserves` of a cancelled order: next to a reserve of zero or below,
  `cancelOrder` may have read a sum of nothing, called no T2, and written its
  status after an acceptance made the sum positive. None of the three is
  inductive: a handler commits from a row it read earlier, while other handlers
  change it. `OrderOK` says what a committed row promises (a SELL order has a
  reserve of its seller's share from its first committed version on; a `RESERVED`
  row holds exactly that share; a final row has its release). `HandlerOK` says
  what survives until T1 commits: a `createOrder` owns its uncommitted order; an
  `acceptOrder` still has the seller's share as the reserve it read, though
  another acceptor may have won meanwhile; a handler past T2 has its ledger row.
  The argument has two halves. `Stable` collects what no step undoes: ledger rows
  stay, a committed order keeps type, seller and amount, and a funded one stays
  funded; `HandlerKept` derives from it that a step of one handler leaves every
  other's `HandlerOK` true. Then there is one lemma per kind of step, from
  `BeginStep` and `InnerStep` (with `MoveRows`: T2 leaves the row the commit
  promises) to `HideDeal`.
* `ForeignKeyStopsAllTrading == Spec => []ForeignKeyStopsTrading`: by `DealInv` a
  committed SELL order has a ledger row; with the foreign key the first row would
  need such an order, so the ledger stays empty (`NoRowStep`).
* `OnlyReceiptsTakeMoney == Spec => MoneyMovesByReceiptOnly`: an action property,
  from `DealInv` and `AuditInv`. Its point is that what a handler moves, computed
  from the row it read, is what the *committed* row says at that moment: the row's
  seller and amount in T2, its amount and rate in T1. Nothing is assumed of the
  signs.
* `LedgerExplainsBalances == Spec => []BalanceMatchesLedger`. The sum grows by the
  row T2 appends (`BalanceMove`), whose two columns differ by what the balance
  changes, stale or not. Nothing else writes either (`LedgerSteps`). The property
  is inductive; the work is in the sums.
* `ReceiptsAreWhole == Spec => []ReceiptsTakeBothShares`. The property speaks of
  quiet states only, and says nothing of the way there. `AuditInv` says it of
  every state: until a handler is lost, what the users own is what they began
  with, less the shares of the receipts in the ledger, *plus what each receipt
  between T2 and T1 has yet to take* (`Due`). A T2 moves one share from the left
  to the right and puts the other into `Due`; T1 takes it out (`Books`). The two
  shares agree because the row a handler has read keeps the amount and the rate of
  its order (`RowsAgree`), though nothing else of it need be current.
* `OneRequestChains == ASSUME OneAtATime PROVE Spec => []LedgerChains`. `ChainInv`
  adds that the balance is where a user's last row ended, and that a balance read
  by T2 is still the balance when it moves. The hypothesis is what fails as soon
  as two requests overlap: the chain breaks in `two_requests`.
* `OneRequestRefines == ASSUME OneAtATime, MaxFaults = 0 PROVE Spec =>
  ImplementsLifecycle`: the refinement, for any users, orders, amounts and rates.
  `AloneInv` is the invariant: nobody has changed the row the handler read, so
  that what T1 checked at the beginning is still true of the table at its commit;
  T2 found enough, and left no balance below zero; an order without a row is
  exactly `NoOrder`. `AccountsSeen` says what the mapping makes of the accounts:
  what they were before a T2 whose T1 has not committed (`AccountsSeenAlways`; the
  mapping's sums have one summand at most). Then each step is a stutter
  (`BeginUnseen`, `QuietUnseen`, `MoveUnseen`) or, if it is a commit, the
  lifecycle's action of the same name (`SellSeen` to `ReceiptSeen`, `RowSeen`). A
  `cancel` is `Cancel` or `CancelUnfunded` according to the reserve; a `resolve`
  always has one, by `DealInv`. Both hypotheses are needed: a second handler or a
  lost T1 shows a move without its order, as `two_requests` does.

### Waiting: `OrderConnectionsProofs`

`AllDeadlocksKnown == Spec => []DeadlocksAreKnown`, for any number of handlers of
any kinds and any pool. The first half is about what the code writes down. `Rest`
is the shape all handlers and what is left of them share: a T2 is opened, used and
closed in consecutive steps; the row of a user or of an order is locked by T1
after the last T2; a row of another kind (`telegramId`, `dispute`) before anything
else. The lemmas put each handler together from pieces (`Glue...`). The second half
is the inductive invariant `Inv`: what a handler holds fits what it has left
(`Fits`), a row has one holder (`OneHolder`), and no more connections are in use
than the pool has.

Suppose a handler of a circle waits inside a T2 (`CirclesAreSeen`). The row that
another handler waits for is held by its T1, and before the last T2 that is not a
user's or an order's row; so the other waits for a row of the first kind, and who
does holds nothing yet. But in a circle everybody holds a row (`CircleWaits`: the
wait is a function onto the circle, so none is left out). Now suppose nobody can
step and there is no circle. Following the waits for rows must end
(`ClosedCircle`), with a handler that waits for a connection, so the pool is used
up. A T2 among those who wait would wait for a user's row; its holder is a T1 that
waits for a user's or an order's row too, and so on in a circle (`NoInnerLeft`).

### Events: `OrderNoticesProofs`

`LastWordTrue`, `PartiesTold`. `Inv` adds what row locks give: one transaction at a
time holds a row (`Exclusive`), an order being created is its creator's alone
(`Owned`), what was handed over is still what the transaction will leave (`Handed`),
and nobody else has spoken of the order since (`Spoken`). `Exclusive` and `Spoken`
turn "emitted" into "committed".

### The other components

* `ScreeningProofs`: `RiskBlocked`, `BlockStops`, `OneUnseen`. `Fit` ties a
  handler's step to its job and user, `Alone` says that a handler which inserts a
  user is its only one (the unique key), `Counted` that a blocked user's late
  orders and the handlers still past the check (`Going`) together stay within the
  number counted at the block; cardinalities come from `FiniteSetTheorems`. The
  invariant behind `RiskBlocked` has the exception of the property: a handler lost
  between the two writes.
* `WebhookProofs`: `OneChance`, `MemoryBounded`, `SuccessStored`, `MeantOrders`,
  `OneOrderEach`. `Remembered` is why forgetting is safe: a header text let in
  is still in memory, or its number is out of the window for good, as the clock does
  not go back.
  `Checked` and `Stored` carry validation across the `await` to the order.
  `OneOrderEach` counts: the orders of a text and the handlers that may still
  make one are covered by its chances (`ChancesCover`), one for each life of a
  process.
* `ContractProofs`, over the chain: `NoOrderHasTrade`, `SuccessReal`,
  `AlwaysDeaf`, `EscrowOnlyGains`. `ChainInv`: the escrow
  approves nobody, a trade is created or cancelled and never anything else, and none
  is the API's; `ApiInv`: the wallet comes before the first request or not at all.
  `SupplyConserved`: a transfer changes two summands by opposite amounts, or none if
  payer and payee are one (`MovedConserves`); only the token's calls write
  balances (`OnlyTokenCallsMove`), the escrow's and the splitter's being made of
  those.
* `ContractProofs`, over the wallet: `SignaturesCountOnce`, `OwnersSuffice`,
  `NoLargePayment`, `NoExecuteTransaction`. `Good` holds of the storage between any
  two steps and of every storage a waiting call may restore; its heart is that a
  transaction is executed or moves nothing and lacks signatures (`GoodTransaction`),
  and that ids from `transactionCount` on have no signer.
* `AdminAccessProofs`: `LockoutTakesOverlap`, `PanelStaysEmpty`, `LockoutStays`. As
  long as the requests that change the row do not overlap (`Alone`), what such a
  request has read still holds when it writes (`StillSo`).

### Sums: `SumTheorems`

The sums of the models are the community modules' folds, which choose the next
element. `SumTake`, `SumAdd`, `SumChange`, `SumSame` and `SumZero` say that the
order does not matter and what one summand contributes. The prover has no rule of
induction for a formula, so the argument is by a minimal counterexample: a nonempty
family of subsets of a finite set has a least one (`LeastSubset`, from the library's
well-foundedness of the strict subset), and removing the element the fold takes
next gives a smaller one.

### What is only model-checked

`ScreeningEnds` and `EveryRequestEnds`: liveness under fairness and ENABLED are
out of the prover's reach. `FinalStatusesAreFinal` and `NewOrdersAreHeard` are
refuted by their runs, so there is nothing to prove. That the models' bounds on
counters (`MaxFaults`, `MaxTrades` and the like) do not matter is part of the
theorems, which hold for any value of them.

## 5. What is left

In the order of use: a property that a reserve is released once, which the
cancellation of a resolved or hidden order breaks and for which the repository
states no rule; the daily limit of the fraud check under concurrent requests; an
abstract specification of the webhook (a message is let in once per process) and
of the wallet (a set of signers per payment) that the modules implement; lower
bounds for the pool size at which no request is refused.

## 6. Not modelled

* **Code nothing calls**: `createTransaction` and `refundToBuyer`;
  `checkBeforeAcceptOrder`, `checkMultiAccount`, `logLoginSession`;
  `interpretDecision`; `createAdmin`, `validateAdmin`; six methods of each
  settlement strategy and with them `EscrowService`'s `reserveFunds`,
  `confirmPayment`, `confirmReceipt` and `resolveDispute`. `FraudController` is
  declared and not listed by its module; its requests are modelled as if they were
  served.
* **The stream of orders and the page's list**: the stream is served at
  `/api/sse/orders` with named events; `useOrders.ts:37` opens `/sse/orders` and
  listens for unnamed ones. No answer of the stream reaches the list, which shows
  its query's answer.
* **What the events listener forwards**: see the end of "What the docs and tests
  say otherwise". When it is started is in `Settlement`.
* **Rate limiting**: a storage for a guard that no module installs.
* **Demo trades**, beyond the connections they take: each attempt is a SELL order
  of a new user, whose balance is 0; it is refused and rolled back. What turns the
  timer on and off is a flag of the process.
* **Expiry**: `expiresAt` is written and never read.
* **Rounding** of doubles.
* **Libraries and configuration**: password hashing, JWT and TOTP, the cipher of
  KMS, Socket.IO's own state, health checks, logging, error reporting, deployment
  files, static pages.

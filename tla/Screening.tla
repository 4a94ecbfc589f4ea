------------------------------ MODULE Screening ------------------------------
(***************************************************************************)
(* Anti-fraud and AML screening: FraudDetectionService, AmlService and the *)
(* place of both in OrdersService.createOrder.                             *)
(*                                                                         *)
(* createOrder runs in a transaction, but everything the screening reads   *)
(* and writes goes through other connections: it sees committed rows only, *)
(* and its alerts, scores and blocks stay when the order is rolled back.   *)
(*                                                                         *)
(* user:   the committed row of each user, with the number of its orders   *)
(*         by status (all within the 24 hours checkBeforeCreateOrder looks *)
(*         back).                                                          *)
(* alerts: per user, how many alerts have each status.                     *)
(* job:    what each worker of the API is doing.                           *)
(* past:   per user, the orders under way when it was blocked, those       *)
(*         committed since, those no check has seen, and whether a handler *)
(*         was lost before its block since the score was written; history. *)
(***************************************************************************)
EXTENDS Naturals, FiniteSets

CONSTANTS Users, Workers,
          AmlEnabled,     \* AML_ENABLED
          OrdersPerDay,   \* THRESHOLDS.ORDERS_PER_DAY: 50 in the code
          Amounts,        \* classes of amounts: "small" is below MIN_AMOUNT, "large" above MAX_AMOUNT
          Newcomer,       \* per user, the points for a young account and few trades
          NoUser,
          MaxOrders,      \* bound: orders of one user
          MaxAlerts       \* bound: alerts of one user

\* REVIEWING is put with RESOLVED: no rule reads either, so they are told apart by nothing.
AlertStatus == {"OPEN", "RESOLVED", "CONFIRMED"}
AmountClasses == {"small", "normal", "large"}

ASSUME ScreeningAssumption ==
    /\ AmlEnabled \in BOOLEAN /\ OrdersPerDay \in Nat
    /\ Newcomer \in [Users -> 0..25]
    /\ Amounts \subseteq AmountClasses
    /\ NoUser \notin Users
    /\ MaxOrders \in Nat /\ MaxAlerts \in Nat
    /\ IsFiniteSet(Workers)

VARIABLES user, alerts, job, past

vars == <<user, alerts, job, past>>

RISK_BLOCK_THRESHOLD   == 80
RISK_WARNING_THRESHOLD == 50

\* A score is known by the thresholds it reaches.  Half of a score is known then too.
Levels == {0, RISK_WARNING_THRESHOLD, RISK_BLOCK_THRESHOLD, 100}
Level(score) == CHOOSE l \in Levels : l <= score /\ \A m \in Levels : m <= score => m <= l

Steps == {"idle", "read", "aml", "address", "verdict", "place", "score", "block", "commit"}

User == [exists: BOOLEAN, isBlocked: BOOLEAN, riskScore: Levels,
         orders: Nat, cancelled: Nat, disputed: Nat]

\* own: this transaction has inserted its user; score: what is added up so far.
Job == [step: Steps, kind: {"order", "risk"}, user: Users \cup {NoUser}, own: BOOLEAN,
        amount: AmountClasses, score: Nat]
Idle == [step |-> "idle", kind |-> "order", user |-> NoUser, own |-> FALSE,
         amount |-> "normal", score |-> 0]

Init ==
    /\ user = [u \in Users |-> [exists |-> FALSE, isBlocked |-> FALSE, riskScore |-> 0,
                                orders |-> 0, cancelled |-> 0, disputed |-> 0]]
    /\ alerts = [u \in Users |-> [s \in AlertStatus |-> 0]]
    /\ job = [w \in Workers |-> Idle]
    /\ past = [u \in Users |-> [running |-> 0, late |-> 0, unseen |-> 0, lost |-> FALSE]]

-----------------------------------------------------------------------------
At(w, step) == job[w].step = step
Busy(u) == {w \in Workers : job[w].user = u}
AllAlerts(u) == alerts[u]["OPEN"] + alerts[u]["RESOLVED"] + alerts[u]["CONFIRMED"]

\* createAlert; an alert starts OPEN.
CreateAlert(u) == alerts' = [alerts EXCEPT ![u]["OPEN"] = @ + 1]

\* Mutant: telegramId is not unique.
BugCreateOrder(w, u, amount) ==
    /\ At(w, "idle")
    /\ user[u].orders + Cardinality(Busy(u)) < MaxOrders
    /\ AllAlerts(u) + 2 * Cardinality(Busy(u)) + 2 <= MaxAlerts
    /\ job' = [job EXCEPT ![w] = [Idle EXCEPT !.step = "read", !.user = u, !.amount = amount,
                                              !.own = ~user[u].exists]]
    /\ UNCHANGED <<user, alerts, past>>

\* A request begins its transaction and finds or inserts its user: a second insertion of one
\* telegramId waits for the first and then fails, so only the first goes on.
CreateOrder(w, u, amount) ==
    /\ At(w, "idle")
    /\ \A v \in Busy(u) : ~job[v].own
    /\ user[u].orders + Cardinality(Busy(u)) < MaxOrders
    /\ AllAlerts(u) + 2 * Cardinality(Busy(u)) + 2 <= MaxAlerts
    /\ job' = [job EXCEPT ![w] = [Idle EXCEPT !.step = "read", !.user = u, !.amount = amount,
                                              !.own = ~user[u].exists]]
    /\ UNCHANGED <<user, alerts, past>>

Points(condition, points) == IF condition THEN points ELSE 0

\* The points for what checkBeforeCreateOrder reads at once at its beginning.
ReadPoints(u) ==
    LET r == user[u] IN
      Points(r.orders > OrdersPerDay, 30)
    + Points(r.riskScore >= RISK_WARNING_THRESHOLD, 20)
    + Points(alerts[u]["OPEN"] > 0, 15)
    + Points(10 * r.cancelled > 3 * r.orders, 20)

\* Mutant: the early return for a blocked user is gone.
BugReadUser(w) ==
    LET u == job[w].user IN
    /\ At(w, "read")
    /\ job' = [job EXCEPT ![w].step = IF user[u].exists THEN "aml" ELSE "place",
                          ![w].score = ReadPoints(u)]
    /\ UNCHANGED <<user, alerts, past>>

\* checkBeforeCreateOrder reads the user: a row not committed yet is not found and passes, a
\* blocked user is refused.
ReadUser(w) ==
    LET u == job[w].user IN
    /\ At(w, "read")
    /\ job' = [job EXCEPT ![w] =
                 IF ~user[u].exists THEN [@ EXCEPT !.step = "place"]
                 ELSE IF user[u].isBlocked THEN Idle
                 ELSE [@ EXCEPT !.step = "aml", !.score = ReadPoints(u)]]
    /\ UNCHANGED <<user, alerts, past>>

\* checkTransaction: what the service decides, REVIEW when it does not answer within 5 s, and
\* when AML is disabled the decision of getMockResponse, drawn at random.
AmlDecisions == {"ALLOW", "REVIEW", "BLOCK"}

AmlPoints == [ALLOW |-> 0, REVIEW |-> 25, BLOCK |-> 50]

CheckTransaction(w) ==
    /\ At(w, "aml")
    /\ \E d \in AmlDecisions :
        /\ job' = [job EXCEPT ![w].step = "address", ![w].score = @ + AmlPoints[d]]
        /\ IF d = "BLOCK" THEN CreateAlert(job[w].user) ELSE UNCHANGED alerts
    /\ UNCHANGED <<user, past>>

\* Mutant: the request has no timeout and the AML platform is silent.
BugCheckAddress(w) ==
    /\ At(w, "address") /\ ~AmlEnabled
    /\ job' = [job EXCEPT ![w].step = "verdict"]
    /\ UNCHANGED <<user, alerts, past>>

\* checkAddress: nothing is blacklisted when AML is disabled or does not answer within 3 s.
CheckAddress(w) ==
    /\ At(w, "address")
    /\ \E listed \in IF AmlEnabled THEN BOOLEAN ELSE {FALSE} :
        job' = [job EXCEPT ![w].step = "verdict", ![w].score = @ + Points(listed, 40)]
    /\ UNCHANGED <<user, alerts, past>>

\* The whole score; what is unusual about the amount is added last.
Total(j) == j.score + Points(j.amount = "large", 25) + Points(j.amount = "small", 10)

\* Of a check that passed, the handler keeps nothing but its user.
Passed(j) == [Idle EXCEPT !.step = "place", !.user = j.user]

Verdict(w) ==
    /\ At(w, "verdict")
    /\ IF Total(job[w]) >= RISK_WARNING_THRESHOLD
       THEN CreateAlert(job[w].user) ELSE UNCHANGED alerts
    /\ job' = [job EXCEPT ![w] = IF Total(@) >= RISK_BLOCK_THRESHOLD THEN Idle
                                 ELSE Passed(@)]
    /\ UNCHANGED <<user, past>>

\* What updateUserRiskScore makes of a user's rows: Math.round of the exact value, cut off at
\* 100, of which only the thresholds it has reached are kept.
RiskScore(u) ==
    LET r     == user[u]
        rates == IF r.orders = 0 THEN 0
                 ELSE (60 * r.cancelled + 80 * r.disputed + r.orders) \div (2 * r.orders)
        open  == alerts[u]["OPEN"] + alerts[u]["CONFIRMED"]
        sum   == rates + 10 * open + Newcomer[u]
    IN  Level(sum)

\* The order is written in the open transaction, then updateUserRiskScore reads the committed
\* rows; a user inserted by this transaction is not among them.
ReadHistory(w) ==
    LET u == job[w].user IN
    /\ At(w, "place")
    /\ job' = [job EXCEPT ![w] = IF user[u].exists
                                 THEN [@ EXCEPT !.step = "score", !.score = RiskScore(u)]
                                 ELSE [@ EXCEPT !.step = "commit"]]
    /\ UNCHANGED <<user, alerts, past>>

\* The balance check, the settlement strategy, the reserve or the commit fails; or, at any
\* step, a statement throws or the process dies.  The score is one statement and the block the
\* next: what the handler has written stays.
Fail(w) ==
    /\ ~At(w, "idle")
    /\ job' = [job EXCEPT ![w] = Idle]
    /\ past' = IF At(w, "block") THEN [past EXCEPT ![job[w].user].lost = ~user[job[w].user].isBlocked]
             ELSE past
    /\ UNCHANGED <<user, alerts>>

AfterScoring(j) == IF j.kind = "order" THEN [j EXCEPT !.step = "commit", !.score = 0] ELSE Idle

\* Mutant: the block is decided on the score stored before.
BugWriteScore(w) ==
    /\ At(w, "score")
    /\ user' = [user EXCEPT ![job[w].user].riskScore = job[w].score]
    /\ job' = [job EXCEPT ![w] = IF user[job[w].user].riskScore >= RISK_BLOCK_THRESHOLD
                                 THEN [@ EXCEPT !.step = "block", !.score = 0] ELSE AfterScoring(@)]
    /\ past' = [past EXCEPT ![job[w].user].lost = FALSE]
    /\ UNCHANGED alerts

WriteScore(w) ==
    /\ At(w, "score")
    /\ user' = [user EXCEPT ![job[w].user].riskScore = job[w].score]
    /\ job' = [job EXCEPT ![w] = IF @.score >= RISK_BLOCK_THRESHOLD
                                 THEN [@ EXCEPT !.step = "block", !.score = 0] ELSE AfterScoring(@)]
    /\ past' = [past EXCEPT ![job[w].user].lost = FALSE]
    /\ UNCHANGED alerts

\* A write of its own: an unblockUser that came in between is undone.
WriteBlock(w) ==
    /\ At(w, "block")
    /\ user' = [user EXCEPT ![job[w].user].isBlocked = TRUE]
    /\ past' = [past EXCEPT ![job[w].user].running =
                  IF user[job[w].user].isBlocked THEN @
                  ELSE Cardinality({v \in Busy(job[w].user) :
                                        job[v].kind = "order" /\ ~At(v, "read")}),
                         ![job[w].user].lost = FALSE]
    /\ job' = [job EXCEPT ![w] = AfterScoring(@)]
    /\ UNCHANGED alerts

Commit(w) ==
    LET u == job[w].user IN
    /\ At(w, "commit")
    /\ user' = [user EXCEPT ![u].exists = TRUE, ![u].orders = @ + 1]
    /\ past' = [past EXCEPT ![u].late = IF user[u].isBlocked THEN @ + 1 ELSE @,
                         ![u].unseen = IF job[w].own THEN @ + 1 ELSE @]
    /\ job' = [job EXCEPT ![w] = Idle]
    /\ UNCHANGED alerts

-----------------------------------------------------------------------------
(* The administrator's requests and what happens to orders.  FraudController declares the    *)
(* requests; FraudModule does not list it, so that they wait for a line of configuration.    *)

GetUserRiskScore(w, u) ==
    /\ At(w, "idle") /\ user[u].exists
    /\ job' = [job EXCEPT ![w] = [Idle EXCEPT !.step = "place", !.kind = "risk", !.user = u]]
    /\ UNCHANGED <<user, alerts, past>>

UpdateAlertStatus(u, from, to) ==
    /\ from # to /\ alerts[u][from] > 0
    /\ alerts' = [alerts EXCEPT ![u][from] = @ - 1, ![u][to] = @ + 1]
    /\ UNCHANGED <<user, job, past>>

\* riskScore is halved in the same write.
UnblockUser(u) ==
    /\ user[u].exists
    /\ user' = [user EXCEPT ![u].isBlocked = FALSE, ![u].riskScore = Level(@ \div 2)]
    /\ past' = [past EXCEPT ![u].late = 0, ![u].running = 0, ![u].lost = FALSE]
    /\ UNCHANGED <<alerts, job>>

\* An order of u is cancelled or disputed, or its dispute is resolved (OrderRequests
\* has how); no score is updated then.
OrderChanges(u) ==
    /\ \/ /\ user[u].cancelled + user[u].disputed < user[u].orders
          /\ \/ user' = [user EXCEPT ![u].cancelled = @ + 1]
             \/ user' = [user EXCEPT ![u].disputed = @ + 1]
       \/ /\ user[u].disputed > 0
          /\ user' = [user EXCEPT ![u].disputed = @ - 1]
    /\ UNCHANGED <<alerts, job, past>>

Step(w) ==
    \/ ReadUser(w) \/ CheckTransaction(w) \/ CheckAddress(w) \/ Verdict(w)
    \/ ReadHistory(w) \/ WriteScore(w) \/ WriteBlock(w) \/ Commit(w)

Next ==
    \/ \E w \in Workers : Step(w) \/ Fail(w)
    \/ \E w \in Workers, u \in Users, a \in Amounts : CreateOrder(w, u, a)
    \/ \E w \in Workers, u \in Users : GetUserRiskScore(w, u)
    \/ \E u \in Users : UnblockUser(u) \/ OrderChanges(u)
    \/ \E u \in Users, from, to \in AlertStatus : UpdateAlertStatus(u, from, to)

\* Node runs a handler on as long as its awaits return, and each of them does: the HTTP calls
\* have timeouts, and OrderConnections shows that no wait for a row or a connection lasts.
Spec == Init /\ [][Next]_vars /\ \A w \in Workers : WF_vars(Step(w))

-----------------------------------------------------------------------------
TypeOK ==
    /\ user \in [Users -> User]
    /\ alerts \in [Users -> [AlertStatus -> Nat]]
    /\ job \in [Workers -> Job]
    /\ past \in [Users -> [running: Nat, late: Nat, unseen: Nat, lost: BOOLEAN]]

\* A user with a score of 80 or more is blocked, or a handler is just about to block it, or
\* was lost just before it could: the score and the block are two statements of no
\* transaction, and nothing takes the block up again but the user's next scoring.  That is the
\* only way a high score comes without a block, whatever checks, scorings and unblockings run
\* side by side: unblockUser halves the one while it clears the other.
HighRiskIsBlocked ==
    \A u \in Users : user[u].riskScore >= RISK_BLOCK_THRESHOLD =>
        \/ user[u].isBlocked
        \/ \E w \in Busy(u) : At(w, "block")
        \/ past[u].lost

\* A block stops all orders but those whose handler had read the user before it: until an
\* administrator lifts it, a blocked user gains no more orders than were being checked then.
BlockStopsOrders == \A u \in Users : past[u].late <= past[u].running

\* The check does not see a user its own transaction inserts, so a first order passes without
\* any check, AML included; but no second one does, even if first orders are sent together.
OneUnseenOrder == \A u \in Users : past[u].unseen <= 1

\* Every request screened is answered, also when the AML platform never answers.
ScreeningEnds == \A w \in Workers : job[w].step # "idle" ~> job[w].step = "idle"
=============================================================================

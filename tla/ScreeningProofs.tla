--------------------------- MODULE ScreeningProofs ---------------------------
(***************************************************************************)
(* Proofs about Screening for any users, any number of handlers and any    *)
(* thresholds of orders.  Fit says what a handler's step tells about its   *)
(* job and its user, Alone that the handler that inserts a user is its     *)
(* user's only one; a block counts the handlers it cannot stop any more    *)
(* (Going).                                                                *)
(***************************************************************************)
EXTENDS Screening, FiniteSetTheorems, TLAPS

\* The handlers that will commit an order of u whatever happens to u's row.
Going(u) == {v \in Workers : job[v].user = u /\ job[v].kind = "order" /\ job[v].step # "read"}

Fit(j) ==
    /\ j.step = "idle" <=> j.user = NoUser
    /\ j.step = "score" => j.score \in Levels
    /\ j.kind = "risk" => j.step \in {"place", "score", "block"}
    /\ j.own <=> (j.user # NoUser /\ ~user[j.user].exists)
    /\ j.own => j.step \in {"read", "place", "commit"} /\ j.kind = "order"

Jobs == \A w \in Workers : Fit(job[w])

Alone == \A v, w \in Workers : job[v].own /\ job[w].user = job[v].user => w = v

Rows ==
    \A u \in Users :
        /\ user[u].isBlocked => user[u].exists
        /\ ~user[u].isBlocked => past[u].late = 0
        /\ ~user[u].exists => past[u].unseen = 0
        /\ past[u].unseen <= 1

\* HighRiskIsBlocked without the name of the set of a user's handlers.
Blocked ==
    \A u \in Users : user[u].riskScore >= RISK_BLOCK_THRESHOLD =>
        \/ user[u].isBlocked \/ past[u].lost
        \/ \E w \in Workers : job[w].user = u /\ job[w].step = "block"

Counted ==
    \A u \in Users : user[u].isBlocked =>
        past[u].late + Cardinality(Going(u)) <= past[u].running

Inv == TypeOK /\ Jobs /\ Alone /\ Rows /\ Blocked /\ Counted

-----------------------------------------------------------------------------
LEMMA LevelsAre == Levels = {0, 50, 80, 100}
BY DEF Levels, RISK_WARNING_THRESHOLD, RISK_BLOCK_THRESHOLD

\* A score reaches exactly one highest threshold.
LEMMA LevelType ==
    ASSUME NEW n \in Nat
    PROVE  /\ Level(n) \in Levels
           /\ n < 80 => Level(n) < 80
<1> DEFINE P(l) == l <= n /\ \A m \in Levels : m <= n => m <= l
<1>1. \E l \in Levels : P(l)
    <2>1. CASE n >= 100
        <3>1. P(100)
            BY <2>1, LevelsAre
        <3> QED BY <3>1, LevelsAre
    <2>2. CASE n >= 80 /\ n < 100
        <3>1. P(80)
            BY <2>2, LevelsAre
        <3> QED BY <3>1, LevelsAre
    <2>3. CASE n >= 50 /\ n < 80
        <3>1. P(50)
            BY <2>3, LevelsAre
        <3> QED BY <3>1, LevelsAre
    <2>4. CASE n < 50
        <3>1. P(0)
            BY <2>4, LevelsAre
        <3> QED BY <3>1, LevelsAre
    <2> QED BY <2>1, <2>2, <2>3, <2>4
<1>2. Level(n) = CHOOSE l \in Levels : P(l)
    BY DEF Level
<1>3. Level(n) \in Levels /\ P(Level(n))
    BY <1>1, <1>2
<1> QED BY <1>3, LevelsAre

LEMMA JobIdle == Idle \in Job /\ Idle.step = "idle" /\ Idle.user = NoUser /\ ~Idle.own
                   /\ Idle.kind = "order"
BY ScreeningAssumption DEF Idle, Job, Steps, AmountClasses

\* An idle handler fits, whoever the users are.
LEMMA IdleFits == Fit(Idle)
BY JobIdle DEF Fit, Idle

LEMMA GoingFinite ==
    ASSUME NEW u
    PROVE  IsFiniteSet(Going(u)) /\ Cardinality(Going(u)) \in Nat
<1>1. Going(u) \subseteq Workers
    BY DEF Going
<1> QED BY <1>1, ScreeningAssumption, FS_Subset, FS_CardinalityType

\* A user's row has the types the database gives it.
LEMMA RowType ==
    ASSUME TypeOK, NEW u \in Users
    PROVE  /\ user[u] \in User
           /\ past[u] \in [running: Nat, late: Nat, unseen: Nat, lost: BOOLEAN]
           /\ past[u].late \in Nat /\ past[u].running \in Nat /\ past[u].unseen \in Nat
           /\ \A s \in AlertStatus : alerts[u][s] \in Nat
BY DEF TypeOK

LEMMA ReadPointsType ==
    ASSUME NEW u
    PROVE  ReadPoints(u) \in Nat
BY DEF ReadPoints, Points

LEMMA RiskScoreType ==
    ASSUME TypeOK, NEW u \in Users
    PROVE  RiskScore(u) \in Levels
<1> DEFINE r     == user[u]
           rates == IF r.orders = 0 THEN 0
                    ELSE (60 * r.cancelled + 80 * r.disputed + r.orders) \div (2 * r.orders)
           open  == alerts[u]["OPEN"] + alerts[u]["CONFIRMED"]
<1>1. r.orders \in Nat /\ r.cancelled \in Nat /\ r.disputed \in Nat
    BY RowType DEF User
<1>2. rates \in Nat
    <2>1. \A a \in Nat, b \in Nat \ {0} : a \div b \in Nat
        OBVIOUS
    <2>2. 60 * r.cancelled + 80 * r.disputed + r.orders \in Nat
        BY <1>1
    <2>3. r.orders # 0 => 2 * r.orders \in Nat \ {0}
        BY <1>1
    <2> QED BY <2>1, <2>2, <2>3
<1>3. open \in Nat
    BY RowType DEF AlertStatus
<1>4. Newcomer[u] \in Nat
    BY ScreeningAssumption
<1> HIDE DEF rates, open
<1>5. rates + 10 * open + Newcomer[u] \in Nat
    BY <1>2, <1>3, <1>4
<1> QED BY <1>5, LevelType DEF RiskScore, rates, open

-----------------------------------------------------------------------------
\* A handler moves to k, and no row changes; if it gives up a block, that is recorded.  Either
\* k is for the handler's own user (or none) and commits nothing that would not have been
\* committed; or k is a new request, of a user nobody is inserting.
LEMMA MoveOrLossKeeps ==
    ASSUME Inv, NEW w \in Workers, NEW k \in Job, job' = [job EXCEPT ![w] = k],
           UNCHANGED user, alerts' \in [Users -> [AlertStatus -> Nat]],
           past' \in [Users -> [running: Nat, late: Nat, unseen: Nat, lost: BOOLEAN]],
           \A u \in Users :
               /\ past'[u].running = past[u].running /\ past'[u].late = past[u].late
               /\ past'[u].unseen = past[u].unseen
               /\ past[u].lost \/ (job[w].step = "block" /\ job[w].user = u)
                     => past'[u].lost \/ user[u].isBlocked,
           Fit(k),
           \/ /\ k.user \in {job[w].user, NoUser}
              /\ k.user # NoUser /\ k.kind = "order" /\ k.step # "read" =>
                    \/ job[w].kind = "order" /\ job[w].step # "read"
                    \/ ~user[k.user].isBlocked
           \/ /\ k.kind = "risk" \/ k.step = "read"
              /\ \A v \in Workers : job[v].user = k.user => ~job[v].own /\ ~k.own
    PROVE  Inv'
<1>1. job \in [Workers -> Job] /\ job' \in [Workers -> Job] /\ job'[w] = k
      /\ \A v \in Workers \ {w} : job'[v] = job[v]
    BY DEF Inv, TypeOK
<1>2. TypeOK'
    BY <1>1 DEF Inv, TypeOK
<1>3. \A v \in Workers : Fit(job[v])
    BY DEF Inv, Jobs
<1>4. Jobs'
    <2>1. \A v \in Workers : Fit(job'[v])
        BY <1>1, <1>3
    <2> QED BY <2>1 DEF Jobs, Fit
<1>5. Alone'
    <2> SUFFICES ASSUME NEW v \in Workers, NEW x \in Workers, job'[v].own,
                        job'[x].user = job'[v].user
                 PROVE  x = v
        BY DEF Alone
    <2>1. CASE x # w /\ v # w
        BY <2>1, <1>1 DEF Inv, Alone
    <2>2. CASE v = w /\ x # w
        BY <2>2, <1>1, <1>3 DEF Inv, Alone, Fit
    <2>3. CASE x = w /\ v # w
        BY <2>3, <1>1, <1>3 DEF Inv, Alone, Fit
    <2> QED BY <2>1, <2>2, <2>3
<1>6. Rows'
    BY DEF Inv, Rows
<1>7. Blocked'
    <2> SUFFICES ASSUME NEW u \in Users, user[u].riskScore >= RISK_BLOCK_THRESHOLD,
                        ~user[u].isBlocked, ~past'[u].lost
                 PROVE  \E v \in Workers : job'[v].user = u /\ job'[v].step = "block"
        BY DEF Blocked
    <2>1. PICK v \in Workers : job[v].user = u /\ job[v].step = "block"
        BY DEF Inv, Blocked
    <2> QED BY <2>1, <1>1
<1>8. Counted'
    <2> SUFFICES ASSUME NEW u \in Users, user[u].isBlocked
                 PROVE  past'[u].late + Cardinality(Going(u)') <= past'[u].running
        BY DEF Counted
    <2>1. Going(u)' \subseteq Going(u)
        <3> SUFFICES ASSUME NEW v \in Going(u)' PROVE v \in Going(u)
            OBVIOUS
        <3>1. v \in Workers /\ job'[v].user = u /\ job'[v].kind = "order"
              /\ job'[v].step # "read"
            BY DEF Going
        <3>2. CASE v # w
            BY <3>1, <3>2, <1>1 DEF Going
        <3>3. CASE v = w
            BY <3>1, <3>3, <1>1, ScreeningAssumption DEF Going
        <3> QED BY <3>2, <3>3
    <2>2. Cardinality(Going(u)') <= Cardinality(Going(u)) /\ Cardinality(Going(u)') \in Nat
        BY <2>1, GoingFinite, FS_Subset, FS_CardinalityType
    <2>3. past[u].late \in Nat /\ past[u].running \in Nat
        BY RowType DEF Inv
    <2> QED BY <2>2, <2>3, GoingFinite DEF Inv, Counted
<1> QED BY <1>2, <1>4, <1>5, <1>6, <1>7, <1>8 DEF Inv

\* A handler that is not about to block moves, and nothing is lost.
LEMMA MoveKeeps ==
    ASSUME Inv, NEW w \in Workers, NEW k \in Job, job' = [job EXCEPT ![w] = k],
           UNCHANGED <<user, past>>, alerts' \in [Users -> [AlertStatus -> Nat]],
           Fit(k), job[w].step # "block",
           \/ /\ k.user \in {job[w].user, NoUser}
              /\ k.user # NoUser /\ k.kind = "order" /\ k.step # "read" =>
                    \/ job[w].kind = "order" /\ job[w].step # "read"
                    \/ ~user[k.user].isBlocked
           \/ /\ k.kind = "risk" \/ k.step = "read"
              /\ \A v \in Workers : job[v].user = k.user => ~job[v].own /\ ~k.own
    PROVE  Inv'
BY MoveOrLossKeeps DEF Inv, TypeOK

LEMMA IdleKeeps ==
    ASSUME Inv, NEW w \in Workers, job' = [job EXCEPT ![w] = Idle], job[w].step # "block",
           UNCHANGED <<user, past>>, alerts' \in [Users -> [AlertStatus -> Nat]]
    PROVE  Inv'
BY MoveKeeps, IdleFits, JobIdle

LEMMA AlertType ==
    ASSUME TypeOK, NEW u \in Users, CreateAlert(u) \/ UNCHANGED alerts
    PROVE  alerts' \in [Users -> [AlertStatus -> Nat]]
BY DEF TypeOK, CreateAlert, AlertStatus

\* k is j one step on: another step, and perhaps another score.
Onward(j, k, s, n) ==
    /\ k.step = s /\ k.score = n
    /\ k.user = j.user /\ k.kind = j.kind /\ k.own = j.own /\ k.amount = j.amount

LEMMA StepOn ==
    ASSUME NEW j \in Job, NEW s \in Steps, NEW n \in Nat
    PROVE  /\ \E k \in Job : k = [j EXCEPT !.step = s] /\ Onward(j, k, s, j.score)
           /\ \E k \in Job : k = [j EXCEPT !.step = s, !.score = n] /\ Onward(j, k, s, n)
<1>1. [j EXCEPT !.step = s] \in Job /\ Onward(j, [j EXCEPT !.step = s], s, j.score)
    BY DEF Job, Onward
<1>2. /\ [j EXCEPT !.step = s, !.score = n] \in Job
      /\ Onward(j, [j EXCEPT !.step = s, !.score = n], s, n)
    BY DEF Job, Onward
<1> QED BY <1>1, <1>2

\* The job of a handler at work.
LEMMA AtWork ==
    ASSUME Inv, NEW w \in Workers, job[w].step # "idle"
    PROVE  \E j \in Job : j = job[w] /\ j.user \in Users /\ Fit(j) /\ j.score \in Nat
<1>1. job[w] \in Job /\ Fit(job[w])
    BY DEF Inv, TypeOK, Jobs
<1> QED BY <1>1 DEF Fit, Job

LEMMA CreateOrderKeeps ==
    ASSUME Inv, NEW w \in Workers, NEW u \in Users, NEW a \in Amounts, CreateOrder(w, u, a)
    PROVE  Inv'
<1> DEFINE k == [Idle EXCEPT !.step = "read", !.user = u, !.amount = a, !.own = ~user[u].exists]
<1>1. /\ job[w].step = "idle" /\ \A v \in Busy(u) : ~job[v].own
      /\ job' = [job EXCEPT ![w] = k] /\ UNCHANGED <<user, alerts, past>>
    BY DEF CreateOrder, At
<1>2. user[u].exists \in BOOLEAN
    BY RowType DEF Inv, User
<1>3. /\ k \in Job /\ k.step = "read" /\ k.user = u /\ k.kind = "order"
      /\ k.own <=> ~user[u].exists
    BY <1>2, ScreeningAssumption DEF Job, Idle, Steps
<1> HIDE DEF k
<1>4. Fit(k)
    BY <1>3, ScreeningAssumption DEF Fit
<1>5. \A v \in Workers : job[v].user = k.user => ~job[v].own /\ ~k.own
    BY <1>1, <1>3, ScreeningAssumption DEF Inv, Jobs, Fit, Busy
<1> QED BY <1>1, <1>3, <1>4, <1>5, MoveKeeps DEF Inv, TypeOK

LEMMA RiskScoreKeeps ==
    ASSUME Inv, NEW w \in Workers, NEW u \in Users, GetUserRiskScore(w, u)
    PROVE  Inv'
<1> DEFINE k == [Idle EXCEPT !.step = "place", !.kind = "risk", !.user = u]
<1>1. /\ job[w].step = "idle" /\ user[u].exists
      /\ job' = [job EXCEPT ![w] = k] /\ UNCHANGED <<user, alerts, past>>
    BY DEF GetUserRiskScore, At
<1>2. k \in Job /\ k.step = "place" /\ k.user = u /\ k.kind = "risk" /\ ~k.own
    BY ScreeningAssumption DEF Job, Idle, Steps, AmountClasses
<1> HIDE DEF k
<1>3. Fit(k)
    BY <1>1, <1>2, ScreeningAssumption DEF Fit
<1>4. \A v \in Workers : job[v].user = k.user => ~job[v].own /\ ~k.own
    BY <1>1, <1>2, ScreeningAssumption DEF Inv, Jobs, Fit
<1> QED BY <1>1, <1>2, <1>3, <1>4, MoveKeeps DEF Inv, TypeOK

LEMMA ReadUserKeeps ==
    ASSUME Inv, NEW w \in Workers, ReadUser(w)
    PROVE  Inv'
<1>1. PICK j \in Job : j = job[w] /\ j.user \in Users /\ Fit(j) /\ j.step = "read"
    BY AtWork DEF ReadUser, At
<1>2. UNCHANGED <<user, alerts, past>>
    BY DEF ReadUser
<1>3. CASE ~user[j.user].exists
    <2>1. PICK k \in Job : k = [j EXCEPT !.step = "place"] /\ Onward(j, k, "place", j.score)
        BY StepOn DEF Steps
    <2>2. job' = [job EXCEPT ![w] = k]
        BY <1>1, <1>3, <2>1 DEF ReadUser
    <2>3. Fit(k) /\ ~user[k.user].isBlocked
        BY <1>1, <1>3, <2>1 DEF Onward, Fit, Inv, Rows
    <2> QED BY <1>1, <1>2, <2>1, <2>2, <2>3, MoveKeeps DEF Onward, Inv, TypeOK
<1>4. CASE user[j.user].exists /\ user[j.user].isBlocked
    <2>1. job' = [job EXCEPT ![w] = Idle]
        BY <1>1, <1>4 DEF ReadUser
    <2> QED BY <1>1, <1>2, <2>1, IdleKeeps DEF Inv, TypeOK
<1>5. CASE user[j.user].exists /\ ~user[j.user].isBlocked
    <2>1. PICK k \in Job : /\ k = [j EXCEPT !.step = "aml", !.score = ReadPoints(j.user)]
                           /\ Onward(j, k, "aml", ReadPoints(j.user))
        BY StepOn, ReadPointsType DEF Steps
    <2>2. job' = [job EXCEPT ![w] = k]
        BY <1>1, <1>5, <2>1 DEF ReadUser
    <2>3. Fit(k) /\ ~user[k.user].isBlocked
        BY <1>1, <1>5, <2>1 DEF Onward, Fit
    <2> QED BY <1>1, <1>2, <2>1, <2>2, <2>3, MoveKeeps DEF Onward, Inv, TypeOK
<1> QED BY <1>3, <1>4, <1>5

LEMMA CheckTransactionKeeps ==
    ASSUME Inv, NEW w \in Workers, CheckTransaction(w)
    PROVE  Inv'
<1>1. PICK j \in Job : j = job[w] /\ j.user \in Users /\ Fit(j) /\ j.step = "aml" /\ j.score \in Nat
    BY AtWork DEF CheckTransaction, At
<1>2. PICK d \in AmlDecisions :
        /\ job' = [job EXCEPT ![w].step = "address", ![w].score = @ + AmlPoints[d]]
        /\ CreateAlert(j.user) \/ UNCHANGED alerts
    BY <1>1 DEF CheckTransaction
<1>3. AmlPoints[d] \in Nat
    BY DEF AmlDecisions, AmlPoints
<1>4. j.score + AmlPoints[d] \in Nat
    BY <1>1, <1>3
<1>5. PICK k \in Job : /\ k = [j EXCEPT !.step = "address", !.score = j.score + AmlPoints[d]]
                       /\ Onward(j, k, "address", j.score + AmlPoints[d])
    BY <1>4, StepOn DEF Steps
<1>6. job' = [job EXCEPT ![w] = k]
    BY <1>1, <1>2, <1>5
<1>7. Fit(k) /\ UNCHANGED <<user, past>>
    BY <1>1, <1>5 DEF Onward, Fit, CheckTransaction
<1>8. alerts' \in [Users -> [AlertStatus -> Nat]]
    BY <1>1, <1>2, AlertType DEF Inv
<1> QED BY <1>1, <1>5, <1>6, <1>7, <1>8, MoveKeeps DEF Onward

LEMMA CheckAddressKeeps ==
    ASSUME Inv, NEW w \in Workers, CheckAddress(w)
    PROVE  Inv'
<1>1. PICK j \in Job :
        j = job[w] /\ j.user \in Users /\ Fit(j) /\ j.step = "address" /\ j.score \in Nat
    BY AtWork DEF CheckAddress, At
<1>2. PICK n \in Nat : job' = [job EXCEPT ![w].step = "verdict", ![w].score = @ + n]
    <2>1. \A b \in BOOLEAN : Points(b, 40) \in Nat
        BY DEF Points
    <2>2. PICK b \in BOOLEAN :
            job' = [job EXCEPT ![w].step = "verdict", ![w].score = @ + Points(b, 40)]
        BY ScreeningAssumption DEF CheckAddress
    <2> QED BY <2>1, <2>2
<1>3. PICK k \in Job : /\ k = [j EXCEPT !.step = "verdict", !.score = j.score + n]
                       /\ Onward(j, k, "verdict", j.score + n)
    <2>1. j.score + n \in Nat
        BY <1>1
    <2> QED BY <2>1, StepOn DEF Steps
<1>4. job' = [job EXCEPT ![w] = k]
    BY <1>1, <1>2, <1>3
<1>5. Fit(k) /\ UNCHANGED <<user, alerts, past>>
    BY <1>1, <1>3 DEF Onward, Fit, CheckAddress
<1> QED BY <1>1, <1>3, <1>4, <1>5, MoveKeeps DEF Onward, Inv, TypeOK

LEMMA VerdictKeeps ==
    ASSUME Inv, NEW w \in Workers, Verdict(w)
    PROVE  Inv'
<1>1. PICK j \in Job : j = job[w] /\ j.user \in Users /\ Fit(j) /\ j.step = "verdict"
    BY AtWork DEF Verdict, At
<1>2. /\ CreateAlert(j.user) \/ UNCHANGED alerts
      /\ UNCHANGED <<user, past>>
    BY <1>1 DEF Verdict
<1>3. alerts' \in [Users -> [AlertStatus -> Nat]]
    BY <1>1, <1>2, AlertType DEF Inv
<1>4. CASE job' = [job EXCEPT ![w] = Idle]
    BY <1>1, <1>2, <1>3, <1>4, IdleKeeps
<1>5. CASE job' = [job EXCEPT ![w] = Passed(j)]
    <2>1. /\ Passed(j) \in Job
          /\ Passed(j).step = "place" /\ Passed(j).user = j.user /\ Passed(j).kind = "order"
          /\ ~Passed(j).own
        BY <1>1, JobIdle DEF Passed, Job, Steps, Idle
    <2>2. PICK k \in Job : /\ k = Passed(j)
                           /\ k.step = "place" /\ k.user = j.user /\ k.kind = "order" /\ ~k.own
        BY <2>1
    <2>3. Fit(k)
        BY <1>1, <2>2, ScreeningAssumption DEF Fit
    <2>4. job[w].kind = "order"
        BY <1>1 DEF Fit, Job
    <2> QED BY <1>1, <1>2, <1>3, <1>5, <2>2, <2>3, <2>4, MoveKeeps
<1> QED BY <1>1, <1>4, <1>5 DEF Verdict

LEMMA ReadHistoryKeeps ==
    ASSUME Inv, NEW w \in Workers, ReadHistory(w)
    PROVE  Inv'
<1>1. PICK j \in Job :
        j = job[w] /\ j.user \in Users /\ Fit(j) /\ j.step = "place" /\ j.score \in Nat
    BY AtWork DEF ReadHistory, At
<1>2. UNCHANGED <<user, alerts, past>>
    BY DEF ReadHistory
<1>3. CASE user[j.user].exists
    <2>1. RiskScore(j.user) \in Levels /\ RiskScore(j.user) \in Nat
        BY <1>1, RiskScoreType, LevelsAre DEF Inv
    <2>2. PICK k \in Job : /\ k = [j EXCEPT !.step = "score", !.score = RiskScore(j.user)]
                           /\ Onward(j, k, "score", RiskScore(j.user))
        BY <2>1, StepOn DEF Steps
    <2>3. job' = [job EXCEPT ![w] = k]
        BY <1>1, <1>3, <2>2 DEF ReadHistory
    <2>4. Fit(k)
        BY <1>1, <1>3, <2>1, <2>2 DEF Onward, Fit
    <2> QED BY <1>1, <1>2, <2>2, <2>3, <2>4, MoveKeeps DEF Onward, Inv, TypeOK
<1>4. CASE ~user[j.user].exists
    <2>1. PICK k \in Job : k = [j EXCEPT !.step = "commit"] /\ Onward(j, k, "commit", j.score)
        BY StepOn DEF Steps
    <2>2. job' = [job EXCEPT ![w] = k]
        BY <1>1, <1>4, <2>1 DEF ReadHistory
    <2>3. Fit(k)
        BY <1>1, <1>4, <2>1, ScreeningAssumption DEF Onward, Fit
    <2> QED BY <1>1, <1>2, <2>1, <2>2, <2>3, MoveKeeps DEF Onward, Inv, TypeOK
<1> QED BY <1>3, <1>4

\* A lost handler commits nothing more; a block lost with it is recorded unless the user is
\* blocked already.
LEMMA FailKeeps ==
    ASSUME Inv, NEW w \in Workers, Fail(w)
    PROVE  Inv'
<1>1. PICK j \in Job : j = job[w] /\ j.user \in Users
    BY AtWork DEF Fail, At
<1>2. job' = [job EXCEPT ![w] = Idle] /\ UNCHANGED <<user, alerts>>
    BY DEF Fail
<1>3. user[j.user].isBlocked \in BOOLEAN
    BY <1>1, RowType DEF Inv, User
<1>4. /\ past' \in [Users -> [running: Nat, late: Nat, unseen: Nat, lost: BOOLEAN]]
      /\ \A u \in Users :
           /\ past'[u].running = past[u].running /\ past'[u].late = past[u].late
           /\ past'[u].unseen = past[u].unseen
           /\ past[u].lost \/ (job[w].step = "block" /\ job[w].user = u)
                 => past'[u].lost \/ user[u].isBlocked
    <2>1. CASE j.step = "block"
        <3>1. PICK b \in BOOLEAN : b = ~user[j.user].isBlocked
            BY <1>3
        <3>2. past' = [past EXCEPT ![j.user].lost = b]
            BY <1>1, <2>1, <3>1 DEF Fail, At
        <3>3. past' \in [Users -> [running: Nat, late: Nat, unseen: Nat, lost: BOOLEAN]]
            BY <3>2, <1>1 DEF Inv, TypeOK
        <3>4. ASSUME NEW u \in Users
              PROVE  /\ past'[u].running = past[u].running /\ past'[u].late = past[u].late
                     /\ past'[u].unseen = past[u].unseen
                     /\ past'[u].lost = IF u = j.user THEN b ELSE past[u].lost
            BY <3>2, <1>1 DEF Inv, TypeOK
        <3> QED BY <3>1, <3>3, <3>4, <1>1
    <2>2. CASE j.step # "block"
        <3>1. UNCHANGED past
            BY <1>1, <2>2 DEF Fail, At
        <3> QED BY <3>1, <1>1, <2>2 DEF Inv, TypeOK
    <2> QED BY <2>1, <2>2
<1>5. alerts' \in [Users -> [AlertStatus -> Nat]]
    BY <1>2 DEF Inv, TypeOK
<1> QED BY <1>2, <1>4, <1>5, IdleFits, JobIdle, MoveOrLossKeeps

-----------------------------------------------------------------------------
\* A handler goes on with its job, or drops it; no other handler moves.
LEMMA OneMoves ==
    ASSUME Inv, NEW w \in Workers, NEW k \in Job, job' = [job EXCEPT ![w] = k],
           k.user \in {job[w].user, NoUser}, k.kind = job[w].kind \/ k.user = NoUser,
           job[w].step # "read"
    PROVE  /\ job' \in [Workers -> Job] /\ job'[w] = k
           /\ \A v \in Workers \ {w} : job'[v] = job[v]
           /\ \A u \in Users : /\ Going(u)' \subseteq Going(u)
                               /\ Cardinality(Going(u)') <= Cardinality(Going(u))
                               /\ Cardinality(Going(u)') \in Nat
<1>1. job' \in [Workers -> Job] /\ job'[w] = k /\ \A v \in Workers \ {w} : job'[v] = job[v]
    BY DEF Inv, TypeOK
<1>2. ASSUME NEW u \in Users
      PROVE  /\ Going(u)' \subseteq Going(u)
             /\ Cardinality(Going(u)') <= Cardinality(Going(u))
             /\ Cardinality(Going(u)') \in Nat
    <2>1. Going(u)' \subseteq Going(u)
        <3> SUFFICES ASSUME NEW v \in Going(u)' PROVE v \in Going(u)
            OBVIOUS
        <3>1. v \in Workers /\ job'[v].user = u /\ job'[v].kind = "order"
              /\ job'[v].step # "read"
            BY DEF Going
        <3>2. CASE v # w
            BY <3>1, <3>2, <1>1 DEF Going
        <3>3. CASE v = w
            BY <3>1, <3>3, <1>1, ScreeningAssumption DEF Going
        <3> QED BY <3>2, <3>3
    <2> QED BY <2>1, GoingFinite, FS_Subset, FS_CardinalityType
<1> QED BY <1>1, <1>2

\* What AfterScoring leaves of a job whose scores are written.
LEMMA AfterScoringJob ==
    ASSUME NEW j \in Job, Fit(j), j.step \in {"score", "block"}
    PROVE  \E k \in Job : /\ k = AfterScoring(j) /\ Fit(k) /\ k.step \in {"commit", "idle"}
                          /\ k.user \in {j.user, NoUser}
                          /\ k.kind = j.kind \/ k.user = NoUser
                          /\ ~k.own
<1>1. CASE j.kind = "order"
    <2>1. PICK k \in Job : /\ k = [j EXCEPT !.step = "commit", !.score = 0]
                           /\ Onward(j, k, "commit", 0)
        BY StepOn DEF Steps
    <2>2. k = AfterScoring(j)
        BY <1>1, <2>1 DEF AfterScoring
    <2>3. Fit(k) /\ ~k.own
        BY <1>1, <2>1 DEF Onward, Fit
    <2> QED BY <2>1, <2>2, <2>3 DEF Onward
<1>2. CASE j.kind # "order"
    BY <1>2, JobIdle, IdleFits DEF AfterScoring
<1> QED BY <1>1, <1>2

LEMMA WriteScoreKeeps ==
    ASSUME Inv, NEW w \in Workers, WriteScore(w)
    PROVE  Inv'
<1>1. PICK j \in Job :
        j = job[w] /\ j.user \in Users /\ Fit(j) /\ j.step = "score" /\ j.score \in Levels
    BY AtWork DEF WriteScore, At, Fit
<1>2. /\ user' = [user EXCEPT ![j.user].riskScore = j.score]
      /\ past' = [past EXCEPT ![j.user].lost = FALSE] /\ UNCHANGED alerts
    BY <1>1 DEF WriteScore
<1>3. PICK row \in User : row = [user[j.user] EXCEPT !.riskScore = j.score]
                          /\ row.riskScore = j.score /\ row.exists = user[j.user].exists
                          /\ row.isBlocked = user[j.user].isBlocked
    <2>1. /\ [user[j.user] EXCEPT !.riskScore = j.score] \in User
          /\ [user[j.user] EXCEPT !.riskScore = j.score].riskScore = j.score
          /\ [user[j.user] EXCEPT !.riskScore = j.score].exists = user[j.user].exists
          /\ [user[j.user] EXCEPT !.riskScore = j.score].isBlocked = user[j.user].isBlocked
        BY <1>1, RowType DEF Inv, User
    <2> QED BY <2>1
<1>4. /\ user' \in [Users -> User] /\ user'[j.user].riskScore = j.score
      /\ \A u \in Users : /\ user'[u].exists = user[u].exists
                          /\ user'[u].isBlocked = user[u].isBlocked
                          /\ u # j.user => user'[u].riskScore = user[u].riskScore
    BY <1>1, <1>2, <1>3 DEF Inv, TypeOK
<1>5. PICK k \in Job : /\ job' = [job EXCEPT ![w] = k]
                       /\ Fit(k) /\ ~k.own /\ k.user \in {j.user, NoUser}
                       /\ k.kind = j.kind \/ k.user = NoUser
                       /\ j.score >= 80 => k.step = "block" /\ k.user = j.user
    <2>1. CASE j.score >= 80
        <3>1. PICK k \in Job : /\ k = [j EXCEPT !.step = "block", !.score = 0]
                               /\ Onward(j, k, "block", 0)
            BY StepOn DEF Steps
        <3>2. job' = [job EXCEPT ![w] = k]
            BY <1>1, <2>1, <3>1 DEF WriteScore, RISK_BLOCK_THRESHOLD
        <3>3. Fit(k) /\ ~k.own
            BY <1>1, <3>1 DEF Onward, Fit
        <3> QED BY <3>1, <3>2, <3>3 DEF Onward
    <2>2. CASE ~(j.score >= 80)
        <3>1. job' = [job EXCEPT ![w] = AfterScoring(j)]
            BY <1>1, <2>2 DEF WriteScore, RISK_BLOCK_THRESHOLD
        <3> QED BY <1>1, <2>2, <3>1, AfterScoringJob
    <2> QED BY <2>1, <2>2
<1>6. /\ job' \in [Workers -> Job] /\ job'[w] = k
      /\ \A v \in Workers \ {w} : job'[v] = job[v]
      /\ \A u \in Users : /\ Cardinality(Going(u)') <= Cardinality(Going(u))
                          /\ Cardinality(Going(u)') \in Nat
    BY <1>1, <1>5, OneMoves
<1>7. /\ past' \in [Users -> [running: Nat, late: Nat, unseen: Nat, lost: BOOLEAN]]
      /\ \A u \in Users :
           /\ past'[u].running = past[u].running /\ past'[u].late = past[u].late
           /\ past'[u].unseen = past[u].unseen
           /\ u # j.user => past'[u].lost = past[u].lost
    BY <1>1, <1>2 DEF Inv, TypeOK
<1>8. TypeOK'
    BY <1>2, <1>4, <1>6, <1>7 DEF Inv, TypeOK
<1>9. Jobs'
    <2>1. \A v \in Workers : Fit(job'[v])
        BY <1>5, <1>6 DEF Inv, Jobs
    <2>2. \A v \in Workers : job'[v].user \in Users \cup {NoUser}
        BY <1>6 DEF Job
    <2> QED BY <2>1, <2>2, <1>4 DEF Jobs, Fit
<1>10. Alone'
    BY <1>1, <1>5, <1>6, ScreeningAssumption DEF Inv, Alone, Jobs, Fit
<1>11. Rows'
    BY <1>4, <1>7 DEF Inv, Rows
<1>12. Blocked'
    <2> SUFFICES ASSUME NEW u \in Users, user'[u].riskScore >= RISK_BLOCK_THRESHOLD,
                        ~user'[u].isBlocked, ~past'[u].lost
                 PROVE  \E v \in Workers : job'[v].user = u /\ job'[v].step = "block"
        BY DEF Blocked
    <2>1. CASE u = j.user
        BY <2>1, <1>4, <1>5, <1>6 DEF RISK_BLOCK_THRESHOLD
    <2>2. CASE u # j.user
        <3>1. PICK v \in Workers : job[v].user = u /\ job[v].step = "block"
            BY <2>2, <1>4, <1>7 DEF Inv, Blocked
        <3> QED BY <3>1, <1>1, <1>6
    <2> QED BY <2>1, <2>2
<1>13. Counted'
    <2> SUFFICES ASSUME NEW u \in Users, user[u].isBlocked
                 PROVE  past'[u].late + Cardinality(Going(u)') <= past'[u].running
        BY <1>4 DEF Counted
    <2> QED BY <1>6, <1>7, GoingFinite, RowType DEF Inv, Counted
<1> QED BY <1>8, <1>9, <1>10, <1>11, <1>12, <1>13 DEF Inv

\* A block counts the orders it comes too late for.
LEMMA WriteBlockKeeps ==
    ASSUME Inv, NEW w \in Workers, WriteBlock(w)
    PROVE  Inv'
<1>1. PICK j \in Job : j = job[w] /\ j.user \in Users /\ Fit(j) /\ j.step = "block"
    BY AtWork DEF WriteBlock, At
<1> DEFINE running == IF user[j.user].isBlocked THEN past[j.user].running
                      ELSE Cardinality(Going(j.user))
<1>2. /\ user' = [user EXCEPT ![j.user].isBlocked = TRUE]
      /\ past' = [past EXCEPT ![j.user].running = running, ![j.user].lost = FALSE]
      /\ job' = [job EXCEPT ![w] = AfterScoring(j)]
      /\ UNCHANGED alerts
    <2>1. Going(j.user) = {v \in Busy(j.user) : job[v].kind = "order" /\ ~At(v, "read")}
        BY DEF Going, Busy, At
    <2> QED BY <1>1, <2>1 DEF WriteBlock
<1>3. running \in Nat
    BY <1>1, GoingFinite, RowType DEF Inv
<1>4. user[j.user].exists
    BY <1>1, ScreeningAssumption DEF Fit
<1> HIDE DEF running
<1>5. /\ user' \in [Users -> User]
      /\ \A u \in Users : /\ user'[u].exists = user[u].exists
                          /\ user'[u].riskScore = user[u].riskScore
                          /\ user'[u].isBlocked = (u = j.user \/ user[u].isBlocked)
    <2>1. PICK row \in User : row = [user[j.user] EXCEPT !.isBlocked = TRUE]
                              /\ row.riskScore = user[j.user].riskScore
                              /\ row.exists = user[j.user].exists /\ row.isBlocked = TRUE
        <3>1. /\ [user[j.user] EXCEPT !.isBlocked = TRUE] \in User
              /\ [user[j.user] EXCEPT !.isBlocked = TRUE].isBlocked = TRUE
              /\ [user[j.user] EXCEPT !.isBlocked = TRUE].exists = user[j.user].exists
              /\ [user[j.user] EXCEPT !.isBlocked = TRUE].riskScore = user[j.user].riskScore
            <4>1. user[j.user] \in User
                BY <1>1, RowType DEF Inv
            <4> QED BY <4>1 DEF User
        <3> QED BY <3>1
    <2>2. \A u \in Users : user[u].isBlocked \in BOOLEAN
        BY RowType DEF Inv, User
    <2> QED BY <1>1, <1>2, <2>1, <2>2 DEF Inv, TypeOK
<1>6. /\ past' \in [Users -> [running: Nat, late: Nat, unseen: Nat, lost: BOOLEAN]]
      /\ past'[j.user].running = running
      /\ \A u \in Users : /\ past'[u].late = past[u].late /\ past'[u].unseen = past[u].unseen
                          /\ u # j.user => past'[u] = past[u]
    BY <1>1, <1>2, <1>3 DEF Inv, TypeOK
<1>7. PICK k \in Job : /\ k = AfterScoring(j)
                       /\ Fit(k) /\ ~k.own /\ k.user \in {j.user, NoUser}
                       /\ k.kind = j.kind \/ k.user = NoUser
    BY <1>1, AfterScoringJob
<1>8. /\ job' \in [Workers -> Job] /\ job'[w] = k
      /\ \A v \in Workers \ {w} : job'[v] = job[v]
      /\ \A u \in Users : /\ Cardinality(Going(u)') <= Cardinality(Going(u))
                          /\ Cardinality(Going(u)') \in Nat
    BY <1>1, <1>2, <1>7, OneMoves
<1>9. TypeOK'
    BY <1>2, <1>5, <1>6, <1>8 DEF Inv, TypeOK
<1>10. Jobs'
    <2>1. \A v \in Workers : Fit(job'[v])
        BY <1>7, <1>8 DEF Inv, Jobs
    <2>2. \A v \in Workers : job'[v].user \in Users \cup {NoUser}
        BY <1>8 DEF Job
    <2> QED BY <2>1, <2>2, <1>5 DEF Jobs, Fit
<1>11. Alone'
    BY <1>1, <1>7, <1>8, ScreeningAssumption DEF Inv, Alone, Jobs, Fit
<1>12. Rows'
    <2>1. ASSUME NEW u \in Users
          PROVE  /\ past'[u].late = past[u].late /\ past'[u].unseen = past[u].unseen
                 /\ user'[u].exists = user[u].exists
                 /\ user'[u].isBlocked = (u = j.user \/ user[u].isBlocked)
        BY <1>5, <1>6
    <2> QED BY <2>1, <1>1, <1>4 DEF Inv, Rows
<1>13. Blocked'
    <2> SUFFICES ASSUME NEW u \in Users, user'[u].riskScore >= RISK_BLOCK_THRESHOLD,
                        ~user'[u].isBlocked, ~past'[u].lost
                 PROVE  \E v \in Workers : job'[v].user = u /\ job'[v].step = "block"
        BY DEF Blocked
    <2>1. u # j.user
        BY <1>5
    <2>2. PICK v \in Workers : job[v].user = u /\ job[v].step = "block"
        BY <2>1, <1>5, <1>6 DEF Inv, Blocked
    <2> QED BY <2>1, <2>2, <1>1, <1>8
<1>14. Counted'
    <2> SUFFICES ASSUME NEW u \in Users, user'[u].isBlocked
                 PROVE  past[u].late + Cardinality(Going(u)') <= past'[u].running
        BY <1>6 DEF Counted
    <2>1. CASE user[u].isBlocked
        <3>1. past'[u].running = past[u].running
            BY <2>1, <1>6 DEF running
        <3> QED BY <3>1, <2>1, <1>8, GoingFinite, RowType DEF Inv, Counted
    <2>2. CASE ~user[u].isBlocked
        <3>1. u = j.user /\ past[u].late = 0
            BY <2>2, <1>5 DEF Inv, Rows
        <3>2. past'[u].running = Cardinality(Going(u))
            BY <3>1, <2>2, <1>6 DEF running
        <3> QED BY <3>1, <3>2, <1>8, GoingFinite
    <2> QED BY <2>1, <2>2
<1> QED BY <1>9, <1>10, <1>11, <1>12, <1>13, <1>14 DEF Inv

\* An order is committed: its handler was counted if its user is blocked, and if it inserted
\* the user there was none before.
LEMMA CommitKeeps ==
    ASSUME Inv, NEW w \in Workers, Commit(w)
    PROVE  Inv'
<1>1. PICK j \in Job : j = job[w] /\ j.user \in Users /\ Fit(j) /\ j.step = "commit"
    BY AtWork DEF Commit, At
<1>2. /\ user' = [user EXCEPT ![j.user].exists = TRUE, ![j.user].orders = @ + 1]
      /\ past' = [past EXCEPT
                    ![j.user].late = IF user[j.user].isBlocked THEN @ + 1 ELSE @,
                    ![j.user].unseen = IF j.own THEN @ + 1 ELSE @]
      /\ job' = [job EXCEPT ![w] = Idle]
      /\ UNCHANGED alerts
    BY <1>1 DEF Commit
<1>3. /\ user' \in [Users -> User]
      /\ \A u \in Users : /\ user'[u].exists = (u = j.user \/ user[u].exists)
                          /\ user'[u].riskScore = user[u].riskScore
                          /\ user'[u].isBlocked = user[u].isBlocked
    <2> DEFINE r == [user[j.user] EXCEPT !.exists = TRUE, !.orders = user[j.user].orders + 1]
    <2>1. /\ r \in User /\ r.exists = TRUE
          /\ r.isBlocked = user[j.user].isBlocked /\ r.riskScore = user[j.user].riskScore
        <3>1. PICK x \in User : x = user[j.user]
            BY <1>1, RowType DEF Inv
        <3>2. PICK n \in Nat : n = x.orders + 1
            BY DEF User
        <3>3. r = [x EXCEPT !.exists = TRUE, !.orders = n]
            BY <3>1, <3>2
        <3> HIDE DEF r
        <3> QED BY <3>1, <3>3 DEF User
    <2>2. user' = [user EXCEPT ![j.user] = r]
        BY <1>1, <1>2 DEF Inv, TypeOK
    <2> HIDE DEF r
    <2>3. \A u \in Users : user[u].exists \in BOOLEAN
        BY RowType DEF Inv, User
    <2> QED BY <1>1, <2>1, <2>2, <2>3 DEF Inv, TypeOK
<1> DEFINE late   == IF user[j.user].isBlocked THEN past[j.user].late + 1 ELSE past[j.user].late
           unseen == IF j.own THEN past[j.user].unseen + 1 ELSE past[j.user].unseen
<1>4. late \in Nat /\ unseen \in Nat
    BY <1>1, RowType DEF Inv
<1>5. /\ past' \in [Users -> [running: Nat, late: Nat, unseen: Nat, lost: BOOLEAN]]
      /\ past'[j.user].late = late /\ past'[j.user].unseen = unseen
      /\ past'[j.user].running = past[j.user].running
      /\ past'[j.user].lost = past[j.user].lost
      /\ \A u \in Users \ {j.user} : past'[u] = past[u]
    <2> DEFINE r == [past[j.user] EXCEPT !.late = late, !.unseen = unseen]
    <2>1. past' = [past EXCEPT ![j.user] = r]
        BY <1>1, <1>2 DEF Inv, TypeOK
    <2> HIDE DEF late, unseen
    <2>2. /\ r \in [running: Nat, late: Nat, unseen: Nat, lost: BOOLEAN]
          /\ r.late = late /\ r.unseen = unseen /\ r.running = past[j.user].running
          /\ r.lost = past[j.user].lost
        BY <1>1, <1>4, RowType DEF Inv
    <2> HIDE DEF r
    <2> QED BY <1>1, <2>1, <2>2 DEF Inv, TypeOK
<1>6. /\ job' \in [Workers -> Job] /\ job'[w] = Idle
      /\ \A v \in Workers \ {w} : job'[v] = job[v]
      /\ \A u \in Users : /\ Going(u)' \subseteq Going(u)
                          /\ Cardinality(Going(u)') <= Cardinality(Going(u))
                          /\ Cardinality(Going(u)') \in Nat
    BY <1>1, <1>2, JobIdle, OneMoves
<1>7. TypeOK'
    BY <1>2, <1>3, <1>5, <1>6 DEF Inv, TypeOK
<1>8. Jobs'
    <2> SUFFICES ASSUME NEW v \in Workers PROVE Fit(job[v])'
        BY DEF Jobs
    <2>1. CASE v = w
        BY <2>1, <1>6, JobIdle, ScreeningAssumption DEF Fit
    <2>2. CASE v # w
        <3>1. PICK x \in Job : x = job[v] /\ job'[v] = x
            BY <2>2, <1>6 DEF Inv, TypeOK
        <3>2. Fit(x) /\ ~(x.user = j.user /\ j.own)
            BY <2>2, <3>1, <1>1 DEF Inv, Jobs, Alone
        <3>3. x.user = j.user => user[x.user].exists
            BY <3>2, <1>1 DEF Fit
        <3>4. x.own <=> (x.user # NoUser /\ ~user'[x.user].exists)
            BY <3>2, <3>3, <1>3 DEF Fit, Job
        <3>5. /\ x.step = "idle" <=> x.user = NoUser
              /\ x.step = "score" => x.score \in Levels
              /\ x.kind = "risk" => x.step \in {"place", "score", "block"}
              /\ x.own => x.step \in {"read", "place", "commit"} /\ x.kind = "order"
            BY <3>2 DEF Fit
        <3> QED BY <3>1, <3>4, <3>5 DEF Fit
    <2> QED BY <2>1, <2>2
<1>9. Alone'
    BY <1>6, JobIdle, ScreeningAssumption DEF Inv, Alone, Jobs, Fit
<1>10. Rows'
    <2> SUFFICES ASSUME NEW u \in Users
                 PROVE  /\ user'[u].isBlocked => user'[u].exists
                        /\ ~user'[u].isBlocked => past'[u].late = 0
                        /\ ~user'[u].exists => past'[u].unseen = 0
                        /\ past'[u].unseen <= 1
        BY DEF Rows
    <2>1. CASE u # j.user
        <3>1. past'[u] = past[u] /\ user'[u].isBlocked = user[u].isBlocked
              /\ (user'[u].exists <=> user[u].exists)
            BY <2>1, <1>3, <1>5
        <3> QED BY <3>1 DEF Inv, Rows
    <2>2. CASE u = j.user
        <3>1. j.own => ~user[j.user].exists
            BY <1>1 DEF Fit
        <3>2. past'[u].unseen <= 1
            BY <2>2, <3>1, <1>5, RowType DEF Inv, Rows
        <3> QED BY <2>2, <3>2, <1>3, <1>5 DEF Inv, Rows
    <2> QED BY <2>1, <2>2
<1>11. Blocked'
    <2> SUFFICES ASSUME NEW u \in Users, user[u].riskScore >= RISK_BLOCK_THRESHOLD,
                        ~user[u].isBlocked, ~past'[u].lost
                 PROVE  \E v \in Workers : job'[v].user = u /\ job'[v].step = "block"
        BY <1>3 DEF Blocked
    <2>1. PICK v \in Workers : job[v].user = u /\ job[v].step = "block"
        BY <1>5 DEF Inv, Blocked
    <2> QED BY <2>1, <1>1, <1>6
<1>12. Counted'
    <2> SUFFICES ASSUME NEW u \in Users, user[u].isBlocked
                 PROVE  past'[u].late + Cardinality(Going(u)') <= past'[u].running
        BY <1>3 DEF Counted
    <2>1. CASE u # j.user
        BY <2>1, <1>5, <1>6, GoingFinite, RowType DEF Inv, Counted
    <2>2. CASE u = j.user
        <3>1. w \in Going(u) /\ w \notin Going(u)'
            BY <2>2, <1>1, <1>6, JobIdle, ScreeningAssumption DEF Going, Fit, Job
        <3>2. Cardinality(Going(u)') < Cardinality(Going(u))
            <4>1. Going(u)' \subseteq Going(u) /\ Going(u)' # Going(u)
                BY <3>1, <1>6
            <4>2. /\ Cardinality(Going(u)') <= Cardinality(Going(u))
                  /\ Cardinality(Going(u)') # Cardinality(Going(u))
                BY <4>1, GoingFinite, FS_Subset
            <4> QED BY <4>2, <1>6, GoingFinite
        <3> QED BY <2>2, <3>2, <1>5, <1>6, GoingFinite, RowType DEF Inv, Counted
    <2> QED BY <2>1, <2>2
<1> QED BY <1>7, <1>8, <1>9, <1>10, <1>11, <1>12 DEF Inv

-----------------------------------------------------------------------------
\* No handler moves, and no user appears or vanishes.
LEMMA JobsStay ==
    ASSUME Inv, UNCHANGED job, \A u \in Users : user'[u].exists = user[u].exists
    PROVE  Jobs' /\ Alone' /\ \A u \in Users : Going(u)' = Going(u)
<1>1. \A v \in Workers : Fit(job[v]) /\ job[v].user \in Users \cup {NoUser}
    BY DEF Inv, Jobs, TypeOK, Job
<1>2. Jobs'
    BY <1>1 DEF Jobs, Fit
<1> QED BY <1>2 DEF Inv, Alone, Going

LEMMA UpdateAlertKeeps ==
    ASSUME Inv, NEW u \in Users, NEW from \in AlertStatus, NEW to \in AlertStatus,
           UpdateAlertStatus(u, from, to)
    PROVE  Inv'
<1>1. /\ from # to /\ alerts[u][from] > 0
      /\ alerts' = [alerts EXCEPT ![u][from] = @ - 1, ![u][to] = @ + 1]
      /\ UNCHANGED <<user, job, past>>
    BY DEF UpdateAlertStatus
<1>2. alerts' \in [Users -> [AlertStatus -> Nat]]
    <2>1. alerts \in [Users -> [AlertStatus -> Nat]]
        BY DEF Inv, TypeOK
    <2> QED BY <2>1, <1>1
<1>3. Jobs' /\ Alone' /\ \A x \in Users : Going(x)' = Going(x)
    BY <1>1, JobsStay
<1>4. Counted'
    BY <1>1, <1>3 DEF Inv, Counted
<1> QED BY <1>1, <1>2, <1>3, <1>4 DEF Inv, TypeOK, Rows, Blocked

\* The halved score of an unblocked user is below the limit.
LEMMA UnblockKeeps ==
    ASSUME Inv, NEW u \in Users, UnblockUser(u)
    PROVE  Inv'
<1>1. PICK r \in User : r = user[u]
    BY RowType DEF Inv
<1> DEFINE half == Level(r.riskScore \div 2)
<1>2. half \in Levels /\ half < 80
    <2>1. r.riskScore \in {0, 50, 80, 100}
        BY LevelsAre DEF User
    <2>2. r.riskScore \div 2 \in Nat /\ r.riskScore \div 2 < 80
        BY <2>1
    <2> QED BY <2>2, LevelType
<1>3. PICK k \in User : /\ k = [r EXCEPT !.isBlocked = FALSE, !.riskScore = half]
                        /\ k.exists = r.exists /\ k.isBlocked = FALSE /\ k.riskScore = half
    <2> HIDE DEF half
    <2>1. /\ [r EXCEPT !.isBlocked = FALSE, !.riskScore = half] \in User
          /\ [r EXCEPT !.isBlocked = FALSE, !.riskScore = half].exists = r.exists
          /\ [r EXCEPT !.isBlocked = FALSE, !.riskScore = half].isBlocked = FALSE
          /\ [r EXCEPT !.isBlocked = FALSE, !.riskScore = half].riskScore = half
        BY <1>2 DEF User
    <2> QED BY <2>1
<1>4. user' = [user EXCEPT ![u] = k]
    BY <1>1, <1>3 DEF UnblockUser, Inv, TypeOK
<1>5. /\ user' \in [Users -> User] /\ user'[u].isBlocked = FALSE /\ user'[u].riskScore < 80
      /\ \A x \in Users : user'[x].exists = user[x].exists
      /\ \A x \in Users \ {u} : user'[x] = user[x]
    BY <1>1, <1>2, <1>3, <1>4 DEF Inv, TypeOK
<1>6. /\ past' \in [Users -> [running: Nat, late: Nat, unseen: Nat, lost: BOOLEAN]]
      /\ past'[u].late = 0 /\ past'[u].unseen = past[u].unseen
      /\ \A x \in Users \ {u} : past'[x] = past[x]
    <2>1. past' = [past EXCEPT ![u].late = 0, ![u].running = 0, ![u].lost = FALSE]
        BY DEF UnblockUser
    <2> QED BY <2>1 DEF Inv, TypeOK
<1>7. UNCHANGED <<alerts, job>>
    BY DEF UnblockUser
<1>8. Jobs' /\ Alone' /\ \A x \in Users : Going(x)' = Going(x)
    BY <1>5, <1>7, JobsStay
<1>9. TypeOK'
    BY <1>5, <1>6, <1>7 DEF Inv, TypeOK
<1>10. Rows'
    BY <1>5, <1>6 DEF Inv, Rows
<1>11. Blocked'
    <2> SUFFICES ASSUME NEW x \in Users, user'[x].riskScore >= 80
                 PROVE  \/ user'[x].isBlocked \/ past'[x].lost
                        \/ \E w \in Workers : job[w].user = x /\ job[w].step = "block"
        BY <1>7 DEF Blocked, RISK_BLOCK_THRESHOLD
    <2>1. user'[x].riskScore \in {0, 50, 80, 100}
        BY <1>5, LevelsAre DEF User
    <2>2. x # u
        BY <2>1, <1>5
    <2>3. user'[x] = user[x] /\ past'[x] = past[x]
        BY <2>2, <1>5, <1>6
    <2> QED BY <2>3 DEF Inv, Blocked, RISK_BLOCK_THRESHOLD
<1>12. Counted'
    BY <1>5, <1>6, <1>8 DEF Inv, Counted
<1> QED BY <1>8, <1>9, <1>10, <1>11, <1>12 DEF Inv

LEMMA OrderChangesKeeps ==
    ASSUME Inv, NEW u \in Users, OrderChanges(u)
    PROVE  Inv'
<1>1. PICK r \in User : r = user[u]
    BY RowType DEF Inv
<1>2. UNCHANGED <<alerts, job, past>>
    BY DEF OrderChanges
<1>3. PICK k \in User : /\ user' = [user EXCEPT ![u] = k] /\ k.exists = r.exists
                        /\ k.isBlocked = r.isBlocked /\ k.riskScore = r.riskScore
    <2>1. CASE user' = [user EXCEPT ![u].cancelled = @ + 1]
        <3>1. /\ [r EXCEPT !.cancelled = @ + 1] \in User
              /\ [r EXCEPT !.cancelled = @ + 1].exists = r.exists
              /\ [r EXCEPT !.cancelled = @ + 1].isBlocked = r.isBlocked
              /\ [r EXCEPT !.cancelled = @ + 1].riskScore = r.riskScore
            BY DEF User
        <3> QED BY <1>1, <2>1, <3>1
    <2>2. CASE user' = [user EXCEPT ![u].disputed = @ + 1]
        <3>1. /\ [r EXCEPT !.disputed = @ + 1] \in User
              /\ [r EXCEPT !.disputed = @ + 1].exists = r.exists
              /\ [r EXCEPT !.disputed = @ + 1].isBlocked = r.isBlocked
              /\ [r EXCEPT !.disputed = @ + 1].riskScore = r.riskScore
            BY DEF User
        <3> QED BY <1>1, <2>2, <3>1
    <2>3. CASE user[u].disputed > 0 /\ user' = [user EXCEPT ![u].disputed = @ - 1]
        <3>1. /\ [r EXCEPT !.disputed = @ - 1] \in User
              /\ [r EXCEPT !.disputed = @ - 1].exists = r.exists
              /\ [r EXCEPT !.disputed = @ - 1].isBlocked = r.isBlocked
              /\ [r EXCEPT !.disputed = @ - 1].riskScore = r.riskScore
            BY <1>1, <2>3 DEF User
        <3> QED BY <1>1, <2>3, <3>1
    <2> QED BY <2>1, <2>2, <2>3 DEF OrderChanges
<1>4. /\ user' \in [Users -> User]
      /\ \A x \in Users : /\ user'[x].exists = user[x].exists
                          /\ user'[x].isBlocked = user[x].isBlocked
                          /\ user'[x].riskScore = user[x].riskScore
    BY <1>1, <1>3 DEF Inv, TypeOK
<1>5. Jobs' /\ Alone' /\ \A x \in Users : Going(x)' = Going(x)
    BY <1>2, <1>4, JobsStay
<1>6. TypeOK'
    BY <1>2, <1>4 DEF Inv, TypeOK
<1>7. Rows' /\ Counted'
    BY <1>2, <1>4, <1>5 DEF Inv, Rows, Counted
<1>8. Blocked'
    BY <1>2, <1>4 DEF Inv, Blocked
<1> QED BY <1>5, <1>6, <1>7, <1>8 DEF Inv

LEMMA StepKeeps ==
    ASSUME Inv, NEW w \in Workers, Step(w)
    PROVE  Inv'
BY ReadUserKeeps, CheckTransactionKeeps, CheckAddressKeeps, VerdictKeeps, ReadHistoryKeeps,
   WriteScoreKeeps, WriteBlockKeeps, CommitKeeps DEF Step

LEMMA InitInv == Init => Inv
<1> SUFFICES ASSUME Init PROVE Inv
    OBVIOUS
<1>1. TypeOK
    BY JobIdle, LevelsAre DEF Init, TypeOK, User
<1>2. Jobs
    BY IdleFits DEF Init, Jobs
<1>3. Alone
    BY JobIdle DEF Init, Alone
<1>4. Rows /\ Blocked /\ Counted
    BY DEF Init, Rows, Blocked, Counted, RISK_BLOCK_THRESHOLD
<1> QED BY <1>1, <1>2, <1>3, <1>4 DEF Inv

LEMMA NextInv == Inv /\ [Next]_vars => Inv'
<1> SUFFICES ASSUME Inv, [Next]_vars PROVE Inv'
    OBVIOUS
<1>1. ASSUME NEW w \in Workers, Step(w) \/ Fail(w) PROVE Inv'
    BY <1>1, StepKeeps, FailKeeps
<1>2. ASSUME NEW w \in Workers, NEW u \in Users, NEW a \in Amounts, CreateOrder(w, u, a)
      PROVE  Inv'
    BY <1>2, CreateOrderKeeps
<1>3. ASSUME NEW w \in Workers, NEW u \in Users, GetUserRiskScore(w, u) PROVE Inv'
    BY <1>3, RiskScoreKeeps
<1>4. ASSUME NEW u \in Users, UnblockUser(u) \/ OrderChanges(u) PROVE Inv'
    BY <1>4, UnblockKeeps, OrderChangesKeeps
<1>5. ASSUME NEW u \in Users, NEW from \in AlertStatus, NEW to \in AlertStatus,
             UpdateAlertStatus(u, from, to)
      PROVE  Inv'
    BY <1>5, UpdateAlertKeeps
<1>6. CASE UNCHANGED vars
    <2>1. UNCHANGED <<user, alerts, job, past>>
        BY <1>6 DEF vars
    <2>2. Jobs' /\ Alone' /\ \A x \in Users : Going(x)' = Going(x)
        BY <2>1, JobsStay
    <2> QED BY <2>1, <2>2 DEF Inv, TypeOK, Rows, Blocked, Counted
<1> QED BY <1>1, <1>2, <1>3, <1>4, <1>5, <1>6 DEF Next

LEMMA InvHolds == Spec => []Inv
BY InitInv, NextInv, PTL DEF Spec

-----------------------------------------------------------------------------
\* The rows of FraudDetectionService and the jobs of the handlers keep their types.
THEOREM ScreeningTyped == Spec => []TypeOK
<1>1. Inv => TypeOK
    BY DEF Inv
<1> QED BY <1>1, InvHolds, PTL

\* Between the two writes of updateUserRiskScore its handler is about to block the user, and
\* only if it is lost there does the high score stay without a block, however many scorings
\* and unblockings run beside it.
THEOREM RiskBlocked == Spec => []HighRiskIsBlocked
<1>1. Inv => HighRiskIsBlocked
    BY DEF Inv, Blocked, HighRiskIsBlocked, Busy, At
<1> QED BY <1>1, InvHolds, PTL

\* What a block cannot stop is bounded by the handlers that were past the check at the time.
THEOREM BlockStops == Spec => []BlockStopsOrders
<1>1. Inv => BlockStopsOrders
    <2> SUFFICES ASSUME Inv, NEW u \in Users PROVE past[u].late <= past[u].running
        BY DEF BlockStopsOrders
    <2>1. past[u].late \in Nat /\ past[u].running \in Nat /\ Cardinality(Going(u)) \in Nat
        BY RowType, GoingFinite DEF Inv
    <2> QED BY <2>1 DEF Inv, Rows, Counted
<1> QED BY <1>1, InvHolds, PTL

\* Of a user's orders at most the first escapes checkBeforeCreateOrder.
THEOREM OneUnseen == Spec => []OneUnseenOrder
<1>1. Inv => OneUnseenOrder
    BY DEF Inv, Rows, OneUnseenOrder
<1> QED BY <1>1, InvHolds, PTL
=============================================================================

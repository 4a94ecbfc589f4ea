---------------------------- MODULE WebhookProofs ----------------------------
(***************************************************************************)
(* Proofs about Webhook for any messages and bodies, any number of         *)
(* replicas and handlers, any window and limit of the memory.  Remembered  *)
(* says why forgetting is safe: a text a process has let in is still in    *)
(* its memory, or its number is out of the window for good.  ChancesCover  *)
(* counts: an order of a message uses up the chance of one process, and a  *)
(* restart gives its process another one.                                  *)
(***************************************************************************)
EXTENDS Webhook, SumTheorems

Remembered ==
    \A r \in Replicas, s \in Stamps :
        \/ taken[r][s] = 0
        \/ /\ taken[r][s] = 1 /\ s \in Timed
           /\ s \in seen[r] \/ ParseInt[s] < now - TIMESTAMP_WINDOW

\* What a handler relies on when it creates the order, and when it answers.
Checked ==
    \A w \in Workers :
        /\ job[w].step = "create" => validateWebhookData(Body[job[w].msg])
        /\ job[w].step = "answer" => orders[job[w].msg] > 0

Stored == \A m \in Messages : orders[m] > 0 => validateWebhookData(Body[m]) /\ Storable(Body[m])

Inv == TypeOK /\ Remembered /\ Checked /\ Stored /\ MemoryIsBounded /\ SuccessIsStored

-----------------------------------------------------------------------------
LEMMA TextsHaveTimes ==
    ASSUME NEW s \in Timed
    PROVE  s \in Stamps /\ ParseInt[s] \in Int
BY WebhookAssumption DEF Timed, Stamps

LEMMA IdleJob == Idle \in Job /\ Idle.step = "idle"
BY DEF Idle, Job

LEMMA BusyJob ==
    ASSUME NEW j \in Job, j.step \in {"create", "answer"}
    PROVE  j \in [step: {"create", "answer"}, at: Replicas, msg: Messages]
BY DEF Job, Idle

\* A handler that starts has validated its message.
LEMMA StartKeeps ==
    ASSUME TypeOK, Checked, NEW w \in Workers, NEW r \in Replicas, NEW m \in Messages,
           Start(w, r, m), UNCHANGED orders
    PROVE  job' \in [Workers -> Job] /\ Checked'
<1> DEFINE j == IF validateWebhookData(Body[m])
                THEN [step |-> "create", at |-> r, msg |-> m] ELSE Idle
<1>1. /\ j \in Job /\ (j.step = "create" => validateWebhookData(Body[j.msg]))
      /\ j.step # "answer"
    BY IdleJob DEF Job
<1>2. job \in [Workers -> Job] /\ job' = [job EXCEPT ![w] = j]
    BY DEF TypeOK, Start
<1> HIDE DEF j
<1>3. job' \in [Workers -> Job] /\ job'[w] = j /\ \A v \in Workers \ {w} : job'[v] = job[v]
    BY <1>1, <1>2
<1>4. ASSUME NEW v \in Workers
      PROVE  /\ job'[v].step = "create" => validateWebhookData(Body[job'[v].msg])
             /\ job'[v].step = "answer" => orders'[job'[v].msg] > 0
    <2>1. CASE v = w
        BY <2>1, <1>1, <1>3
    <2>2. CASE v # w
        BY <2>2, <1>3 DEF Checked
    <2> QED BY <2>1, <2>2
<1> QED BY <1>3, <1>4 DEF Checked, validateWebhookData, Given

\* A handler that ends leaves the others alone.
LEMMA EndKeeps ==
    ASSUME TypeOK, Checked, NEW w \in Workers, job' = [job EXCEPT ![w] = Idle], UNCHANGED orders
    PROVE  job' \in [Workers -> Job] /\ Checked'
<1>1. /\ job' \in [Workers -> Job] /\ job'[w] = Idle
      /\ \A v \in Workers \ {w} : job'[v] = job[v]
    BY IdleJob DEF TypeOK
<1> QED BY <1>1, IdleJob DEF Checked, validateWebhookData, Given

LEMMA TakeUnstampedKeeps ==
    ASSUME Inv, NEW w \in Workers, NEW r \in Replicas, NEW m \in Messages, TakeUnstamped(w, r, m)
    PROVE  Inv'
<1>1. /\ Start(w, r, m)
      /\ UNCHANGED <<now, seen, orders, answered, restarts, taken, cleaned>>
    BY DEF TakeUnstamped
<1>2. job' \in [Workers -> Job] /\ Checked'
    BY <1>1, StartKeeps DEF Inv
<1>3. Stored'
    BY <1>1 DEF Inv, Stored, validateWebhookData, Given, Storable
<1> QED BY <1>1, <1>2, <1>3 DEF Inv, TypeOK, Remembered, MemoryIsBounded, SuccessIsStored

LEMMA TakeStampedKeeps ==
    ASSUME Inv, NEW w \in Workers, NEW r \in Replicas, NEW m \in Messages, TakeStamped(w, r, m)
    PROVE  Inv'
<1> DEFINE all == seen[r] \cup {Stamp[m]}
           kept == Remember(r, Stamp[m])
<1>1. PICK s \in Stamps : s = Stamp[m]
    BY DEF TakeStamped, Stamps
<1>2. /\ Start(w, r, m) /\ s \in Timed /\ InWindow(ParseInt[s]) /\ s \notin seen[r]
      /\ seen' = [seen EXCEPT ![r] = kept] /\ taken' = [taken EXCEPT ![r][s] = @ + 1]
      /\ cleaned' = [cleaned EXCEPT ![r] = now]
      /\ UNCHANGED <<now, orders, answered, restarts>>
    BY <1>1 DEF TakeStamped
<1>3. /\ now \in Nat /\ TIMESTAMP_WINDOW \in Nat /\ seen \in [Replicas -> SUBSET Timed]
      /\ taken \in [Replicas -> [Stamps -> Nat]] /\ cleaned \in [Replicas -> Nat]
    BY WebhookAssumption DEF Inv, TypeOK
<1>4. s \in Timed /\ ParseInt[s] \in Int /\ ~(ParseInt[s] < now - TIMESTAMP_WINDOW)
    BY <1>2, <1>3, TextsHaveTimes DEF InWindow
<1>5. taken[r][s] = 0
    BY <1>2, <1>4 DEF Inv, Remembered
<1>6. /\ kept \subseteq all /\ all \subseteq Timed
      /\ \A x \in all : x \in kept \/ ParseInt[x] < now - TIMESTAMP_WINDOW
      /\ \/ \A x \in kept : ParseInt[x] >= now - TIMESTAMP_WINDOW
         \/ kept = all /\ ~(Cardinality(all) > CleanAbove)
    <2>1. CASE Cardinality(all) > CleanAbove
        <3>1. kept = {x \in all : ParseInt[x] >= now - TIMESTAMP_WINDOW}
            BY <2>1 DEF Remember
        <3>2. all \subseteq Timed
            BY <1>1, <1>3, <1>4
        <3> HIDE DEF all, kept
        <3>3. kept \subseteq all /\ \A x \in kept : ParseInt[x] >= now - TIMESTAMP_WINDOW
            BY <3>1
        <3>4. ASSUME NEW x \in all
              PROVE  x \in kept \/ ParseInt[x] < now - TIMESTAMP_WINDOW
            <4>1. ParseInt[x] \in Int
                BY <3>2, TextsHaveTimes
            <4> QED BY <4>1, <3>1, <1>3
        <3> QED BY <3>2, <3>3, <3>4
    <2>2. CASE ~(Cardinality(all) > CleanAbove)
        BY <2>2, <1>1, <1>3, <1>4 DEF Remember
    <2> QED BY <2>1, <2>2
<1> HIDE DEF kept
<1>7. seen' \in [Replicas -> SUBSET Timed]
    BY <1>2, <1>3, <1>6
<1>8. /\ taken' \in [Replicas -> [Stamps -> Nat]] /\ taken'[r][s] = 1
      /\ \A q \in Replicas, x \in Stamps : q # r \/ x # s => taken'[q][x] = taken[q][x]
    BY <1>2, <1>3, <1>5
<1>9. cleaned' \in [Replicas -> Nat] /\ cleaned'[r] = now
    BY <1>2, <1>3
<1>10. job' \in [Workers -> Job] /\ Checked'
    BY <1>2, StartKeeps DEF Inv
<1>11. TypeOK'
    BY <1>2, <1>7, <1>8, <1>9, <1>10 DEF Inv, TypeOK
<1>12. Remembered'
    <2> SUFFICES ASSUME NEW q \in Replicas, NEW x \in Stamps
                 PROVE  taken'[q][x] = 0
                          \/ (taken'[q][x] = 1 /\ x \in Timed
                                /\ (x \in seen'[q] \/ ParseInt[x] < now - TIMESTAMP_WINDOW))
        BY <1>2 DEF Remembered
    <2>1. CASE q # r
        <3>1. taken'[q][x] = taken[q][x] /\ seen'[q] = seen[q]
            BY <2>1, <1>2, <1>3, <1>8
        <3> QED BY <3>1 DEF Inv, Remembered
    <2>2. CASE q = r /\ x = s
        <3>1. x \in all
            BY <2>2, <1>1
        <3>2. x \in kept
            BY <3>1, <2>2, <1>4, <1>6
        <3> QED BY <3>2, <2>2, <1>2, <1>3, <1>4, <1>8
    <2>3. CASE q = r /\ x # s
        <3>1. taken'[q][x] = taken[q][x] /\ seen'[q] = kept
            BY <2>3, <1>2, <1>3, <1>8
        <3>2. x \in seen[q] => x \in kept \/ ParseInt[x] < now - TIMESTAMP_WINDOW
            BY <2>3, <1>6
        <3> QED BY <3>1, <3>2 DEF Inv, Remembered
    <2> QED BY <2>1, <2>2, <2>3
<1>13. MemoryIsBounded'
    <2> SUFFICES ASSUME NEW q \in Replicas, Cardinality(seen'[q]) > CleanAbove, NEW x \in seen'[q]
                 PROVE  ParseInt[x] >= cleaned'[q] - TIMESTAMP_WINDOW
        BY DEF MemoryIsBounded
    <2>1. CASE q = r
        BY <2>1, <1>2, <1>3, <1>6, <1>9
    <2>2. CASE q # r
        BY <2>2, <1>2, <1>3 DEF Inv, MemoryIsBounded
    <2> QED BY <2>1, <2>2
<1>14. Stored' /\ SuccessIsStored'
    BY <1>2 DEF Inv, Stored, SuccessIsStored, validateWebhookData, Given, Storable
<1> QED BY <1>10, <1>11, <1>12, <1>13, <1>14 DEF Inv

LEMMA CreateOrderKeeps ==
    ASSUME Inv, NEW w \in Workers, CreateOrder(w)
    PROVE  Inv'
<1> DEFINE m == job[w].msg
<1>1. /\ job[w].step = "create" /\ Storable(Body[m])
      /\ orders' = [orders EXCEPT ![m] = @ + 1]
      /\ job' = [job EXCEPT ![w].step = "answer"]
      /\ UNCHANGED <<now, seen, answered, restarts, taken, cleaned>>
    BY DEF CreateOrder
<1>2. PICK j \in [step: {"create", "answer"}, at: Replicas, msg: Messages] : j = job[w]
    BY <1>1, BusyJob DEF Inv, TypeOK
<1>3. PICK k \in Job : k = [j EXCEPT !.step = "answer"] /\ k.step = "answer" /\ k.msg = j.msg
    <2>1. /\ [j EXCEPT !.step = "answer"] \in [step: {"create", "answer"}, at: Replicas,
                                                msg: Messages]
          /\ [j EXCEPT !.step = "answer"].step = "answer"
          /\ [j EXCEPT !.step = "answer"].msg = j.msg
        OBVIOUS
    <2> QED BY <2>1 DEF Job
<1>4. m \in Messages /\ m = j.msg /\ validateWebhookData(Body[m])
    BY <1>1, <1>2 DEF Inv, Checked
<1> HIDE DEF m
<1>5. /\ orders' \in [Messages -> Nat] /\ orders'[m] > 0
      /\ \A n \in Messages : orders'[n] >= orders[n] /\ (n # m => orders'[n] = orders[n])
    BY <1>1, <1>4 DEF Inv, TypeOK
<1>6. /\ job' \in [Workers -> Job] /\ job'[w] = k
      /\ \A v \in Workers \ {w} : job'[v] = job[v]
    BY <1>1, <1>2, <1>3 DEF Inv, TypeOK
<1>7. TypeOK'
    BY <1>1, <1>5, <1>6 DEF Inv, TypeOK
<1>8. ASSUME NEW v \in Workers
      PROVE  /\ job'[v].step = "create" => validateWebhookData(Body[job'[v].msg])
             /\ job'[v].step = "answer" => orders'[job'[v].msg] > 0
    <2>1. CASE v = w
        BY <2>1, <1>3, <1>4, <1>5, <1>6
    <2>2. CASE v # w
        <3>1. job'[v] = job[v] /\ job[v] \in Job
            BY <2>2, <1>6 DEF Inv, TypeOK
        <3>2. job[v].step = "answer" => job[v].msg \in Messages
            BY <3>1, BusyJob
        <3>3. job[v].step = "answer" => orders[job[v].msg] \in Nat /\ orders'[job[v].msg] \in Nat
            BY <3>2, <1>5 DEF Inv, TypeOK
        <3> QED BY <3>1, <3>2, <3>3, <1>5 DEF Inv, Checked
    <2> QED BY <2>1, <2>2
<1>9. Checked'
    BY <1>8 DEF Checked, validateWebhookData, Given
<1>10. \A n \in Messages : orders'[n] > 0 => validateWebhookData(Body[n]) /\ Storable(Body[n])
    BY <1>1, <1>4, <1>5 DEF Inv, Stored, m
<1>11. Stored'
    BY <1>10 DEF Stored, validateWebhookData, Given, Storable
<1>12. SuccessIsStored'
    <2>1. \A n \in Messages : orders[n] \in Nat /\ orders'[n] \in Nat
        BY <1>5 DEF Inv, TypeOK
    <2> QED BY <2>1, <1>1, <1>5 DEF Inv, TypeOK, SuccessIsStored
<1> QED BY <1>1, <1>7, <1>9, <1>11, <1>12 DEF Inv, Remembered, MemoryIsBounded

LEMMA FailKeeps ==
    ASSUME Inv, NEW w \in Workers, Fail(w)
    PROVE  Inv'
<1>1. /\ job' = [job EXCEPT ![w] = Idle]
      /\ UNCHANGED <<now, seen, orders, answered, restarts, taken, cleaned>>
    BY DEF Fail
<1>2. job' \in [Workers -> Job] /\ Checked'
    BY <1>1, EndKeeps DEF Inv
<1>3. Stored'
    BY <1>1 DEF Inv, Stored, validateWebhookData, Given, Storable
<1> QED BY <1>1, <1>2, <1>3 DEF Inv, TypeOK, Remembered, MemoryIsBounded, SuccessIsStored

LEMMA AnswerKeeps ==
    ASSUME Inv, NEW w \in Workers, Answer(w)
    PROVE  Inv'
<1>1. /\ job[w].step = "answer" /\ job' = [job EXCEPT ![w] = Idle]
      /\ answered' = answered \cup {job[w].msg} \/ answered' = answered
      /\ UNCHANGED <<now, seen, orders, restarts, taken, cleaned>>
    BY DEF Answer
<1>2. job' \in [Workers -> Job] /\ Checked'
    BY <1>1, EndKeeps DEF Inv
<1>3. job[w].msg \in Messages /\ orders[job[w].msg] > 0
    <2>1. job[w] \in [step: {"create", "answer"}, at: Replicas, msg: Messages]
        BY <1>1, BusyJob DEF Inv, TypeOK
    <2> QED BY <2>1, <1>1 DEF Inv, Checked
<1>4. answered' \subseteq Messages /\ SuccessIsStored'
    BY <1>1, <1>3 DEF Inv, TypeOK, SuccessIsStored
<1>5. Stored'
    BY <1>1 DEF Inv, Stored, validateWebhookData, Given, Storable
<1> QED BY <1>1, <1>2, <1>4, <1>5 DEF Inv, TypeOK, Remembered, MemoryIsBounded

LEMMA RestartKeeps ==
    ASSUME Inv, NEW r \in Replicas, Restart(r)
    PROVE  Inv'
<1>1. /\ restarts' = restarts + 1
      /\ seen' = [seen EXCEPT ![r] = {}]
      /\ taken' = [taken EXCEPT ![r] = [s \in Stamps |-> 0]]
      /\ job' = [w \in Workers |-> IF job[w] # Idle /\ job[w].at = r THEN Idle ELSE job[w]]
      /\ UNCHANGED <<now, orders, answered, cleaned>>
    BY DEF Restart
<1>2. /\ seen' \in [Replicas -> SUBSET Timed] /\ seen'[r] = {}
      /\ \A q \in Replicas \ {r} : seen'[q] = seen[q]
    BY <1>1 DEF Inv, TypeOK
<1>3. /\ taken' \in [Replicas -> [Stamps -> Nat]] /\ \A s \in Stamps : taken'[r][s] = 0
      /\ \A q \in Replicas \ {r} : taken'[q] = taken[q]
    <2>1. PICK none \in [Stamps -> Nat] : none = [s \in Stamps |-> 0]
        OBVIOUS
    <2> QED BY <2>1, <1>1 DEF Inv, TypeOK
<1>4. job' \in [Workers -> Job] /\ \A w \in Workers : job'[w] \in {job[w], Idle}
    BY <1>1, IdleJob DEF Inv, TypeOK
<1>5. TypeOK'
    BY <1>1, <1>2, <1>3, <1>4 DEF Inv, TypeOK
<1>6. Remembered'
    BY <1>1, <1>2, <1>3 DEF Inv, Remembered
<1>7. ASSUME NEW w \in Workers
      PROVE  /\ job'[w].step = "create" => validateWebhookData(Body[job'[w].msg])
             /\ job'[w].step = "answer" => orders'[job'[w].msg] > 0
    BY <1>1, <1>4, IdleJob DEF Inv, Checked
<1>8. Checked'
    BY <1>7 DEF Checked, validateWebhookData, Given
<1>9. MemoryIsBounded'
    <2> SUFFICES ASSUME NEW q \in Replicas, Cardinality(seen'[q]) > CleanAbove, NEW x \in seen'[q]
                 PROVE  ParseInt[x] >= cleaned'[q] - TIMESTAMP_WINDOW
        BY DEF MemoryIsBounded
    <2> QED BY <1>1, <1>2 DEF Inv, MemoryIsBounded
<1>10. Stored' /\ SuccessIsStored'
    BY <1>1 DEF Inv, Stored, SuccessIsStored, validateWebhookData, Given, Storable
<1> QED BY <1>5, <1>6, <1>8, <1>9, <1>10 DEF Inv

\* What is out of the window stays out.
LEMMA TickKeeps ==
    ASSUME Inv, Tick
    PROVE  Inv'
<1>1. now \in Nat /\ now' = now + 1 /\ TIMESTAMP_WINDOW \in Nat
      /\ UNCHANGED <<seen, job, orders, answered, restarts, taken, cleaned>>
    BY WebhookAssumption DEF Inv, TypeOK, Tick
<1>2. Remembered'
    <2> SUFFICES ASSUME NEW q \in Replicas, NEW s \in Stamps
                 PROVE  taken[q][s] = 0
                          \/ (taken[q][s] = 1 /\ s \in Timed
                                /\ (s \in seen[q] \/ ParseInt[s] < now' - TIMESTAMP_WINDOW))
        BY <1>1 DEF Remembered
    <2>1. s \in Timed => ParseInt[s] \in Int
        BY TextsHaveTimes
    <2> QED BY <2>1, <1>1 DEF Inv, Remembered
<1>3. Stored' /\ Checked'
    BY <1>1 DEF Inv, Stored, Checked, validateWebhookData, Given, Storable
<1> QED BY <1>1, <1>2, <1>3 DEF Inv, TypeOK, MemoryIsBounded, SuccessIsStored

LEMMA InitInv == Init => Inv
<1> SUFFICES ASSUME Init PROVE Inv
    OBVIOUS
<1>1. TypeOK
    BY IdleJob DEF Init, TypeOK
<1>2. Checked /\ Stored /\ SuccessIsStored
    BY IdleJob DEF Init, Checked, Stored, SuccessIsStored
<1>3. MemoryIsBounded /\ Remembered
    BY DEF Init, MemoryIsBounded, Remembered
<1> QED BY <1>1, <1>2, <1>3 DEF Inv

LEMMA NextInv == Inv /\ [Next]_vars => Inv'
<1> SUFFICES ASSUME Inv, [Next]_vars PROVE Inv'
    OBVIOUS
<1>1. ASSUME NEW w \in Workers, NEW r \in Replicas, NEW m \in Messages, TakeUnstamped(w, r, m)
      PROVE  Inv'
    BY <1>1, TakeUnstampedKeeps
<1>2. ASSUME NEW w \in Workers, NEW r \in Replicas, NEW m \in Messages, TakeStamped(w, r, m)
      PROVE  Inv'
    BY <1>2, TakeStampedKeeps
<1>3. ASSUME NEW w \in Workers, CreateOrder(w) PROVE Inv'
    BY <1>3, CreateOrderKeeps
<1>4. ASSUME NEW w \in Workers, Fail(w) PROVE Inv'
    BY <1>4, FailKeeps
<1>5. ASSUME NEW w \in Workers, Answer(w) PROVE Inv'
    BY <1>5, AnswerKeeps
<1>6. ASSUME NEW r \in Replicas, Restart(r) PROVE Inv'
    BY <1>6, RestartKeeps
<1>7. CASE Tick
    BY <1>7, TickKeeps
<1>8. CASE UNCHANGED vars
    BY <1>8 DEF vars, Inv, TypeOK, Remembered, Checked, Stored, MemoryIsBounded,
                SuccessIsStored, validateWebhookData, Given, Storable
<1> QED BY <1>1, <1>2, <1>3, <1>4, <1>5, <1>6, <1>7, <1>8 DEF Next

LEMMA InvHolds == Spec => []Inv
BY InitInv, NextInv, PTL DEF Spec

-----------------------------------------------------------------------------
\* The variables of WebhookController's handlers keep their types.
THEOREM WebhookTyped == Spec => []TypeOK
<1>1. Inv => TypeOK
    BY DEF Inv
<1> QED BY <1>1, InvHolds, PTL

\* However recentTimestamps is cleaned up, whatever numbers the header texts stand for and
\* however many stand for the same one, a process lets a text in at most once in its life:
\* one it has forgotten is of a number that has left the window.
THEOREM OneChance == Spec => []OneChancePerLife
<1>1. Inv => OneChancePerLife
    BY DEF Inv, Remembered, OneChancePerLife
<1> QED BY <1>1, InvHolds, PTL

\* The memory of a replica above its limit reaches one window back from the last message.
THEOREM MemoryBounded == Spec => []MemoryIsBounded
<1>1. Inv => MemoryIsBounded
    BY DEF Inv
<1> QED BY <1>1, InvHolds, PTL

\* success: true is the word of a database that has the order.
THEOREM SuccessStored == Spec => []SuccessIsStored
<1>1. Inv => SuccessIsStored
    BY DEF Inv
<1> QED BY <1>1, InvHolds, PTL

\* What validateWebhookData and the conversions of processOrderWebhook let through.
THEOREM MeantOrders == Spec => []OrdersAreAsMeant
<1>1. Inv => OrdersAreAsMeant
    <2> SUFFICES ASSUME Inv, NEW m \in Messages, orders[m] > 0
                 PROVE  LET b == Body[m]
                        IN  /\ b.type # "swap" /\ ParseFloat(b.amount) > 0
                            /\ Side(b) = Meant(b) \/ b.type \in {"Buy", "BUY"}
                            /\ \/ ParseFloat(b.min_limit) <= ParseFloat(b.max_limit)
                               \/ 0 \in {b.min_limit, b.max_limit}
        BY DEF OrdersAreAsMeant
    <2>1. PICK b \in Bodies : b = Body[m]
        BY WebhookAssumption
    <2>2. validateWebhookData(b) /\ Storable(b)
        BY <2>1 DEF Inv, Stored
    <2>3. b.type # "swap" /\ ParseFloat(b.amount) > 0
        BY <2>2 DEF validateWebhookData, toLowerCase
    <2>4. Side(b) = Meant(b) \/ b.type \in {"Buy", "BUY"}
        BY DEF Side, Meant, toLowerCase
    <2>5. \/ ParseFloat(b.min_limit) <= ParseFloat(b.max_limit)
          \/ 0 \in {b.min_limit, b.max_limit}
        BY <2>2 DEF validateWebhookData, Storable, Given
    <2> QED BY <2>1, <2>3, <2>4, <2>5
<1> QED BY <1>1, InvHolds, PTL

-----------------------------------------------------------------------------
(* The orders of a header text.                                            *)

With(s) == {m \in Messages : Stamp[m] = s}
Made(s) == SumFunctionOnSet(orders, With(s))

\* The handlers that may yet create an order of text s.
Creating(s) == {w \in Workers : job[w].step = "create" /\ Stamp[job[w].msg] = s}

\* The processes that have let it in, in their present life.
Entered(s) == {r \in Replicas : taken[r][s] # 0}

\* Every order made, and every one on its way, used up the chance of a process.
ChancesCover ==
    \A s \in Stamps : Made(s) + Cardinality(Creating(s)) <= Cardinality(Entered(s)) + restarts

LEMMA Counts ==
    ASSUME TypeOK, NEW s
    PROVE  /\ IsFiniteSet(With(s)) /\ Made(s) \in Int
           /\ IsFiniteSet(Creating(s)) /\ Cardinality(Creating(s)) \in Nat
           /\ IsFiniteSet(Entered(s)) /\ Cardinality(Entered(s)) \in Nat
           /\ Cardinality(Entered(s)) <= Cardinality(Replicas) /\ Cardinality(Replicas) \in Nat
<1>1. IsFiniteSet(With(s)) /\ IsFiniteSet(Creating(s)) /\ IsFiniteSet(Entered(s))
    BY FiniteAssumption, FS_Subset DEF With, Creating, Entered
<1>2. Made(s) \in Int
    BY <1>1, SumType DEF Made, With, TypeOK
<1>3. Entered(s) \subseteq Replicas
    BY DEF Entered
<1> QED BY <1>1, <1>2, <1>3, FiniteAssumption, FS_CardinalityType, FS_Subset

\* Fewer handlers are creating, and nothing else changes.
LEMMA FewerCreate ==
    ASSUME TypeOK, ChancesCover, UNCHANGED <<orders, taken, restarts>>,
           \A s \in Stamps : Creating(s)' \subseteq Creating(s)
    PROVE  ChancesCover'
<1> SUFFICES ASSUME NEW s \in Stamps
             PROVE  Made(s)' + Cardinality(Creating(s)') <= Cardinality(Entered(s)') + restarts'
    BY DEF ChancesCover
<1>1. Made(s)' = Made(s) /\ Entered(s)' = Entered(s) /\ restarts' = restarts
    BY DEF Made, Entered
<1>2. IsFiniteSet(Creating(s)) /\ Creating(s)' \subseteq Creating(s)
    BY Counts
<1>3. /\ Cardinality(Creating(s)') <= Cardinality(Creating(s))
      /\ Cardinality(Creating(s)') \in Nat
    BY <1>2, FS_Subset, FS_CardinalityType
<1>4. Made(s) + Cardinality(Creating(s)) <= Cardinality(Entered(s)) + restarts
    BY DEF ChancesCover
<1> QED BY <1>1, <1>3, <1>4, Counts DEF TypeOK

\* A handler that starts, or stops, is the only one to change.
LEMMA CreatingAfter ==
    ASSUME TypeOK, NEW w \in Workers, NEW j, job' = [job EXCEPT ![w] = j], NEW s
    PROVE  Creating(s)' = IF j.step = "create" /\ Stamp[j.msg] = s
                          THEN Creating(s) \cup {w} ELSE Creating(s) \ {w}
<1>1. job'[w] = j /\ \A v \in Workers \ {w} : job'[v] = job[v]
    BY DEF TypeOK
<1> QED BY <1>1 DEF Creating

LEMMA OneMore ==
    ASSUME NEW S, IsFiniteSet(S), NEW x
    PROVE  /\ IsFiniteSet(S \cup {x}) /\ Cardinality(S \cup {x}) \in Nat
           /\ Cardinality(S \cup {x}) = IF x \in S THEN Cardinality(S) ELSE Cardinality(S) + 1
BY FS_AddElement, FS_CardinalityType

LEMMA OneFewer ==
    ASSUME NEW S, IsFiniteSet(S), NEW x
    PROVE  /\ IsFiniteSet(S \ {x}) /\ Cardinality(S \ {x}) \in Nat
           /\ Cardinality(S \ {x}) = IF x \in S THEN Cardinality(S) - 1 ELSE Cardinality(S)
BY FS_RemoveElement, FS_CardinalityType

LEMMA StartSets ==
    ASSUME NEW w, NEW r, NEW m, Start(w, r, m)
    PROVE  \E j : job' = [job EXCEPT ![w] = j] /\ (j.step = "create" => j.msg = m)
<1>1. CASE validateWebhookData(Body[m])
    <2>1. PICK j : j = [step |-> "create", at |-> r, msg |-> m]
        OBVIOUS
    <2>2. job' = [job EXCEPT ![w] = j] /\ j.msg = m
        BY <1>1, <2>1 DEF Start
    <2> QED BY <2>2
<1>2. CASE ~validateWebhookData(Body[m])
    <2>1. job' = [job EXCEPT ![w] = Idle] /\ Idle.step # "create"
        BY <1>2, IdleJob DEF Start
    <2> QED BY <2>1
<1> QED BY <1>1, <1>2

\* A process lets a message in: its first of this text.
LEMMA TakeCovers ==
    ASSUME Inv, ChancesCover, NEW w \in Workers, NEW r \in Replicas, NEW m \in Messages,
           TakeStamped(w, r, m)
    PROVE  ChancesCover'
<1>1. PICK t \in Stamps : t = Stamp[m]
    BY DEF TakeStamped, Stamps
<1>2. /\ Start(w, r, m) /\ t \in Timed /\ InWindow(ParseInt[t]) /\ t \notin seen[r]
      /\ taken' = [taken EXCEPT ![r][t] = @ + 1]
      /\ orders' = orders /\ restarts' = restarts
    BY <1>1 DEF TakeStamped
<1>3. TypeOK /\ now \in Nat /\ TIMESTAMP_WINDOW \in Nat /\ ParseInt[t] \in Int
    BY <1>2, WebhookAssumption, TextsHaveTimes DEF Inv, TypeOK
<1>4. taken[r][t] = 0
    BY <1>2, <1>3 DEF Inv, Remembered, InWindow
<1>5. PICK j : /\ job' = [job EXCEPT ![w] = j]
               /\ j.step = "create" => j.msg = m
    BY <1>2, StartSets
<1> SUFFICES ASSUME NEW s \in Stamps
             PROVE  Made(s)' + Cardinality(Creating(s)') <= Cardinality(Entered(s)') + restarts'
    BY DEF ChancesCover
<1>6. Made(s)' = Made(s) /\ restarts \in Nat
    BY <1>2, <1>3 DEF Made, TypeOK
<1>7. Made(s) + Cardinality(Creating(s)) <= Cardinality(Entered(s)) + restarts
    BY DEF ChancesCover
<1>8. Creating(s)' = IF j.step = "create" /\ t = s THEN Creating(s) \cup {w}
                     ELSE Creating(s) \ {w}
    <2>1. Creating(s)' = IF j.step = "create" /\ Stamp[j.msg] = s
                         THEN Creating(s) \cup {w} ELSE Creating(s) \ {w}
        BY <1>3, <1>5, CreatingAfter
    <2> QED BY <1>1, <1>5, <2>1
<1>9. CASE s = t
    <2>1. Entered(s)' = Entered(s) \cup {r} /\ r \notin Entered(s)
        BY <1>2, <1>3, <1>4, <1>9 DEF Entered, TypeOK
    <2>2. Cardinality(Entered(s)') = Cardinality(Entered(s)) + 1
        BY <1>3, <2>1, Counts, OneMore
    <2>3. Creating(s)' \subseteq Creating(s) \cup {w}
        BY <1>8
    <2>4. /\ IsFiniteSet(Creating(s) \cup {w})
          /\ Cardinality(Creating(s) \cup {w}) <= Cardinality(Creating(s)) + 1
        <3>1. IsFiniteSet(Creating(s)) /\ Cardinality(Creating(s)) \in Nat
            BY <1>3, Counts
        <3> QED BY <3>1, OneMore
    <2>5. /\ Cardinality(Creating(s)') <= Cardinality(Creating(s) \cup {w})
          /\ Cardinality(Creating(s)') \in Nat /\ Cardinality(Creating(s) \cup {w}) \in Nat
        BY <2>3, <2>4, FS_Subset, FS_CardinalityType
    <2> QED BY <1>2, <1>3, <1>6, <1>7, <2>2, <2>4, <2>5, Counts
<1>10. CASE s # t
    <2>1. Entered(s)' = Entered(s)
        BY <1>2, <1>3, <1>10 DEF Entered, TypeOK
    <2>2. /\ Cardinality(Creating(s)') <= Cardinality(Creating(s))
          /\ Cardinality(Creating(s)') \in Nat
        BY <1>3, <1>8, <1>10, Counts, FS_Subset, FS_CardinalityType
    <2> QED BY <1>2, <1>3, <1>6, <1>7, <2>1, <2>2, Counts
<1> QED BY <1>9, <1>10

\* An order on its way becomes an order made.
LEMMA CreateCovers ==
    ASSUME Inv, ChancesCover, NEW w \in Workers, CreateOrder(w)
    PROVE  ChancesCover'
<1> DEFINE m == job[w].msg
<1>1. /\ job[w].step = "create"
      /\ orders' = [orders EXCEPT ![m] = @ + 1]
      /\ job' = [job EXCEPT ![w].step = "answer"]
      /\ taken' = taken /\ restarts' = restarts
    BY DEF CreateOrder
<1>2. TypeOK /\ TypeOK'
    BY CreateOrderKeeps DEF Inv
<1>3. PICK j \in [step: {"create", "answer"}, at: Replicas, msg: Messages] : j = job[w]
    BY <1>1, <1>2, BusyJob DEF TypeOK
<1>4. m \in Messages
    BY <1>3
<1> HIDE DEF m
<1>5. PICK k : job' = [job EXCEPT ![w] = k] /\ k.step = "answer"
    <2>1. [j EXCEPT !.step = "answer"].step = "answer"
        OBVIOUS
    <2> QED BY <1>1, <1>3, <2>1
<1> SUFFICES ASSUME NEW s \in Stamps
             PROVE  Made(s)' + Cardinality(Creating(s)') <= Cardinality(Entered(s)') + restarts'
    BY DEF ChancesCover
<1>6. Creating(s)' = Creating(s) \ {w} /\ Entered(s)' = Entered(s) /\ restarts \in Nat
    BY <1>1, <1>2, <1>5, CreatingAfter DEF Entered, TypeOK
<1>7. Made(s) + Cardinality(Creating(s)) <= Cardinality(Entered(s)) + restarts
    BY DEF ChancesCover
<1>8. orders'[m] = orders[m] + 1 /\ \A n \in Messages \ {m} : orders'[n] = orders[n]
    BY <1>1, <1>2, <1>4 DEF TypeOK
<1>9. IsFiniteSet(With(s)) /\ \A n \in With(s) : orders[n] \in Int
    <2>1. \A n \in With(s) : n \in Messages
        BY DEF With
    <2> QED BY <1>2, <2>1, Counts DEF TypeOK
<1>10. CASE Stamp[m] = s
    <2>1. w \in Creating(s) /\ m \in With(s)
        BY <1>1, <1>4, <1>10 DEF Creating, With, m
    <2>2. Cardinality(Creating(s)') = Cardinality(Creating(s)) - 1
        BY <1>2, <1>6, <2>1, Counts, OneFewer
    <2>3. \A n \in With(s) \ {m} : orders'[n] = orders[n]
        BY <1>8 DEF With
    <2>4. SumFunctionOnSet(orders', With(s)) = SumFunctionOnSet(orders, With(s)) + 1
        BY <1>8, <1>9, <2>1, <2>3, SumChange
    <2>5. Made(s)' = Made(s) + 1
        BY <2>4 DEF Made, With
    <2> QED BY <1>1, <1>2, <1>6, <1>7, <2>2, <2>5, Counts
<1>11. CASE Stamp[m] # s
    <2>1. w \notin Creating(s) /\ \A n \in With(s) : orders'[n] = orders[n]
        BY <1>8, <1>11 DEF Creating, With, m
    <2>2. SumFunctionOnSet(orders', With(s)) = SumFunctionOnSet(orders, With(s))
        BY <1>9, <2>1, SumSame
    <2>3. Made(s)' = Made(s) /\ Creating(s)' = Creating(s)
        BY <1>6, <2>1, <2>2 DEF Made, With
    <2> QED BY <1>1, <1>6, <1>7, <2>3
<1> QED BY <1>10, <1>11

\* A process that dies gives its chances back, and counts as one more.
LEMMA RestartCovers ==
    ASSUME Inv, ChancesCover, NEW r \in Replicas, Restart(r)
    PROVE  ChancesCover'
<1>1. /\ restarts' = restarts + 1 /\ orders' = orders
      /\ taken' = [taken EXCEPT ![r] = [s \in Stamps |-> 0]]
      /\ job' = [w \in Workers |-> IF job[w] # Idle /\ job[w].at = r THEN Idle ELSE job[w]]
    BY DEF Restart
<1>2. TypeOK
    BY DEF Inv
<1> SUFFICES ASSUME NEW s \in Stamps
             PROVE  Made(s)' + Cardinality(Creating(s)') <= Cardinality(Entered(s)') + restarts'
    BY DEF ChancesCover
<1>3. Made(s)' = Made(s) /\ restarts \in Nat
    BY <1>1, <1>2 DEF Made, TypeOK
<1>4. Creating(s)' \subseteq Creating(s)
    BY <1>1, IdleJob DEF Creating
<1>5. /\ Cardinality(Creating(s)') <= Cardinality(Creating(s))
      /\ Cardinality(Creating(s)') \in Nat
    BY <1>2, <1>4, Counts, FS_Subset, FS_CardinalityType
<1>6. Entered(s)' = Entered(s) \ {r}
    BY <1>1, <1>2 DEF Entered, TypeOK
<1>7. /\ Cardinality(Entered(s)') >= Cardinality(Entered(s)) - 1
      /\ Cardinality(Entered(s)') \in Nat
    <2>1. IsFiniteSet(Entered(s)) /\ Cardinality(Entered(s)) \in Nat
        BY <1>2, Counts
    <2> QED BY <1>6, <2>1, OneFewer
<1>8. Made(s) + Cardinality(Creating(s)) <= Cardinality(Entered(s)) + restarts
    BY DEF ChancesCover
<1> QED BY <1>1, <1>2, <1>3, <1>5, <1>7, <1>8, Counts

LEMMA CoverStep == Inv /\ ChancesCover /\ [Next]_vars => ChancesCover'
<1> SUFFICES ASSUME Inv, ChancesCover, [Next]_vars PROVE ChancesCover'
    OBVIOUS
<1>1. TypeOK
    BY DEF Inv
<1>2. ASSUME NEW w \in Workers, NEW r \in Replicas, NEW m \in Messages, TakeUnstamped(w, r, m)
      PROVE  ChancesCover'
    <2>1. PICK j : /\ job' = [job EXCEPT ![w] = j]
                   /\ j.step = "create" => j.msg = m
        BY <1>2, StartSets DEF TakeUnstamped
    <2>2. ASSUME NEW s \in Stamps
          PROVE  Creating(s)' \subseteq Creating(s)
        <3>1. s # NoStamp /\ Stamp[m] = NoStamp
            BY <1>2 DEF TakeUnstamped, Stamps
        <3>2. ~(j.step = "create" /\ Stamp[j.msg] = s)
            BY <2>1, <3>1
        <3>3. Creating(s)' = Creating(s) \ {w}
            BY <1>1, <2>1, <3>2, CreatingAfter
        <3> QED BY <3>3
    <2> QED BY <1>1, <1>2, <2>2, FewerCreate DEF TakeUnstamped
<1>3. ASSUME NEW w \in Workers, Fail(w) \/ Answer(w)
      PROVE  ChancesCover'
    <2>1. job' = [job EXCEPT ![w] = Idle]
        BY <1>3 DEF Fail, Answer
    <2>2. \A s \in Stamps : Creating(s)' \subseteq Creating(s)
        <3>1. Idle.step # "create"
            BY IdleJob
        <3>2. \A s : Creating(s)' = Creating(s) \ {w}
            BY <1>1, <2>1, <3>1, CreatingAfter
        <3> QED BY <3>2
    <2> QED BY <1>1, <1>3, <2>2, FewerCreate DEF Fail, Answer
<1>4. CASE Tick \/ UNCHANGED vars
    BY <1>4 DEF Tick, vars, ChancesCover, Made, With, Creating, Entered
<1> QED BY <1>2, <1>3, <1>4, TakeCovers, CreateCovers, RestartCovers DEF Next

LEMMA CoverInit == Init => ChancesCover
<1> SUFFICES ASSUME Init, NEW s \in Stamps
             PROVE  Made(s) + Cardinality(Creating(s)) <= Cardinality(Entered(s)) + restarts
    BY DEF ChancesCover
<1>1. TypeOK
    BY InitInv DEF Inv
<1>2. Made(s) = 0
    <2>1. \A m \in With(s) : orders[m] = 0
        BY DEF Init, With
    <2> QED BY <1>1, <2>1, Counts, SumZero DEF Made
<1>3. Creating(s) = {} /\ restarts = 0
    BY IdleJob DEF Init, Creating
<1> QED BY <1>1, <1>2, <1>3, Counts, FS_EmptySet

\* OneOrderPerProcess: recentTimestamps is each process's own and keyed by the
\* header's text, so the messages of one text may become an order once for
\* every replica, and once more for every process that dies with its memory,
\* but never more often, however handlers interleave: each order made, or
\* still being made, has used up the chance of a process (ChancesCover).
THEOREM OneOrderEach == Spec => []OneOrderPerProcess
<1>1. Inv /\ ChancesCover => OneOrderPerProcess
    <2> SUFFICES ASSUME Inv, ChancesCover, NEW s \in Stamps
                 PROVE  Made(s) <= Cardinality(Replicas) + restarts
        BY DEF OneOrderPerProcess, Made, With
    <2> QED BY Counts DEF Inv, TypeOK, ChancesCover
<1> QED BY <1>1, CoverInit, CoverStep, InvHolds, PTL DEF Spec
=============================================================================

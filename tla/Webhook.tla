------------------------------- MODULE Webhook -------------------------------
(***************************************************************************)
(* Orders that arrive through the Telegram webhook: WebhookController and  *)
(* WebhookService.processOrderWebhook, on every replica of the API.        *)
(*                                                                         *)
(* The bot that sends the messages is not part of the repository.  It may  *)
(* send a message again at any time and to any replica: the service in     *)
(* front of them is free to choose.  The part of a handler up to its first *)
(* await is one step; a request that is refused there changes nothing and  *)
(* is a disabled action.                                                   *)
(*                                                                         *)
(* now:      Date.now(), the same on all replicas                          *)
(* seen:     recentTimestamps of each replica: the header TEXTS it has let *)
(*           in, each with the number parseInt makes of it; it dies with   *)
(*           the process                                                   *)
(* job:      the handlers under way                                        *)
(* orders:   the orders in the database, by the message they came from     *)
(* answered: the messages the bot was told were successful                 *)
(* History: restarts counts the processes that have died; taken counts,    *)
(* per replica and life of its process, the messages let in under a text;  *)
(* cleaned is the time a replica last let one in.                          *)
(***************************************************************************)
EXTENDS Functions, Integers, FiniteSets

CONSTANTS Messages, Replicas, Workers,
          Headers,          \* texts of the timestamp header
          ParseInt,         \* the number each of them begins with, or NaN
          Stamp,            \* the header of each message, or NoStamp
          NoStamp,
          Body,             \* what each message says
          Missing, NaN,     \* a field that is not there; one that is not a number
          ZeroText,         \* the string "0", which counts as given
          TIMESTAMP_WINDOW, \* 5 minutes in the code
          CleanAbove,       \* 1000 in the code
          MaxTime,          \* bound: the clock
          MaxRestarts,      \* bound: processes that die
          MaxOrders         \* bound: orders from one message without a timestamp

\* Body[m]: the type as it is written; a field that should be a number, which the bot may
\* write as a number or as a string.  The two differ for 0 only.
Fields == Int \cup {Missing, NaN, ZeroText}
Bodies == [telegram_id: BOOLEAN, type: {"buy", "Buy", "BUY", "sell", "SELL", "swap"},
           rate: Fields, amount: Fields, min_limit: Fields, max_limit: Fields]

ASSUME FiniteAssumption == IsFiniteSet(Messages) /\ IsFiniteSet(Replicas) /\ IsFiniteSet(Workers)
ASSUME WebhookAssumption ==
    /\ Body \in [Messages -> Bodies]
    /\ NoStamp \notin Headers /\ NaN \notin Int
    /\ Stamp \in [Messages -> Headers \cup {NoStamp}]
    /\ ParseInt \in [Headers -> Int \cup {NaN}]
    /\ TIMESTAMP_WINDOW \in Nat /\ CleanAbove \in Nat
    /\ MaxTime \in Nat /\ MaxRestarts \in Nat /\ MaxOrders \in Nat

VARIABLES now, seen, job, orders, answered, restarts, taken, cleaned

vars == <<now, seen, job, orders, answered, restarts, taken, cleaned>>

Stamps == {Stamp[m] : m \in Messages} \ {NoStamp}

\* The texts that are let in if their number is in the window.
Timed == {s \in Stamps : ParseInt[s] # NaN}

Idle == [step |-> "idle"]
Job  == {Idle} \cup [step: {"create", "answer"}, at: Replicas, msg: Messages]

Init ==
    /\ now = 0
    /\ seen = [r \in Replicas |-> {}]
    /\ job = [w \in Workers |-> Idle]
    /\ orders = [m \in Messages |-> 0]
    /\ answered = {}
    /\ restarts = 0
    /\ taken = [r \in Replicas |-> [s \in Stamps |-> 0]]
    /\ cleaned = [r \in Replicas |-> 0]

-----------------------------------------------------------------------------
\* Whether a field is truthy, and what parseFloat makes of it.
Given(x) == x \notin {Missing, 0}
ParseFloat(x) == IF x = ZeroText THEN 0 ELSE x

toLowerCase(type) ==
    CASE type \in {"buy", "Buy", "BUY"} -> "buy"
      [] type \in {"sell", "SELL"}      -> "sell"
      [] OTHER                          -> type

\* Mutant: min_limit and max_limit are not compared.
BugValidate(b) ==
    /\ b.telegram_id
    /\ toLowerCase(b.type) \in {"buy", "sell"}
    /\ Given(b.rate) /\ b.rate # NaN
    /\ Given(b.amount) /\ b.amount # NaN /\ ParseFloat(b.amount) > 0
    /\ b.min_limit # NaN /\ b.max_limit # NaN

\* The number 0 counts as not given: it is no rate, and a limit of 0 is not compared with the
\* other; the string "0" is a rate, and is compared.  A rate may be below zero.
validateWebhookData(b) ==
    /\ b.telegram_id
    /\ toLowerCase(b.type) \in {"buy", "sell"}
    /\ Given(b.rate) /\ b.rate # NaN
    /\ Given(b.amount) /\ b.amount # NaN /\ ParseFloat(b.amount) > 0
    /\ b.min_limit # NaN /\ b.max_limit # NaN
    /\ Given(b.min_limit) /\ Given(b.max_limit) =>
           ParseFloat(b.min_limit) <= ParseFloat(b.max_limit)

\* The order's type; here the case matters.
Side(b) == IF b.type = "buy" THEN "BUY" ELSE "SELL"

\* minLimit and maxLimit are required columns; parseFloat(undefined) is NaN, and Prisma does
\* not write it.
Storable(b) == {b.min_limit, b.max_limit} \cap {Missing, NaN} = {}

\* Math.abs(now - timestampMs) is at most TIMESTAMP_WINDOW.
InWindow(ms) == now - ms <= TIMESTAMP_WINDOW /\ ms - now <= TIMESTAMP_WINDOW

\* Mutants: the clean-up deletes what is still in the window; it never runs.
BugRemember(r, s) ==
    LET all == seen[r] \cup {s}
    IN  IF Cardinality(all) > CleanAbove THEN {x \in all : ParseInt[x] > now} ELSE all
BugKeepAll(r, s) == seen[r] \cup {s}

\* recentTimestamps after the text s was added and, above the limit, those of old numbers
\* deleted.
Remember(r, s) ==
    LET all == seen[r] \cup {s}
    IN  IF Cardinality(all) > CleanAbove
        THEN {x \in all : ParseInt[x] >= now - TIMESTAMP_WINDOW} ELSE all

Start(w, r, m) ==
    job' = [job EXCEPT ![w] = IF validateWebhookData(Body[m])
                              THEN [step |-> "create", at |-> r, msg |-> m] ELSE Idle]

\* The header is optional; without it nothing is looked up and nothing remembered.
TakeUnstamped(w, r, m) ==
    /\ job[w] = Idle
    /\ Stamp[m] = NoStamp
    /\ Start(w, r, m)
    /\ UNCHANGED <<now, seen, orders, answered, restarts, taken, cleaned>>

\* The window is one of the number, the memory one of the text: "1708800000000" and
\* "01708800000000" are one moment and two entries.  The text is remembered before the
\* message is validated, and stays so when the message turns out invalid or its order fails.
TakeStamped(w, r, m) ==
    LET s == Stamp[m] IN
    /\ job[w] = Idle
    /\ s # NoStamp /\ s \in Timed
    /\ InWindow(ParseInt[s])
    /\ s \notin seen[r]
    /\ seen' = [seen EXCEPT ![r] = Remember(r, s)]
    /\ taken' = [taken EXCEPT ![r][s] = @ + 1]
    /\ cleaned' = [cleaned EXCEPT ![r] = now]
    /\ Start(w, r, m)
    /\ UNCHANGED <<now, orders, answered, restarts>>

\* The fraud check asks for a user whose id is the Telegram id and finds none; createOrder
\* commits, without a look at what the same message has created before.
CreateOrder(w) ==
    LET m == job[w].msg IN
    /\ job[w].step = "create"
    /\ Storable(Body[m])
    /\ Stamp[m] = NoStamp => orders[m] < MaxOrders
    /\ orders' = [orders EXCEPT ![m] = @ + 1]
    /\ job' = [job EXCEPT ![w].step = "answer"]
    /\ UNCHANGED <<now, seen, answered, restarts, taken, cleaned>>

\* createOrder throws, and so does the handler.
Fail(w) ==
    /\ job[w].step = "create"
    /\ job' = [job EXCEPT ![w] = Idle]
    /\ UNCHANGED <<now, seen, orders, answered, restarts, taken, cleaned>>

\* Mutant: the handler answers without waiting for the order.
BugAnswer(w) ==
    /\ job[w] # Idle
    /\ \/ answered' = answered \cup {job[w].msg}
       \/ UNCHANGED answered
    /\ job' = [job EXCEPT ![w] = Idle]
    /\ UNCHANGED <<now, seen, orders, restarts, taken, cleaned>>

\* success: true reaches the bot or is lost.
Answer(w) ==
    /\ job[w].step = "answer"
    /\ \/ answered' = answered \cup {job[w].msg}
       \/ UNCHANGED answered
    /\ job' = [job EXCEPT ![w] = Idle]
    /\ UNCHANGED <<now, seen, orders, restarts, taken, cleaned>>

\* A process dies, its memory and its handlers with it.
Restart(r) ==
    /\ restarts < MaxRestarts
    /\ restarts' = restarts + 1
    /\ seen' = [seen EXCEPT ![r] = {}]
    /\ taken' = [taken EXCEPT ![r] = [s \in Stamps |-> 0]]
    /\ job' = [w \in Workers |-> IF job[w] # Idle /\ job[w].at = r THEN Idle ELSE job[w]]
    /\ UNCHANGED <<now, orders, answered, cleaned>>

Tick ==
    /\ now < MaxTime
    /\ now' = now + 1
    /\ UNCHANGED <<seen, job, orders, answered, restarts, taken, cleaned>>

Next ==
    \/ \E w \in Workers, r \in Replicas, m \in Messages : TakeUnstamped(w, r, m) \/ TakeStamped(w, r, m)
    \/ \E w \in Workers : CreateOrder(w) \/ Fail(w) \/ Answer(w)
    \/ \E r \in Replicas : Restart(r)
    \/ Tick

Spec == Init /\ [][Next]_vars

-----------------------------------------------------------------------------
TypeOK ==
    /\ now \in Nat
    /\ seen \in [Replicas -> SUBSET Timed]
    /\ job \in [Workers -> Job]
    /\ orders \in [Messages -> Nat]
    /\ answered \subseteq Messages
    /\ restarts \in Nat
    /\ taken \in [Replicas -> [Stamps -> Nat]]
    /\ cleaned \in [Replicas -> Nat]

\* A process lets one header text in once in its life, although it forgets old ones: what the
\* clean-up deletes is out of the window and stays out.  Two messages with the same text share
\* that one chance.  Two texts of one number do not: a message sent again with a leading zero
\* is let in again.
OneChancePerLife == \A r \in Replicas, s \in Stamps : taken[r][s] <= 1

\* Over all replicas and restarts a header text yields at most one order for each process
\* there has been: one for each replica, and one more for each restart within the window.
\* docs/SECURITY.md:63-65 and docs/STATUS_REPORT.md:217 say that a repeated request is rejected;
\* it is by the process that took the first one, when the text is the same.
OneOrderPerProcess ==
    \A s \in Stamps :
        SumFunctionOnSet(orders, {m \in Messages : Stamp[m] = s})
          <= Cardinality(Replicas) + restarts

\* Above the limit a replica remembers nothing that was out of the window when it last let a
\* message in: its memory is bounded by the traffic of two windows.
MemoryIsBounded ==
    \A r \in Replicas : Cardinality(seen[r]) > CleanAbove =>
        \A s \in seen[r] : ParseInt[s] >= cleaned[r] - TIMESTAMP_WINDOW

\* The bot is told of success only when the database has the order, whatever was lost, retried
\* or restarted in between.
SuccessIsStored == \A m \in answered : orders[m] > 0

Meant(b) == IF toLowerCase(b.type) = "buy" THEN "BUY" ELSE "SELL"

\* An order is what its message meant, with two exceptions that validation and conversion let
\* through together: any spelling of buy but the lower-case one sells, and limits of which one
\* is the number 0 are not compared.  Its amount is above zero; its rate need not be.
OrdersAreAsMeant ==
    \A m \in Messages : orders[m] > 0 =>
        LET b == Body[m]
        IN  /\ b.type # "swap" /\ ParseFloat(b.amount) > 0
            /\ Side(b) = Meant(b) \/ b.type \in {"Buy", "BUY"}
            /\ \/ ParseFloat(b.min_limit) <= ParseFloat(b.max_limit)
               \/ 0 \in {b.min_limit, b.max_limit}
=============================================================================

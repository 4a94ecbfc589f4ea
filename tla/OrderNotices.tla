---------------------------- MODULE OrderNotices ----------------------------
(***************************************************************************)
(* What OrdersService tells the world of its orders, and when.  The last   *)
(* thing a handler does inside its transaction T1 is to hand a row to      *)
(* NotificationsService; the transaction commits afterwards, or is lost.   *)
(*                                                                         *)
(* A handler reads the row and checks it (Begin), then goes through        *)
(* handlerSteps.  Its write locks the row until T1 ends.  The money of     *)
(* OrderRequests is left out: whatever T2 answers, the handler goes on or  *)
(* is lost (Lose, which also stands for a timeout, a crash, a refusal).    *)
(* As there, SELL orders exist only where the foreign key of the ledger is *)
(* not enforced.                                                           *)
(***************************************************************************)
EXTENDS OrderSchema, Sequences

CONSTANT Workers    \* requests that can be in progress at one time

VARIABLES
  row,       \* the Order table: type, parties and status of the committed rows
  disputed,  \* orders with a row in the Dispute table
  req,       \* the handler each worker is running
  word       \* the last event emitted of each order, and what became of its T1

noticeVars == <<row, disputed, req, word>>

Row == [type: Types, seller: Users \cup {NoUser}, buyer: Users \cup {NoUser},
        status: Statuses \cup {"ABSENT"}]

NoRow == [type |-> "BUY", seller |-> NoUser, buyer |-> NoUser, status |-> "ABSENT"]

Idle == [step |-> 0]

\* The handlers, the event each emits and the status each writes.
Event == [create  |-> "ORDER_CREATED",     accept  |-> "ORDER_ACCEPTED",
          payment |-> "PAYMENT_CONFIRMED", receipt |-> "RECEIPT_CONFIRMED",
          cancel  |-> "ORDER_CANCELLED",   dispute |-> "DISPUTE_CREATED",
          resolve |-> "DISPUTE_RESOLVED"]
Target == [accept |-> "PAYMENT_PENDING", payment |-> "PAID", receipt |-> "COMPLETED",
           cancel |-> "CANCELLED", dispute |-> "DISPUTED", resolve |-> "RESOLVED"]

Ops == DOMAIN Event

NoWord == [type |-> "none", status |-> "ABSENT", to |-> {}, fate |-> "none"]

Word == [type: {Event[op] : op \in Ops} \cup {"none"}, status: Statuses \cup {"ABSENT"},
         to: SUBSET Users, fate: {"none", "open", "committed", "lost"}]

\* A handler in progress: the row as it read it, or as it inserts it; told is the row it hands
\* to the notifications, from its write on.
Request == [step: 1..3, op: Ops, order: Orders, user: Users, read: Row, told: Row]

TypeOK ==
  /\ row \in [Orders -> Row]
  /\ disputed \subseteq Orders
  /\ req \in [Workers -> Request \cup {Idle}]
  /\ word \in [Orders -> Word]

NoticeInit ==
  /\ row = [o \in Orders |-> NoRow]
  /\ disputed = {}
  /\ req = [w \in Workers |-> Idle]
  /\ word = [o \in Orders |-> NoWord]

-----------------------------------------------------------------------------
(* NotificationsService: an event of the order, and personal notices.      *)

sendOrderUpdate(type, r, to) ==
  [type |-> type, status |-> r.status, to |-> to \ {NoUser}, fate |-> "open"]

notifyOrderCreated(r) ==
  sendOrderUpdate("ORDER_CREATED", r, {IF r.seller # NoUser THEN r.seller ELSE r.buyer})
notifyOrderAccepted(r, buyer) == sendOrderUpdate("ORDER_ACCEPTED", r, {r.seller, buyer})
notifyPaymentConfirmed(r) == sendOrderUpdate("PAYMENT_CONFIRMED", r, {r.buyer})
notifyReceiptConfirmed(r) == sendOrderUpdate("RECEIPT_CONFIRMED", r, {r.seller})
notifyOrderCancelled(r) == sendOrderUpdate("ORDER_CANCELLED", r, {r.seller, r.buyer})
notifyDisputeCreated(r) == sendOrderUpdate("DISPUTE_CREATED", r, {r.seller, r.buyer})
notifyDisputeResolved(r) == sendOrderUpdate("DISPUTE_RESOLVED", r, {r.seller, r.buyer})

\* The call at the end of each handler.
Notice(q) ==
  CASE q.op = "create"  -> notifyOrderCreated(q.told)
    [] q.op = "accept"  -> notifyOrderAccepted(q.told, q.user)
    [] q.op = "payment" -> notifyPaymentConfirmed(q.told)
    [] q.op = "receipt" -> notifyReceiptConfirmed(q.told)
    [] q.op = "cancel"  -> notifyOrderCancelled(q.told)
    [] q.op = "dispute" -> notifyDisputeCreated(q.told)
    [] q.op = "resolve" -> notifyDisputeResolved(q.told)

-----------------------------------------------------------------------------
\* Mutant: participants are told once the transaction has committed.
BugHandlerSteps == <<"write", "commit", "notify">>

\* What remains of a handler after its checks.
handlerSteps == <<"write", "notify", "commit">>

\* Worker w has done this step, and is at it.
Done(w, step) == \E k \in 1..(req[w].step - 1) : handlerSteps[k] = step
At(w, step) == req[w] # Idle /\ handlerSteps[req[w].step] = step

\* Another transaction holds the lock of the row of o.
Locked(w, o) ==
  \E v \in Workers \ {w} :
    req[v] # Idle /\ req[v].order = o /\ Done(v, "write") /\ ~Done(v, "commit")

\* The worker's next step, or the end.
Further(w) == IF req[w].step = Len(handlerSteps) THEN Idle
              ELSE [req[w] EXCEPT !.step = @ + 1]

\* The committed row a handler leaves.
Written(q) ==
  CASE q.op = "create" ->
         [q.read EXCEPT !.status = IF q.read.type = "SELL" THEN "RESERVED" ELSE "PENDING"]
    [] q.op = "accept" ->
         [row[q.order] EXCEPT !.buyer = q.user, !.status = "PAYMENT_PENDING"]
    [] OTHER -> [row[q.order] EXCEPT !.status = Target[q.op]]

\* Mutant: cancelOrder hands over the row it read, with the new status.
BugPassed(q) ==
  IF q.op = "cancel" THEN [q.read EXCEPT !.status = "CANCELLED"]
  ELSE IF q.op \in {"create", "dispute"} THEN q.read ELSE Written(q)

\* What the handler hands over: the row its update returned; but createOrder the row as first
\* inserted, and createDispute the row as read.
Passed(q) == IF q.op \in {"create", "dispute"} THEN q.read ELSE Written(q)

-----------------------------------------------------------------------------
Begin(w, op, o, u, read) ==
  /\ req[w] = Idle
  /\ req' = [req EXCEPT ![w] = [step |-> 1, op |-> op, order |-> o, user |-> u,
                                read |-> read, told |-> NoRow]]
  /\ UNCHANGED <<row, disputed, word>>

\* createOrder: a new id, and the row it inserts.
Create(w, o, u, type) ==
  /\ row[o] = NoRow /\ \A v \in Workers : req[v] # Idle => req[v].order # o
  /\ word[o] = NoWord
  /\ Begin(w, "create", o, u,
           [type |-> type, status |-> "PENDING",
            seller |-> IF type = "SELL" THEN u ELSE NoUser,
            buyer |-> IF type = "BUY" THEN u ELSE NoUser])

\* The checks of the handler of op on the row it reads.
MayBegin(op, r, u) ==
  CASE op = "accept"  -> r.type = "SELL" /\ CanTransition(r.status, "PAYMENT_PENDING")
    [] op = "payment" -> r.seller = u /\ CanTransition(r.status, "PAID")
    [] op = "receipt" -> r.buyer = u /\ CanTransition(r.status, "CONFIRMED")
    [] op = "cancel"  -> u \in {r.seller, r.buyer} /\ CanTransition(r.status, "CANCELLED")
    [] op = "dispute" -> CanTransition(r.status, "DISPUTED")
    [] op = "resolve" -> r.status = "DISPUTED"

Change(w, op, o, u) == MayBegin(op, row[o], u) /\ Begin(w, op, o, u, row[o])

\* The update of the row, not visible to others before the commit.  The second dispute of an
\* order is refused.
Write(w) ==
  /\ At(w, "write")
  /\ ~Locked(w, req[w].order)
  /\ req[w].op = "dispute" => req[w].order \notin disputed
  /\ req' = [req EXCEPT ![w].step = 2, ![w].told = Passed(req[w])]
  /\ UNCHANGED <<row, disputed, word>>

Notify(w) ==
  /\ At(w, "notify")
  /\ word' = [word EXCEPT ![req[w].order] =
       [Notice(req[w]) EXCEPT !.fate = IF Done(w, "commit") THEN "committed" ELSE "open"]]
  /\ req' = [req EXCEPT ![w] = Further(w)]
  /\ UNCHANGED <<row, disputed>>

Commit(w) ==
  LET q == req[w] IN
  /\ At(w, "commit")
  /\ row' = [row EXCEPT ![q.order] = Written(q)]
  /\ disputed' = IF q.op = "dispute" THEN disputed \cup {q.order} ELSE disputed
  /\ word' = IF Done(w, "notify") THEN [word EXCEPT ![q.order].fate = "committed"] ELSE word
  /\ req' = [req EXCEPT ![w] = Further(w)]

\* The handler is refused after its checks, or T1 is lost; what was told stays told.
Lose(w) ==
  /\ req[w] # Idle /\ ~Done(w, "commit")
  /\ word' = IF Done(w, "notify") THEN [word EXCEPT ![req[w].order].fate = "lost"] ELSE word
  /\ req' = [req EXCEPT ![w] = Idle]
  /\ UNCHANGED <<row, disputed>>

\* hideOrder (admin): one statement, whatever the status; nobody is told.
HideOrder(w, o) ==
  /\ req[w] = Idle /\ row[o] # NoRow /\ ~Locked(w, o)
  /\ row' = [row EXCEPT ![o].status = "HIDDEN"]
  /\ UNCHANGED <<disputed, req, word>>

\* A request arrives or goes on; all but the emission of an event.
Silent(w) ==
  \/ \E o \in Orders, u \in Users :
       \/ \E type \in Types : Create(w, o, u, type)
       \/ \E op \in Ops \ {"create"} : Change(w, op, o, u)
  \/ \E o \in Orders : HideOrder(w, o)
  \/ Write(w) \/ Commit(w) \/ Lose(w)

NoticeNext == \E w \in Workers : Silent(w) \/ Notify(w)

NoticeSpec == NoticeInit /\ [][NoticeNext]_noticeVars

-----------------------------------------------------------------------------
\* Events of one order are emitted in the order its changes commit, because each is emitted
\* under the lock of the row: when the last one's transaction has committed, the status it told
\* is the order's, however many requests raced for it.  Excepted are the two handlers that hand
\* over an older row, and an order hidden since, of which nobody is told.
LastWordIsTrue ==
  \A o \in Orders :
    word[o].fate = "committed" /\ word[o].type \notin {"ORDER_CREATED", "DISPUTE_CREATED"}
      => row[o].status \in {word[o].status, "HIDDEN"}

Parties(o) == {row[o].seller, row[o].buyer} \ {NoUser}

\* Personal notices go to the parties the committed row names, even where the handler read an
\* older row: nobody else is told, and of an acceptance, a cancellation and a resolution both
\* are.  A dispute is told to the parties of the row as read.
PartiesAreTold ==
  \A o \in Orders :
    word[o].fate = "committed" /\ word[o].type # "DISPUTE_CREATED" =>
      /\ word[o].to \subseteq Parties(o)
      /\ word[o].type \in {"ORDER_ACCEPTED", "ORDER_CANCELLED", "DISPUTE_RESOLVED"} =>
           word[o].to = Parties(o)
=============================================================================

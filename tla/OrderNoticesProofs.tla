------------------------- MODULE OrderNoticesProofs -------------------------
(***************************************************************************)
(* Proofs that the last committed word on an order is true and reaches its *)
(* parties, for any number of requests racing for any number of orders.    *)
(* The inductive invariant says what a handler relies on while it holds    *)
(* the lock of its row (Exclusive, Owned), what it has handed over since   *)
(* (Handed), and that nobody has spoken of the order after it (Spoken).    *)
(***************************************************************************)
EXTENDS OrderNotices, TLAPS

Busy(w) == req[w] # Idle
Holds(w) == Busy(w) /\ req[w].step \in {2, 3}

\* One transaction at a time holds the lock of a row.
Exclusive ==
  \A v, w \in Workers :
    Holds(v) /\ Holds(w) /\ req[v].order = req[w].order => v = w

\* An order being created is its creator's alone.
Owned ==
  \A w \in Workers : Busy(w) /\ req[w].op = "create" =>
    /\ row[req[w].order] = NoRow
    /\ \A v \in Workers \ {w} : Busy(v) => req[v].order # req[w].order

\* What was handed over is still what the transaction will leave.
Handed == \A w \in Workers : Holds(w) => req[w].told = Passed(req[w])

\* The last event of the order is the one of the transaction about to commit.
Spoken ==
  \A w \in Workers : Busy(w) /\ req[w].step = 3 => word[req[w].order] = Notice(req[w])

Inv == TypeOK /\ Exclusive /\ Owned /\ Handed /\ Spoken
         /\ LastWordIsTrue /\ PartiesAreTold

-----------------------------------------------------------------------------
(* The steps of a handler.                                                 *)

LEMMA Steps ==
  ASSUME TypeOK, NEW w \in Workers
  PROVE  /\ ~Busy(w) => req[w].step = 0
         /\ Busy(w) => req[w] \in Request
         /\ At(w, "write") <=> Busy(w) /\ req[w].step = 1
         /\ At(w, "notify") <=> Busy(w) /\ req[w].step = 2
         /\ At(w, "commit") <=> Busy(w) /\ req[w].step = 3
         /\ Busy(w) => (Done(w, "write") <=> req[w].step \in {2, 3})
         /\ Busy(w) => (Done(w, "notify") <=> req[w].step = 3)
         /\ Busy(w) => ~Done(w, "commit")
         /\ Busy(w) /\ req[w].step = 2 => Further(w) = [req[w] EXCEPT !.step = 3]
         /\ Busy(w) /\ req[w].step = 3 => Further(w) = Idle
<1>1. req[w] \in Request \cup {Idle}
  BY DEF TypeOK
<1>2. CASE req[w] = Idle
  BY <1>2 DEF Busy, At, Idle
<1>3. CASE Busy(w)
  <2>1. req[w] \in Request /\ req[w].step \in {1, 2, 3}
    BY <1>1, <1>3 DEF Busy, Request
  <2>2. /\ handlerSteps[1] = "write" /\ handlerSteps[2] = "notify"
        /\ handlerSteps[3] = "commit" /\ Len(handlerSteps) = 3
    BY DEF handlerSteps
  <2>3. CASE req[w].step = 1
    BY <2>1, <2>2, <2>3, <1>3 DEF At, Busy, Done
  <2>4. CASE req[w].step = 2
    BY <2>1, <2>2, <2>4, <1>3 DEF At, Busy, Done, Further
  <2>5. CASE req[w].step = 3
    BY <2>1, <2>2, <2>5, <1>3 DEF At, Busy, Done, Further
  <2> QED BY <2>1, <2>3, <2>4, <2>5
<1> QED BY <1>2, <1>3 DEF Busy

LEMMA LockedMeans ==
  ASSUME TypeOK, NEW w \in Workers, NEW o \in Orders
  PROVE  Locked(w, o) <=> \E v \in Workers \ {w} : Holds(v) /\ req[v].order = o
BY Steps DEF Locked, Holds, Busy

-----------------------------------------------------------------------------
(* Types.                                                                  *)

LEMMA WrittenType ==
  ASSUME TypeOK, NEW w \in Workers, Busy(w)
  PROVE  /\ Written(req[w]) \in Row
         /\ Passed(req[w]) \in Row
         /\ req[w].op # "create" =>
              Written(req[w]).seller = row[req[w].order].seller
         /\ req[w].op \notin {"create", "accept"} =>
              Written(req[w]).buyer = row[req[w].order].buyer
         /\ req[w].op = "accept" => Written(req[w]).buyer = req[w].user
         /\ req[w].op = "create" =>
              /\ Written(req[w]).seller = req[w].read.seller
              /\ Written(req[w]).buyer = req[w].read.buyer
<1> DEFINE q == req[w]
<1>1. q \in Request
  BY DEF TypeOK, Busy
<1>2. /\ q.op \in Ops /\ q.order \in Orders /\ q.user \in Users
      /\ q.read \in Row /\ row[q.order] \in Row
  BY <1>1 DEF Request, TypeOK
<1> HIDE DEF q
<1>3. PICK r \in Row : r = row[q.order]
  BY <1>2
<1>4. PICK p \in Row : p = q.read
  BY <1>2
<1>5. CASE q.op = "create"
  <2>1. Written(q) = [p EXCEPT !.status = IF p.type = "SELL" THEN "RESERVED" ELSE "PENDING"]
    BY <1>4, <1>5 DEF Written
  <2>2. /\ Written(q) \in Row /\ Written(q).seller = p.seller /\ Written(q).buyer = p.buyer
    BY <2>1 DEF Row, Statuses
  <2> QED BY <2>2, <1>2, <1>4, <1>5 DEF q, Passed
<1>6. CASE q.op = "accept"
  <2>1. Written(q) = [r EXCEPT !.buyer = q.user, !.status = "PAYMENT_PENDING"]
    BY <1>3, <1>6 DEF Written
  <2>2. Written(q) \in Row /\ Written(q).seller = r.seller /\ Written(q).buyer = q.user
    BY <2>1, <1>2 DEF Row, Statuses
  <2> QED BY <2>2, <1>2, <1>3, <1>4, <1>6 DEF q, Passed
<1>7. CASE q.op \in Ops \ {"create", "accept"}
  <2>1. Written(q) = [r EXCEPT !.status = Target[q.op]]
    BY <1>3, <1>7 DEF Written
  <2>2. Target[q.op] \in Statuses
    BY <1>7 DEF Target, Ops, Event, Statuses
  <2>3. Written(q) \in Row /\ Written(q).seller = r.seller /\ Written(q).buyer = r.buyer
    BY <2>1, <2>2 DEF Row
  <2> QED BY <2>3, <1>2, <1>3, <1>4, <1>7 DEF q, Passed
<1> QED BY <1>2, <1>5, <1>6, <1>7

\* The event of a handler tells the status of the row handed over, to users.
LEMMA NoticeType ==
  ASSUME NEW q \in Request
  PROVE  /\ Notice(q) \in Word
         /\ Notice(q).fate = "open"
         /\ Notice(q).type = Event[q.op]
         /\ Notice(q).status = q.told.status
         /\ q.op = "create" =>
              Notice(q).to = {IF q.told.seller # NoUser THEN q.told.seller ELSE q.told.buyer}
                               \ {NoUser}
         /\ q.op = "accept" => Notice(q).to = {q.told.seller, q.user} \ {NoUser}
         /\ q.op = "payment" => Notice(q).to = {q.told.buyer} \ {NoUser}
         /\ q.op = "receipt" => Notice(q).to = {q.told.seller} \ {NoUser}
         /\ q.op \in {"cancel", "dispute", "resolve"} =>
              Notice(q).to = {q.told.seller, q.told.buyer} \ {NoUser}
<1>1. /\ q.op \in {"create", "accept", "payment", "receipt", "cancel", "dispute", "resolve"}
      /\ q.user \in Users /\ q.told \in Row
  BY DEF Request, Ops, Event
<1>2. /\ q.told.status \in Statuses \cup {"ABSENT"}
      /\ q.told.seller \in Users \cup {NoUser} /\ q.told.buyer \in Users \cup {NoUser}
  BY <1>1 DEF Row
<1>3. Notice(q) = [type |-> Event[q.op], status |-> q.told.status, to |-> Notice(q).to,
                   fate |-> "open"]
  BY <1>1 DEF Notice, sendOrderUpdate, Event, notifyOrderCreated, notifyOrderAccepted,
     notifyPaymentConfirmed, notifyReceiptConfirmed, notifyOrderCancelled,
     notifyDisputeCreated, notifyDisputeResolved
<1>4. /\ q.op = "create" =>
           Notice(q).to = {IF q.told.seller # NoUser THEN q.told.seller ELSE q.told.buyer}
                            \ {NoUser}
      /\ q.op = "accept" => Notice(q).to = {q.told.seller, q.user} \ {NoUser}
      /\ q.op = "payment" => Notice(q).to = {q.told.buyer} \ {NoUser}
      /\ q.op = "receipt" => Notice(q).to = {q.told.seller} \ {NoUser}
      /\ q.op \in {"cancel", "dispute", "resolve"} =>
           Notice(q).to = {q.told.seller, q.told.buyer} \ {NoUser}
  BY <1>1 DEF Notice, sendOrderUpdate, notifyOrderCreated, notifyOrderAccepted,
     notifyPaymentConfirmed, notifyReceiptConfirmed, notifyOrderCancelled,
     notifyDisputeCreated, notifyDisputeResolved
<1>5. Notice(q).to \subseteq Users
  BY <1>1, <1>2, <1>4
<1>6. Event[q.op] \in {Event[op] : op \in Ops}
  BY <1>1 DEF Ops, Event
<1>7. Notice(q) \in Word
  BY <1>2, <1>3, <1>5, <1>6 DEF Word
<1> QED BY <1>3, <1>4, <1>7

-----------------------------------------------------------------------------
(* One lemma per action.                                                   *)

\* What a handler hands over depends on its reading and on the row of its order only.
LEMMA PassedSame ==
  ASSUME NEW v \in Workers, row'[req'[v].order] = row[req[v].order],
         req'[v].op = req[v].op, req'[v].order = req[v].order, req'[v].user = req[v].user,
         req'[v].read = req[v].read
  PROVE  Passed(req[v])' = Passed(req[v])
BY DEF Passed, Written

\* The fields of a handler once its write has found the row to hand over.
LEMMA HandedOver ==
  ASSUME NEW r \in Request, NEW t \in Row
  PROVE  /\ [r EXCEPT !.step = 2, !.told = t] \in Request
         /\ [r EXCEPT !.step = 2, !.told = t] =
              [step |-> 2, op |-> r.op, order |-> r.order, user |-> r.user, read |-> r.read,
               told |-> t]
<1>1. PICK q \in Request : q = [r EXCEPT !.step = 2]
  <2>1. [r EXCEPT !.step = 2] \in Request
    BY DEF Request
  <2> QED BY <2>1
<1>2. PICK p \in Request : p = [q EXCEPT !.told = t]
  <2>1. [q EXCEPT !.told = t] \in Request
    BY DEF Request
  <2> QED BY <2>1
<1>3. [r EXCEPT !.step = 2, !.told = t] = p
  <2>1. [r EXCEPT !.step = 2, !.told = t] = [[r EXCEPT !.step = 2] EXCEPT !.told = t]
    OBVIOUS
  <2> QED BY <2>1, <1>1, <1>2, Zenon
<1>4. /\ q.step = 2 /\ q.op = r.op /\ q.order = r.order /\ q.user = r.user /\ q.read = r.read
  BY <1>1 DEF Request
<1>5. /\ p.step = q.step /\ p.op = q.op /\ p.order = q.order /\ p.user = q.user
      /\ p.read = q.read /\ p.told = t
  BY <1>2 DEF Request
<1>6. p = [step |-> p.step, op |-> p.op, order |-> p.order, user |-> p.user, read |-> p.read,
           told |-> p.told]
  BY DEF Request
<1> QED BY <1>3, <1>4, <1>5, <1>6

LEMMA BeginKeeps ==
  ASSUME Inv, NEW w \in Workers, NEW op \in Ops, NEW o \in Orders, NEW u \in Users,
         NEW read \in Row, Begin(w, op, o, u, read),
         op = "create" =>
           row[o] = NoRow /\ \A v \in Workers : Busy(v) => req[v].order # o,
         op # "create" => row[o] # NoRow
  PROVE  Inv'
<1> DEFINE q == [step |-> 1, op |-> op, order |-> o, user |-> u, read |-> read, told |-> NoRow]
<1>1. /\ req \in [Workers -> Request \cup {Idle}] /\ req[w] = Idle
      /\ req' = [req EXCEPT ![w] = q] /\ UNCHANGED <<row, disputed, word>>
  BY DEF Begin, Inv, TypeOK
<1>2. q \in Request /\ q # Idle
  BY DEF Request, Idle, Row, NoRow, Types
<1>3. req'[w] = q /\ \A v \in Workers \ {w} : req'[v] = req[v]
  BY <1>1
<1>4. TypeOK'
  BY <1>1, <1>2 DEF Inv, TypeOK
<1>5. ~Busy(w) /\ Busy(w)' /\ ~Holds(w)'
  BY <1>1, <1>2, <1>3 DEF Busy, Holds
<1>6. \A v \in Workers \ {w} : (Busy(v)' <=> Busy(v)) /\ (Holds(v)' <=> Holds(v))
  BY <1>3 DEF Busy, Holds
<1>7. Exclusive'
  BY <1>3, <1>5, <1>6 DEF Inv, Exclusive
<1>8. Owned'
  <2> SUFFICES ASSUME NEW v \in Workers, Busy(v)', req'[v].op = "create"
               PROVE  /\ row'[req'[v].order] = NoRow
                      /\ \A x \in Workers \ {v} : Busy(x)' => req'[x].order # req'[v].order
    BY DEF Owned
  <2>1. CASE v = w
    BY <2>1, <1>1, <1>3, <1>6
  <2>2. CASE v # w
    <3>1. /\ Busy(v) /\ req[v].op = "create" /\ row[req[v].order] = NoRow
          /\ \A x \in Workers \ {v} : Busy(x) => req[x].order # req[v].order
      BY <2>2, <1>3, <1>6 DEF Inv, Owned
    <3>2. o # req[v].order
      BY <3>1
    <3> QED BY <2>2, <3>1, <3>2, <1>1, <1>3, <1>6
  <2> QED BY <2>1, <2>2
<1>9. Handed'
  <2> SUFFICES ASSUME NEW v \in Workers, Holds(v)' PROVE (req[v].told = Passed(req[v]))'
    BY DEF Handed
  <2>1. v # w /\ Holds(v) /\ req'[v] = req[v] /\ row' = row
    BY <1>1, <1>3, <1>5, <1>6
  <2> QED BY <2>1 DEF Inv, Handed, Passed, Written
<1>10. Spoken'
  BY <1>1, <1>3, <1>6 DEF Inv, Spoken
<1>11. LastWordIsTrue' /\ PartiesAreTold'
  BY <1>1 DEF Inv, LastWordIsTrue, PartiesAreTold, Parties
<1> QED BY <1>4, <1>7, <1>8, <1>9, <1>10, <1>11 DEF Inv

LEMMA CreateKeeps ==
  ASSUME Inv, NEW w \in Workers, NEW o \in Orders, NEW u \in Users, NEW type \in Types,
         Create(w, o, u, type)
  PROVE  Inv'
<1> DEFINE read == [type |-> type, status |-> "PENDING",
                    seller |-> IF type = "SELL" THEN u ELSE NoUser,
                    buyer |-> IF type = "BUY" THEN u ELSE NoUser]
<1>1. read \in Row
  BY DEF Row, Statuses
<1>2. Begin(w, "create", o, u, read) /\ "create" \in Ops
  BY DEF Create, Ops, Event
<1>3. row[o] = NoRow /\ \A v \in Workers : Busy(v) => req[v].order # o
  BY DEF Create, Busy
<1> HIDE DEF read
<1> QED BY <1>1, <1>2, <1>3, BeginKeeps

LEMMA ChangeKeeps ==
  ASSUME Inv, NEW w \in Workers, NEW op \in Ops \ {"create"}, NEW o \in Orders,
         NEW u \in Users, Change(w, op, o, u)
  PROVE  Inv'
<1>1. row[o] \in Row /\ Begin(w, op, o, u, row[o])
  BY DEF Inv, TypeOK, Change
<1>2. MayBegin(op, row[o], u)
  BY DEF Change
<1>3. ~MayBegin(op, NoRow, u)
  <2>1. op \in {"accept", "payment", "receipt", "cancel", "dispute", "resolve"}
    BY DEF Ops, Event
  <2> QED BY <2>1 DEF MayBegin, NoRow, CanTransition, Statuses
<1>4. row[o] # NoRow
  BY <1>2, <1>3
<1> QED BY <1>1, <1>4, BeginKeeps

LEMMA WriteKeeps ==
  ASSUME Inv, NEW w \in Workers, Write(w)
  PROVE  Inv'
<1> DEFINE q == req[w]
           t == Passed(req[w])
<1>1. /\ Busy(w) /\ q \in Request /\ q.step = 1 /\ ~Holds(w)
      /\ req \in [Workers -> Request \cup {Idle}]
  BY Steps DEF Inv, TypeOK, Write, Holds
<1>2. t \in Row
  BY <1>1, WrittenType DEF Inv
<1>3. \A v \in Workers \ {w} : Holds(v) => req[v].order # q.order
  BY LockedMeans, <1>1 DEF Inv, Write, Request
<1>4. req' = [req EXCEPT ![w].step = 2, ![w].told = t] /\ UNCHANGED <<row, disputed, word>>
  BY DEF Write
<1> HIDE DEF t
<1>5. PICK r \in Request : r = q
  BY <1>1
<1>6. req'[w] = [r EXCEPT !.step = 2, !.told = t]
  BY <1>1, <1>4, <1>5
<1>7. /\ req'[w] \in Request /\ req'[w].step = 2 /\ req'[w].op = q.op
      /\ req'[w].order = q.order /\ req'[w].user = q.user /\ req'[w].read = q.read
      /\ req'[w].told = t
  <2> DEFINE p == [r EXCEPT !.step = 2, !.told = t]
  <2>1. p \in Request /\ p = [step |-> 2, op |-> r.op, order |-> r.order, user |-> r.user,
                              read |-> r.read, told |-> t]
    BY <1>2, HandedOver, Zenon
  <2>2. req'[w] = p
    BY <1>6
  <2> HIDE DEF p
  <2> QED BY <2>1, <2>2, <1>5
<1>8. /\ \A v \in Workers \ {w} : req'[v] = req[v]
      /\ DOMAIN req' = Workers /\ req' = [v \in Workers |-> req'[v]]
  BY <1>1, <1>4
<1>9. Busy(w)' /\ Holds(w)'
  BY <1>7 DEF Busy, Holds, Idle, Request
<1>10. \A v \in Workers \ {w} : (Busy(v)' <=> Busy(v)) /\ (Holds(v)' <=> Holds(v))
  BY <1>8 DEF Busy, Holds
<1>11. TypeOK'
  BY <1>1, <1>4, <1>7, <1>8 DEF Inv, TypeOK
<1>12. Exclusive'
  BY <1>3, <1>7, <1>8, <1>10 DEF Inv, Exclusive
<1>13. Owned'
  BY <1>1, <1>4, <1>7, <1>8, <1>9, <1>10 DEF Inv, Owned
<1>14. Handed'
  <2> SUFFICES ASSUME NEW v \in Workers, Holds(v)' PROVE (req[v].told = Passed(req[v]))'
    BY DEF Handed
  <2>1. CASE v = w
    BY <2>1, <1>4, <1>7 DEF t, Passed, Written
  <2>2. CASE v # w
    BY <2>2, <1>4, <1>8, <1>10 DEF Inv, Handed, Passed, Written
  <2> QED BY <2>1, <2>2
<1>15. Spoken'
  <2> SUFFICES ASSUME NEW v \in Workers, Busy(v)', req'[v].step = 3
               PROVE  (word[req[v].order] = Notice(req[v]))'
    BY DEF Spoken
  <2>1. v # w
    BY <1>7
  <2> QED BY <2>1, <1>4, <1>8, <1>10 DEF Inv, Spoken
<1>16. LastWordIsTrue' /\ PartiesAreTold'
  BY <1>4 DEF Inv, LastWordIsTrue, PartiesAreTold, Parties
<1> QED BY <1>11, <1>12, <1>13, <1>14, <1>15, <1>16 DEF Inv

LEMMA NotifyKeeps ==
  ASSUME Inv, NEW w \in Workers, Notify(w)
  PROVE  Inv'
<1> DEFINE q == req[w]
<1>1. /\ Busy(w) /\ q \in Request /\ q.step = 2 /\ Holds(w) /\ q.order \in Orders
      /\ req \in [Workers -> Request \cup {Idle}] /\ word \in [Orders -> Word]
  BY Steps DEF Inv, TypeOK, Notify, Holds, Request
<1>2. ~Done(w, "commit") /\ Further(w) = [q EXCEPT !.step = 3]
  BY Steps, <1>1 DEF Inv
<1>3. PICK r \in Request : r = q
  BY <1>1
<1>4. PICK n \in Word : n = Notice(q) /\ n.fate = "open"
  BY <1>1, NoticeType
<1>5. /\ word' = [word EXCEPT ![q.order] = [n EXCEPT !.fate = "open"]]
      /\ req' = [req EXCEPT ![w] = [r EXCEPT !.step = 3]]
      /\ UNCHANGED <<row, disputed>>
  BY <1>2, <1>3, <1>4 DEF Notify
<1>6. [n EXCEPT !.fate = "open"] = n
  BY <1>4 DEF Word
<1>7. /\ req'[w] = [r EXCEPT !.step = 3]
      /\ \A v \in Workers \ {w} : req'[v] = req[v]
  BY <1>1, <1>5
<1>8. /\ req'[w] \in Request /\ req'[w].step = 3 /\ req'[w].op = q.op
      /\ req'[w].order = q.order /\ req'[w].user = q.user /\ req'[w].read = q.read
      /\ req'[w].told = q.told
  BY <1>3, <1>7 DEF Request
<1>9. Busy(w)' /\ Holds(w)'
  BY <1>8 DEF Busy, Holds, Idle, Request
<1>10. \A v \in Workers \ {w} : (Busy(v)' <=> Busy(v)) /\ (Holds(v)' <=> Holds(v))
  BY <1>7 DEF Busy, Holds
<1>11. word' = [word EXCEPT ![q.order] = n]
  BY <1>5, <1>6
<1>12. TypeOK'
  BY <1>1, <1>4, <1>5, <1>7, <1>8, <1>11 DEF Inv, TypeOK
<1>13. Exclusive'
  BY <1>1, <1>7, <1>8, <1>10 DEF Inv, Exclusive
<1>14. Owned'
  BY <1>1, <1>5, <1>7, <1>8, <1>9, <1>10 DEF Inv, Owned
<1>15. Handed'
  <2> SUFFICES ASSUME NEW v \in Workers, Holds(v)' PROVE (req[v].told = Passed(req[v]))'
    BY DEF Handed
  <2>1. Holds(v) /\ Passed(req[v])' = Passed(req[v])
    BY <1>1, <1>5, <1>7, <1>8, <1>10, PassedSame
  <2>2. req'[v].told = req[v].told
    BY <1>7, <1>8
  <2> QED BY <2>1, <2>2 DEF Inv, Handed
<1>16. Notice(req'[w]) = n
  <2>1. Notice(req'[w]) = Notice(q)
    BY <1>8 DEF Notice
  <2> QED BY <2>1, <1>4
<1>17. Spoken'
  <2> SUFFICES ASSUME NEW v \in Workers, Busy(v)', req'[v].step = 3
               PROVE  word'[req'[v].order] = Notice(req'[v])
    BY DEF Spoken, Notice, sendOrderUpdate, notifyOrderCreated, notifyOrderAccepted,
       notifyPaymentConfirmed, notifyReceiptConfirmed, notifyOrderCancelled,
       notifyDisputeCreated, notifyDisputeResolved
  <2>1. CASE v = w
    BY <2>1, <1>1, <1>8, <1>11, <1>16
  <2>2. CASE v # w
    <3>1. Holds(v) /\ word[req[v].order] = Notice(req[v])
      BY <2>2, <1>7, <1>10 DEF Inv, Spoken, Holds
    <3>2. req[v].order # q.order
      BY <2>2, <3>1, <1>1 DEF Inv, Exclusive
    <3>3. req[v] \in Request /\ req[v].order \in Orders
      BY <3>1 DEF Inv, TypeOK, Holds, Busy, Request
    <3> QED BY <2>2, <3>1, <3>2, <3>3, <1>1, <1>7, <1>11
  <2> QED BY <2>1, <2>2
<1>18. LastWordIsTrue' /\ PartiesAreTold'
  BY <1>1, <1>4, <1>5, <1>11 DEF Inv, LastWordIsTrue, PartiesAreTold, Parties
<1> QED BY <1>12, <1>13, <1>14, <1>15, <1>17, <1>18 DEF Inv

\* A worker that commits or is lost becomes idle, and leaves to the others what they hold.
LEMMA EndKeeps ==
  ASSUME Inv, NEW w \in Workers, Busy(w), req' = [req EXCEPT ![w] = Idle],
         row' \in [Orders -> Row], word' \in [Orders -> Word], disputed' \subseteq Orders,
         \A o \in Orders \ {req[w].order} : row'[o] = row[o] /\ word'[o] = word[o],
         row'[req[w].order] # row[req[w].order] => Holds(w),
         word'[req[w].order] # word[req[w].order] => Holds(w)
  PROVE  TypeOK' /\ Exclusive' /\ Owned' /\ Handed' /\ Spoken'
<1>1. req \in [Workers -> Request \cup {Idle}] /\ req[w] \in Request
  BY DEF Inv, TypeOK, Busy
<1>2. req'[w] = Idle /\ \A v \in Workers \ {w} : req'[v] = req[v]
  BY <1>1
<1>3. ~Busy(w)' /\ ~Holds(w)'
  BY <1>2 DEF Busy, Holds
<1>4. \A v \in Workers \ {w} : (Busy(v)' <=> Busy(v)) /\ (Holds(v)' <=> Holds(v))
  BY <1>2 DEF Busy, Holds
<1>5. \A v \in Workers : Busy(v) => req[v] \in Request /\ req[v].order \in Orders
  BY DEF Inv, TypeOK, Busy, Request
<1>6. TypeOK'
  BY <1>1 DEF TypeOK
<1>7. Exclusive'
  BY <1>2, <1>3, <1>4 DEF Inv, Exclusive
\* Where another worker holds a row, or owns an order, this one has changed nothing.
<1>8. \A v \in Workers \ {w} : Holds(v) =>
        row'[req[v].order] = row[req[v].order] /\ word'[req[v].order] = word[req[v].order]
  <2> SUFFICES ASSUME NEW v \in Workers \ {w}, Holds(v)
               PROVE  row'[req[v].order] = row[req[v].order]
                        /\ word'[req[v].order] = word[req[v].order]
    OBVIOUS
  <2>1. req[v].order \in Orders
    BY <1>5 DEF Holds
  <2>2. CASE req[v].order = req[w].order
    <3>1. ~Holds(w)
      BY <2>2 DEF Inv, Exclusive
    <3> QED BY <3>1, <2>2
  <2>3. CASE req[v].order # req[w].order
    BY <2>1, <2>3
  <2> QED BY <2>2, <2>3
<1>9. Owned'
  <2> SUFFICES ASSUME NEW v \in Workers, Busy(v)', req'[v].op = "create"
               PROVE  /\ row'[req'[v].order] = NoRow
                      /\ \A x \in Workers \ {v} : Busy(x)' => req'[x].order # req'[v].order
    BY DEF Owned
  <2>1. v # w /\ Busy(v) /\ req'[v] = req[v]
    BY <1>2, <1>3, <1>4
  <2>2. /\ row[req[v].order] = NoRow
        /\ \A x \in Workers \ {v} : Busy(x) => req[x].order # req[v].order
    BY <2>1 DEF Inv, Owned
  <2>3. req[v].order # req[w].order /\ req[v].order \in Orders
    BY <1>5, <2>1, <2>2
  <2>4. row'[req[v].order] = NoRow
    BY <2>2, <2>3
  <2> QED BY <2>1, <2>2, <2>4, <1>2, <1>3, <1>4
<1>10. Handed'
  <2> SUFFICES ASSUME NEW v \in Workers, Holds(v)' PROVE (req[v].told = Passed(req[v]))'
    BY DEF Handed
  <2>1. v # w /\ Holds(v) /\ req'[v] = req[v]
    BY <1>2, <1>3, <1>4
  <2>2. Passed(req[v])' = Passed(req[v])
    BY <2>1, <1>8, PassedSame
  <2> QED BY <2>1, <2>2 DEF Inv, Handed
<1>11. Spoken'
  <2> SUFFICES ASSUME NEW v \in Workers, Busy(v)', req'[v].step = 3
               PROVE  (word[req[v].order] = Notice(req[v]))'
    BY DEF Spoken
  <2>1. v # w /\ Busy(v) /\ req'[v] = req[v] /\ Holds(v)
    BY <1>2, <1>3, <1>4 DEF Holds
  <2> QED BY <2>1, <1>8 DEF Inv, Spoken
<1> QED BY <1>6, <1>7, <1>9, <1>10, <1>11

LEMMA LoseKeeps ==
  ASSUME Inv, NEW w \in Workers, Lose(w)
  PROVE  Inv'
<1> DEFINE o == req[w].order
<1>1. /\ Busy(w) /\ req[w] \in Request /\ o \in Orders
      /\ word \in [Orders -> Word] /\ row \in [Orders -> Row] /\ disputed \subseteq Orders
  BY DEF Lose, Inv, TypeOK, Busy, Request
<1>2. req' = [req EXCEPT ![w] = Idle] /\ row' = row /\ disputed' = disputed
  BY DEF Lose
<1>3. PICK n \in Word : n = word[o]
  BY <1>1
<1>4. [n EXCEPT !.fate = "lost"] \in Word /\ [n EXCEPT !.fate = "lost"].fate = "lost"
  BY DEF Word
<1>5. CASE ~Holds(w)
  <2>1. word' = word
    BY <1>1, <1>5, Steps DEF Lose, Inv, Holds
  <2>2. TypeOK' /\ Exclusive' /\ Owned' /\ Handed' /\ Spoken'
    BY <2>1, <1>1, <1>2, EndKeeps
  <2>3. LastWordIsTrue' /\ PartiesAreTold'
    BY <2>1, <1>2 DEF Inv, LastWordIsTrue, PartiesAreTold, Parties
  <2> QED BY <2>2, <2>3 DEF Inv
<1>6. CASE Holds(w)
  <2>1. \/ word' = word
        \/ word' = [word EXCEPT ![o] = [n EXCEPT !.fate = "lost"]]
    BY <1>3 DEF Lose
  <2>2. /\ word' \in [Orders -> Word] /\ \A x \in Orders \ {o} : word'[x] = word[x]
        /\ word'[o] = word[o] \/ word'[o].fate = "lost"
    BY <2>1, <1>1, <1>4
  <2>3. TypeOK' /\ Exclusive' /\ Owned' /\ Handed' /\ Spoken'
    BY <2>2, <1>1, <1>2, <1>6, EndKeeps
  <2>4. LastWordIsTrue' /\ PartiesAreTold'
    BY <2>2, <1>1, <1>2 DEF Inv, LastWordIsTrue, PartiesAreTold, Parties
  <2> QED BY <2>3, <2>4 DEF Inv
<1> QED BY <1>5, <1>6

LEMMA CommitKeeps ==
  ASSUME Inv, NEW w \in Workers, Commit(w)
  PROVE  Inv'
<1> DEFINE q == req[w]
           o == req[w].order
<1>1. /\ Busy(w) /\ q \in Request /\ q.step = 3 /\ Holds(w) /\ o \in Orders
      /\ word \in [Orders -> Word] /\ row \in [Orders -> Row] /\ disputed \subseteq Orders
  BY Steps DEF Inv, TypeOK, Commit, Holds, Request
<1>2. Done(w, "notify") /\ Further(w) = Idle
  BY Steps, <1>1 DEF Inv
<1>3. PICK n \in Word : n = word[o] /\ n = Notice(q)
  BY <1>1 DEF Inv, Spoken
<1>4. PICK x \in Row : x = Written(q)
  BY <1>1, WrittenType DEF Inv
<1>5. PICK c \in Word : c = [n EXCEPT !.fate = "committed"]
  <2>1. [n EXCEPT !.fate = "committed"] \in Word
    BY DEF Word
  <2> QED BY <2>1
<1>6. /\ req' = [req EXCEPT ![w] = Idle] /\ row' = [row EXCEPT ![o] = x]
      /\ word' = [word EXCEPT ![o] = c] /\ disputed' \subseteq Orders
  BY <1>1, <1>2, <1>3, <1>4, <1>5 DEF Commit
<1>7. /\ row' \in [Orders -> Row] /\ word' \in [Orders -> Word]
      /\ row'[o] = x /\ word'[o] = c
      /\ \A p \in Orders \ {o} : row'[p] = row[p] /\ word'[p] = word[p]
  BY <1>1, <1>6
<1>8. TypeOK' /\ Exclusive' /\ Owned' /\ Handed' /\ Spoken'
  BY <1>1, <1>6, <1>7, EndKeeps
<1>9. c.type = n.type /\ c.status = n.status /\ c.to = n.to
  BY <1>5 DEF Word
<1>10. q.told = Passed(q)
  BY <1>1 DEF Inv, Handed
<1>11. q.op \in Ops /\ q.user \in Users /\ q.read \in Row
  BY <1>1 DEF Request
<1>12. q.op \notin {"create", "dispute"} => q.told = x
  BY <1>4, <1>10, <1>11 DEF Passed
<1>13. q.op = "create" => x.seller = q.told.seller /\ x.buyer = q.told.buyer
  BY <1>1, <1>4, <1>10, WrittenType DEF Inv, Passed
<1>14. q.op = "accept" => x.buyer = q.user
  BY <1>1, <1>4, WrittenType DEF Inv
<1>15. /\ n.type = Event[q.op] /\ n.status = q.told.status
  BY <1>1, <1>3, NoticeType
<1>16. c.type \notin {"ORDER_CREATED", "DISPUTE_CREATED"} => c.status = x.status
  BY <1>9, <1>11, <1>12, <1>15 DEF Event, Ops
<1>17. LastWordIsTrue'
  BY <1>7, <1>16 DEF Inv, LastWordIsTrue
<1>18. c.type # "DISPUTE_CREATED" =>
         /\ c.to \subseteq {x.seller, x.buyer} \ {NoUser}
         /\ c.type \in {"ORDER_ACCEPTED", "ORDER_CANCELLED", "DISPUTE_RESOLVED"} =>
              c.to = {x.seller, x.buyer} \ {NoUser}
  <2> SUFFICES ASSUME c.type # "DISPUTE_CREATED"
               PROVE  /\ c.to \subseteq {x.seller, x.buyer} \ {NoUser}
                      /\ c.type \in {"ORDER_ACCEPTED", "ORDER_CANCELLED", "DISPUTE_RESOLVED"}
                           => c.to = {x.seller, x.buyer} \ {NoUser}
    OBVIOUS
  <2>1. q.op \in {"create", "accept", "payment", "receipt", "cancel", "dispute", "resolve"}
    BY <1>11 DEF Ops, Event
  <2>2. c.to = Notice(q).to /\ c.type = Event[q.op]
    BY <1>3, <1>9, <1>15
  <2>3. CASE q.op = "create"
    <3>1. c.to = {IF q.told.seller # NoUser THEN q.told.seller ELSE q.told.buyer} \ {NoUser}
      BY <2>2, <2>3, <1>1, NoticeType
    <3> QED BY <3>1, <2>2, <2>3, <1>13 DEF Event
  <2>4. CASE q.op = "accept"
    <3>1. c.to = {q.told.seller, q.user} \ {NoUser}
      BY <2>2, <2>4, <1>1, NoticeType
    <3> QED BY <3>1, <2>4, <1>12, <1>14
  <2>5. CASE q.op = "payment"
    <3>1. c.to = {q.told.buyer} \ {NoUser}
      BY <2>2, <2>5, <1>1, NoticeType
    <3> QED BY <3>1, <2>2, <2>5, <1>12 DEF Event
  <2>6. CASE q.op = "receipt"
    <3>1. c.to = {q.told.seller} \ {NoUser}
      BY <2>2, <2>6, <1>1, NoticeType
    <3> QED BY <3>1, <2>2, <2>6, <1>12 DEF Event
  <2>7. CASE q.op \in {"cancel", "resolve"}
    <3>1. c.to = {q.told.seller, q.told.buyer} \ {NoUser}
      BY <2>2, <2>7, <1>1, NoticeType
    <3> QED BY <3>1, <2>7, <1>12
  <2>8. q.op # "dispute"
    BY <2>2 DEF Event
  <2> QED BY <2>1, <2>3, <2>4, <2>5, <2>6, <2>7, <2>8
<1>19. PartiesAreTold'
  <2> SUFFICES ASSUME NEW p \in Orders, word'[p].fate = "committed",
                      word'[p].type # "DISPUTE_CREATED"
               PROVE  /\ word'[p].to \subseteq {row'[p].seller, row'[p].buyer} \ {NoUser}
                      /\ word'[p].type \in {"ORDER_ACCEPTED", "ORDER_CANCELLED",
                                            "DISPUTE_RESOLVED"}
                           => word'[p].to = {row'[p].seller, row'[p].buyer} \ {NoUser}
    BY DEF PartiesAreTold, Parties
  <2>1. CASE p = o
    BY <2>1, <1>7, <1>18
  <2>2. CASE p # o
    BY <2>2, <1>7 DEF Inv, PartiesAreTold, Parties
  <2> QED BY <2>1, <2>2
<1> QED BY <1>8, <1>17, <1>19 DEF Inv

LEMMA HideOrderKeeps ==
  ASSUME Inv, NEW w \in Workers, NEW o \in Orders, HideOrder(w, o)
  PROVE  Inv'
<1>1. /\ ~Busy(w) /\ row[o] # NoRow /\ ~Locked(w, o) /\ UNCHANGED <<disputed, req, word>>
      /\ row \in [Orders -> Row]
  BY DEF HideOrder, Busy, Inv, TypeOK
<1>2. PICK r \in Row : r = row[o]
  BY <1>1
<1>3. PICK h \in Row : h = [r EXCEPT !.status = "HIDDEN"]
  <2>1. [r EXCEPT !.status = "HIDDEN"] \in Row
    BY DEF Row, Statuses
  <2> QED BY <2>1
<1>4. h.status = "HIDDEN" /\ h.seller = r.seller /\ h.buyer = r.buyer
  BY <1>3 DEF Row
<1>5. row' = [row EXCEPT ![o] = h]
  BY <1>2, <1>3 DEF HideOrder
<1>6. row'[o] = h /\ \A x \in Orders \ {o} : row'[x] = row[x]
  BY <1>1, <1>5
<1>7. \A v \in Workers : (Busy(v)' <=> Busy(v)) /\ (Holds(v)' <=> Holds(v))
  BY <1>1 DEF Busy, Holds
<1>8. \A v \in Workers : Busy(v) => req[v] \in Request /\ req[v].order \in Orders
  BY DEF Inv, TypeOK, Busy, Request
<1>9. \A v \in Workers : Holds(v) => req[v].order # o
  BY <1>1, LockedMeans DEF Inv, Holds
<1>10. TypeOK'
  BY <1>1, <1>5 DEF Inv, TypeOK
<1>11. Exclusive'
  BY <1>1, <1>7 DEF Inv, Exclusive
<1>12. Owned'
  <2> SUFFICES ASSUME NEW v \in Workers, Busy(v)', req'[v].op = "create"
               PROVE  /\ row'[req'[v].order] = NoRow
                      /\ \A x \in Workers \ {v} : Busy(x)' => req'[x].order # req'[v].order
    BY DEF Owned
  <2>1. /\ row[req[v].order] = NoRow /\ req' = req /\ Busy(v)
        /\ \A x \in Workers \ {v} : Busy(x) => req[x].order # req[v].order
    BY <1>1, <1>7 DEF Inv, Owned
  <2>2. req[v].order # o /\ req[v].order \in Orders
    BY <2>1, <1>1, <1>8
  <2> QED BY <2>1, <2>2, <1>6, <1>7
<1>13. Handed'
  <2> SUFFICES ASSUME NEW v \in Workers, Holds(v)' PROVE (req[v].told = Passed(req[v]))'
    BY DEF Handed
  <2>1. Holds(v) /\ req[v].order # o /\ req[v].order \in Orders
    BY <1>7, <1>8, <1>9 DEF Holds
  <2>2. Passed(req[v])' = Passed(req[v])
    BY <2>1, <1>1, <1>6, PassedSame
  <2> QED BY <2>1, <2>2, <1>1 DEF Inv, Handed
<1>14. Spoken'
  BY <1>1, <1>7 DEF Inv, Spoken
<1>15. LastWordIsTrue'
  BY <1>1, <1>4, <1>6 DEF Inv, LastWordIsTrue
<1>16. Parties(o)' = Parties(o)
  BY <1>2, <1>4, <1>6 DEF Parties
<1>17. PartiesAreTold'
  <2>1. \A x \in Orders : {row'[x].seller, row'[x].buyer} \ {NoUser} = Parties(x)
    BY <1>6, <1>16 DEF Parties
  <2> QED BY <2>1, <1>1 DEF Inv, PartiesAreTold, Parties
<1> QED BY <1>10, <1>11, <1>12, <1>13, <1>14, <1>15, <1>17 DEF Inv

-----------------------------------------------------------------------------
LEMMA InitInv == NoticeInit => Inv
<1> SUFFICES ASSUME NoticeInit PROVE Inv
  OBVIOUS
<1>1. NoRow \in Row /\ NoWord \in Word
  BY DEF NoRow, Row, NoWord, Word, Types
<1>2. TypeOK
  BY <1>1 DEF NoticeInit, TypeOK
<1>3. Exclusive /\ Owned /\ Handed /\ Spoken
  BY DEF NoticeInit, Exclusive, Owned, Handed, Spoken, Busy, Holds
<1>4. LastWordIsTrue /\ PartiesAreTold
  BY DEF NoticeInit, LastWordIsTrue, PartiesAreTold, NoWord
<1> QED BY <1>2, <1>3, <1>4 DEF Inv

LEMMA StutterInv == Inv /\ UNCHANGED noticeVars => Inv'
<1> SUFFICES ASSUME Inv, UNCHANGED noticeVars PROVE Inv'
  OBVIOUS
<1>1. row' = row /\ disputed' = disputed /\ req' = req /\ word' = word
  BY DEF noticeVars
<1>2. TypeOK' /\ Exclusive' /\ Owned'
  BY <1>1 DEF Inv, TypeOK, Exclusive, Owned, Busy, Holds
<1>3. Handed' /\ Spoken'
  BY <1>1 DEF Inv, Handed, Spoken, Busy, Holds, Passed, Written
<1>4. LastWordIsTrue' /\ PartiesAreTold'
  BY <1>1 DEF Inv, LastWordIsTrue, PartiesAreTold, Parties
<1> QED BY <1>2, <1>3, <1>4 DEF Inv

LEMMA NextInv == Inv /\ [NoticeNext]_noticeVars => Inv'
<1> SUFFICES ASSUME Inv, NoticeNext PROVE Inv'
  BY StutterInv
<1>1. PICK w \in Workers : Silent(w) \/ Notify(w)
  BY DEF NoticeNext
<1>2. ASSUME NEW o \in Orders, NEW u \in Users, NEW type \in Types, Create(w, o, u, type)
      PROVE  Inv'
  BY <1>2, CreateKeeps
<1>3. ASSUME NEW o \in Orders, NEW u \in Users, NEW op \in Ops \ {"create"},
             Change(w, op, o, u)
      PROVE  Inv'
  BY <1>3, ChangeKeeps
<1>4. ASSUME NEW o \in Orders, HideOrder(w, o) PROVE Inv'
  BY <1>4, HideOrderKeeps
<1>5. CASE Write(w)
  BY <1>5, WriteKeeps
<1>6. CASE Commit(w)
  BY <1>6, CommitKeeps
<1>7. CASE Lose(w)
  BY <1>7, LoseKeeps
<1>8. CASE Notify(w)
  BY <1>8, NotifyKeeps
<1> QED BY <1>1, <1>2, <1>3, <1>4, <1>5, <1>6, <1>7, <1>8 DEF Silent

LEMMA InvHolds == NoticeSpec => []Inv
BY InitInv, NextInv, PTL DEF NoticeSpec

\* Handlers, rows and events keep their types, whatever the requests do.
THEOREM NoticesTyped == NoticeSpec => []TypeOK
<1>1. Inv => TypeOK
  BY DEF Inv
<1> QED BY <1>1, InvHolds, PTL

\* However many requests race for however many orders, the last committed word on an order is
\* the status of its row (or the order was hidden since): events are emitted under the row lock.
THEOREM LastWordTrue == NoticeSpec => []LastWordIsTrue
<1>1. Inv => LastWordIsTrue
  BY DEF Inv
<1> QED BY <1>1, InvHolds, PTL

\* Whatever rows the handlers read first, the notices of a committed change go to the parties
\* of the committed row, and to no other user.
THEOREM PartiesTold == NoticeSpec => []PartiesAreTold
<1>1. Inv => PartiesAreTold
  BY DEF Inv
<1> QED BY <1>1, InvHolds, PTL
=============================================================================

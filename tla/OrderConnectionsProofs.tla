----------------------- MODULE OrderConnectionsProofs -----------------------
(***************************************************************************)
(* Proof that deadlocks are known, for any number of handlers, users and   *)
(* orders, of requests of any kinds, and for any size of the pool.         *)
(*                                                                         *)
(* The first half is about what the code writes down: Rest says what every *)
(* handler has in common, and what is left of it after some steps (a T2 is *)
(* a bracket, the row of a user or of an order is locked after the last    *)
(* T2, a row of another kind before everything else).  The second half is  *)
(* the inductive invariant Inv: what follows for the rows a handler holds. *)
(***************************************************************************)
EXTENDS OrderConnections, SumTheorems, SequenceTheorems

\* The rows deals are made of; the other two kinds are locked first of all.
DealRows == ({"user"} \X Users) \cup ({"order"} \X Orders)
FirstRows == ({"telegramId"} \X Users) \cup ({"dispute"} \X Orders)

Step == [do : {"open", "use", "close"}, tx : Transactions, rows : SUBSET Rows]

\* A step locks one row at most, and a T2 none but a user's.
StepOK(x) ==
  /\ x.rows # {} => x.do = "use"
  /\ \A r, q \in x.rows : r = q
  /\ x.tx = "T2" => x.rows \subseteq DealRows

LocksDeal(x)  == x.tx = "T1" /\ x.rows \cap DealRows # {}
LocksFirst(x) == x.rows \cap FirstRows # {}
OpensT1(x)    == x.do = "open" /\ x.tx = "T1"

\* What follows a step of a T2 that does not close it.
Bracket(x, y) == y.tx = "T2" /\ y.do # "open" /\ (x.do = "use" => y.do = "close")

\* Common to a handler, its parts and its rests.
Steps(s) ==
  /\ s \in Seq(Step)
  /\ \A i \in 1..Len(s) : StepOK(s[i])
  /\ \A i, j \in 1..Len(s) : i < j /\ LocksDeal(s[i]) => s[j].tx = "T1"
  /\ \A i \in 1..Len(s) : s[i].tx = "T2" /\ s[i].do # "close" =>
       i < Len(s) /\ Bracket(s[i], s[i + 1])

\* A part of a handler's body.
Piece(s) ==
  /\ Steps(s)
  /\ \A i \in 1..Len(s) : ~OpensT1(s[i]) /\ (LocksFirst(s[i]) => i = 1)

Soft(s)   == Piece(s) /\ \A i \in 1..Len(s) : ~LocksDeal(s[i])
Inner(s)  == Soft(s) /\ \A i \in 1..Len(s) : ~LocksFirst(s[i])
Ending(s) == Piece(s) /\ \A i \in 1..Len(s) : s[i].tx = "T1" /\ ~LocksFirst(s[i])

\* What a busy handler has left.
Rest(s) ==
  /\ Steps(s) /\ s # <<>> /\ s[Len(s)] = Close("T1")
  /\ \A i, k \in 1..Len(s) : k < i /\ LocksFirst(s[i]) => OpensT1(s[k])
  /\ \A i \in 1..Len(s) : i > 1 => ~OpensT1(s[i])

-----------------------------------------------------------------------------
(* What the code writes down.                                              *)

LEMMA StepTypes ==
  ASSUME NEW t \in Transactions, NEW r \in SUBSET Rows
  PROVE  /\ Open(t) \in Step /\ Use(t, r) \in Step /\ Close(t) \in Step
         /\ Open(t).do = "open" /\ Use(t, r).do = "use" /\ Close(t).do = "close"
         /\ Open(t).tx = t /\ Use(t, r).tx = t /\ Close(t).tx = t
         /\ Open(t).rows = {} /\ Use(t, r).rows = r /\ Close(t).rows = {}
  BY DEF Open, Use, Close, Step

LEMMA RowKinds ==
  /\ Rows = DealRows \cup FirstRows
  /\ DealRows \cap FirstRows = {}
  /\ \A u \in Users : <<"user", u>> \in DealRows /\ <<"telegramId", u>> \in FirstRows
  /\ \A o \in Orders : <<"order", o>> \in DealRows /\ <<"dispute", o>> \in FirstRows
  <1>1. Rows = DealRows \cup FirstRows
    BY DEF Rows, DealRows, FirstRows
  <1>2. DealRows \cap FirstRows = {}
    BY DEF DealRows, FirstRows
  <1> QED
    BY <1>1, <1>2 DEF DealRows, FirstRows

\* One step, of T1.
LEMMA OneStep ==
  ASSUME NEW x \in Step, StepOK(x), x.tx = "T1", ~OpensT1(x)
  PROVE  /\ Piece(<<x>>)
         /\ ~LocksDeal(x) => Soft(<<x>>)
         /\ ~LocksFirst(x) => Ending(<<x>>)
  <1>1. <<x>> \in Seq(Step) /\ Len(<<x>>) = 1 /\ <<x>>[1] = x
    OBVIOUS
  <1>2. Steps(<<x>>)
    BY <1>1 DEF Steps
  <1> QED
    BY <1>1, <1>2 DEF Piece, Soft, Ending

\* A T2 with one query or update.
LEMMA OneBracket ==
  ASSUME NEW r \in SUBSET DealRows, \A p, q \in r : p = q
  PROVE  Inner(<<Open("T2"), Use("T2", r), Close("T2")>>)
  <1> DEFINE a == Open("T2")
             b == Use("T2", r)
             c == Close("T2")
             s == <<a, b, c>>
  <1>1. /\ "T2" \in Transactions /\ r \in SUBSET Rows /\ r \cap FirstRows = {}
    BY RowKinds DEF Transactions
  <1>2. /\ a \in Step /\ b \in Step /\ c \in Step
        /\ a.do = "open" /\ b.do = "use" /\ c.do = "close"
        /\ a.tx = "T2" /\ b.tx = "T2" /\ c.tx = "T2"
        /\ a.rows = {} /\ b.rows = r /\ c.rows = {}
    BY <1>1, StepTypes
  <1>3. \A x \in {a, b, c} :
          StepOK(x) /\ ~LocksDeal(x) /\ ~LocksFirst(x) /\ ~OpensT1(x)
    BY <1>1, <1>2 DEF StepOK, LocksDeal, LocksFirst, OpensT1
  <1>4. Bracket(a, b) /\ Bracket(b, c)
    BY <1>2 DEF Bracket
  <1> HIDE DEF a, b, c
  <1>5. /\ s \in Seq(Step) /\ Len(s) = 3 /\ s[1] = a /\ s[2] = b /\ s[3] = c
        /\ \A i \in 1..3 : s[i] \in {a, b, c}
    BY <1>2
  <1> HIDE DEF s
  <1>6. \A i \in 1..Len(s) : s[i].tx = "T2" /\ s[i].do # "close" =>
          i < Len(s) /\ Bracket(s[i], s[i + 1])
    BY <1>2, <1>4, <1>5
  <1>7. Steps(s)
    BY <1>3, <1>5, <1>6 DEF Steps
  <1>8. Inner(s)
    BY <1>3, <1>5, <1>7 DEF Inner, Soft, Piece
  <1> QED
    BY <1>8 DEF s, a, b, c

\* Steps of a concatenation are steps of its parts.
LEMMA GluedSteps ==
  ASSUME NEW s \in Seq(Step), NEW t \in Seq(Step)
  PROVE  /\ s \o t \in Seq(Step) /\ Len(s \o t) = Len(s) + Len(t)
         /\ Len(s) \in Nat /\ Len(t) \in Nat
         /\ \A i \in 1..Len(s) : (s \o t)[i] = s[i]
         /\ \A i \in 1..Len(t) : (s \o t)[Len(s) + i] = t[i]
         /\ \A i \in 1..Len(s \o t) :
              i \in 1..Len(s) \/ (i > Len(s) /\ i - Len(s) \in 1..Len(t)
                                    /\ (s \o t)[i] = t[i - Len(s)])
  OBVIOUS

LEMMA Glue ==
  ASSUME NEW s, NEW t, Steps(s), Steps(t),
         \/ \A i \in 1..Len(s) : ~LocksDeal(s[i])
         \/ \A i \in 1..Len(t) : t[i].tx = "T1"
  PROVE  Steps(s \o t)
  <1> DEFINE n == Len(s)
             g == s \o t
  <1>1. s \in Seq(Step) /\ t \in Seq(Step)
    BY DEF Steps
  <1>2. /\ g \in Seq(Step) /\ Len(g) = n + Len(t) /\ n \in Nat /\ Len(t) \in Nat
        /\ \A i \in 1..n : g[i] = s[i]
        /\ \A i \in 1..Len(t) : g[n + i] = t[i]
        /\ \A i \in 1..Len(g) :
             i \in 1..n \/ (i > n /\ i - n \in 1..Len(t) /\ g[i] = t[i - n])
    BY <1>1, GluedSteps
  <1> HIDE DEF g
  <1>3. \A i \in 1..Len(g) : StepOK(g[i])
    BY <1>2 DEF Steps
  <1>4. ASSUME NEW i \in 1..Len(g), NEW j \in 1..Len(g), i < j, LocksDeal(g[i])
        PROVE  g[j].tx = "T1"
    <2>1. CASE j \in 1..n
      <3>1. i \in 1..n
        BY <1>2, <1>4, <2>1
      <3>2. g[i] = s[i] /\ g[j] = s[j]
        BY <1>2, <2>1, <3>1
      <3>3. LocksDeal(s[i])
        BY <1>4, <3>2
      <3>4. s[j].tx = "T1"
        BY <1>4, <2>1, <3>1, <3>3 DEF Steps
      <3> QED
        BY <3>2, <3>4
    <2>2. CASE i \in 1..n /\ j \notin 1..n
      BY <1>2, <1>4, <2>2
    <2>3. CASE i \notin 1..n
      <3>1. i - n \in 1..Len(t) /\ j - n \in 1..Len(t) /\ i - n < j - n
        BY <1>2, <1>4, <2>3
      <3>2. LocksDeal(t[i - n]) /\ g[j] = t[j - n]
        BY <1>2, <1>4, <2>3
      <3> QED
        BY <3>1, <3>2 DEF Steps
    <2> QED
      BY <2>1, <2>2, <2>3
  <1>5. ASSUME NEW i \in 1..Len(g), g[i].tx = "T2", g[i].do # "close"
        PROVE  i < Len(g) /\ Bracket(g[i], g[i + 1])
    <2>1. CASE i \in 1..n
      <3>1. i < n /\ Bracket(s[i], s[i + 1])
        BY <1>2, <1>5, <2>1 DEF Steps
      <3> QED
        BY <1>2, <2>1, <3>1
    <2>2. CASE i \notin 1..n
      <3>1. i - n \in 1..Len(t) /\ g[i] = t[i - n]
        BY <1>2, <2>2
      <3>2. i - n < Len(t) /\ Bracket(t[i - n], t[(i - n) + 1])
        BY <1>5, <3>1 DEF Steps
      <3>3. g[i + 1] = t[(i - n) + 1]
        BY <1>2, <3>1, <3>2
      <3> QED
        BY <1>2, <3>1, <3>2, <3>3
    <2> QED
      BY <2>1, <2>2
  <1>6. Steps(g)
    BY <1>2, <1>3, <1>4, <1>5 DEF Steps
  <1> QED
    BY <1>6 DEF g

\* The parts of a body follow each other in these ways.
LEMMA GlueInner ==
  ASSUME NEW s, NEW t, Soft(s), Inner(t)
  PROVE  Soft(s \o t) /\ (Inner(s) => Inner(s \o t))
  <1>1. Steps(s \o t)
    BY Glue DEF Soft, Inner, Piece
  <1>2. s \in Seq(Step) /\ t \in Seq(Step)
    BY DEF Soft, Inner, Piece, Steps
  <1> QED
    BY <1>1, <1>2, GluedSteps DEF Soft, Inner, Piece

LEMMA GlueEnding ==
  ASSUME NEW s, NEW t, Piece(s), Ending(t)
  PROVE  Piece(s \o t)
  <1>1. Steps(s \o t)
    BY Glue DEF Ending, Piece
  <1>2. s \in Seq(Step) /\ t \in Seq(Step)
    BY DEF Ending, Piece, Steps
  <1> QED
    BY <1>1, <1>2, GluedSteps DEF Ending, Piece

\* T1 locks a row deals are made of.
LEMMA DealLock ==
  ASSUME NEW r \in DealRows
  PROVE  Ending(<<Use("T1", {r})>>)
  <1> DEFINE x == Use("T1", {r})
  <1>1. "T1" \in Transactions /\ {r} \in SUBSET Rows /\ r \notin FirstRows
    BY RowKinds DEF Transactions
  <1>2. x \in Step /\ x.do = "use" /\ x.tx = "T1" /\ x.rows = {r}
    BY <1>1, StepTypes
  <1> HIDE DEF x
  <1>3. StepOK(x) /\ ~OpensT1(x) /\ ~LocksFirst(x)
    BY <1>1, <1>2 DEF StepOK, OpensT1, LocksFirst
  <1>4. Ending(<<x>>)
    BY <1>2, <1>3, OneStep
  <1> QED
    BY <1>4 DEF x

\* T1 locks a row of another kind.
LEMMA FirstLock ==
  ASSUME NEW r \in FirstRows
  PROVE  Soft(<<Use("T1", {r})>>)
  <1> DEFINE x == Use("T1", {r})
  <1>1. "T1" \in Transactions /\ {r} \in SUBSET Rows /\ r \notin DealRows
    BY RowKinds DEF Transactions
  <1>2. x \in Step /\ x.do = "use" /\ x.tx = "T1" /\ x.rows = {r}
    BY <1>1, StepTypes
  <1> HIDE DEF x
  <1>3. StepOK(x) /\ ~OpensT1(x) /\ ~LocksDeal(x)
    BY <1>1, <1>2 DEF StepOK, OpensT1, LocksDeal
  <1>4. Soft(<<x>>)
    BY <1>2, <1>3, OneStep
  <1> QED
    BY <1>4 DEF x

LEMMA InsertParts == Inner(Insert) /\ Ending(Insert)
  <1> DEFINE x == Use("T1", {})
  <1>1. x \in Step /\ x.do = "use" /\ x.tx = "T1" /\ x.rows = {}
    BY StepTypes DEF Transactions
  <1>2. Insert = <<x>>
    BY DEF Insert
  <1> HIDE DEF x
  <1>3. StepOK(x) /\ ~OpensT1(x) /\ ~LocksDeal(x) /\ ~LocksFirst(x)
    BY <1>1 DEF StepOK, OpensT1, LocksDeal, LocksFirst
  <1>4. Soft(<<x>>) /\ Ending(<<x>>)
    BY <1>1, <1>3, OneStep
  <1> QED
    BY <1>2, <1>3, <1>4 DEF Inner

LEMMA NoPart == Inner(<<>>)
  <1>1. <<>> \in Seq(Step) /\ Len(<<>>) = 0
    OBVIOUS
  <1> QED
    BY <1>1 DEF Inner, Soft, Piece, Steps

\* The parts of the bodies.
LEMMA Parts ==
  /\ Inner(Query)
  /\ \A u \in Users : /\ Inner(UserUpdate(u)) /\ Ending(Lock("user", u))
                      /\ Soft(Lock("telegramId", u))
  /\ \A o \in Orders : Ending(Lock("order", o)) /\ Soft(Lock("dispute", o))
  <1>1. Inner(Query)
    BY OneBracket DEF Query
  <1>2. ASSUME NEW u \in Users PROVE Inner(UserUpdate(u))
    <2>1. {<<"user", u>>} \in SUBSET DealRows
      BY RowKinds
    <2> QED
      BY <2>1, OneBracket DEF UserUpdate
  <1> QED
    BY <1>1, <1>2, DealLock, FirstLock, RowKinds DEF Lock

\* Every body is made of such parts, in such an order.
LEMMA Bodies ==
  ASSUME NEW kind \in Ops, NEW o \in Orders, NEW u \in Users
  PROVE  Piece(Body(kind, o, u))
  <1> USE ConnectionsAssumption, Parts, InsertParts
  <1>1. Seller[o] \in Users /\ Buyer[o] \in Users
    OBVIOUS
  <1>2. \A s : (Inner(s) => Soft(s)) /\ (Soft(s) => Piece(s)) /\ (Ending(s) => Piece(s))
    BY DEF Inner, Soft, Ending
  <1>3. ASSUME NEW type PROVE Piece(createOrder(u, type))
    <2> DEFINE sell == IF type = "SELL" THEN UserUpdate(u) \o Insert ELSE <<>>
    <2>1. Inner(UserUpdate(u) \o Insert)
      BY <1>2, GlueInner
    <2>2. Inner(sell)
      BY <2>1, NoPart
    <2>3. createOrder(u, type) = ((Query \o Insert) \o sell) \o UserUpdate(u)
      BY DEF createOrder
    <2> HIDE DEF sell
    <2>4. Soft(Query \o Insert)
      BY <1>2, GlueInner
    <2>5. Soft((Query \o Insert) \o sell)
      BY <2>2, <2>4, GlueInner
    <2>6. Soft(((Query \o Insert) \o sell) \o UserUpdate(u))
      BY <2>5, GlueInner
    <2> QED
      BY <1>2, <2>3, <2>6
  <1>4. Soft(Lock("telegramId", u) \o Query)
    BY GlueInner
  <1>5. Piece(createOrderNew(u))
    <2>1. Soft((Lock("telegramId", u) \o Query) \o Insert)
      BY <1>4, GlueInner
    <2>2. Soft(((Lock("telegramId", u) \o Query) \o Insert) \o Query)
      BY <2>1, GlueInner
    <2> QED
      BY <1>2, <2>2 DEF createOrderNew
  <1>6. Piece(createDemoTrade(u))
    BY <1>2, <1>4 DEF createDemoTrade
  <1>7. Piece(acceptOrder(o, u)) /\ Piece(cancelOrder(o, u))
    BY <1>2, GlueEnding DEF acceptOrder, cancelOrder
  <1>8. Piece(confirmPayment(o)) /\ Piece(hideOrder(o)) /\ Piece(createDispute(o))
    BY <1>2, GlueEnding DEF confirmPayment, hideOrder, createDispute
  <1>9. Piece(confirmReceipt(o))
    <2>1. Piece(UserUpdate(Seller[o]) \o Lock("user", Buyer[o]))
      BY <1>1, <1>2, GlueEnding
    <2>2. Piece((UserUpdate(Seller[o]) \o Lock("user", Buyer[o])) \o Lock("order", o))
      BY <2>1, GlueEnding
    <2>3. Piece(((UserUpdate(Seller[o]) \o Lock("user", Buyer[o])) \o Lock("order", o))
                  \o Lock("user", Seller[o]))
      BY <1>1, <2>2, GlueEnding
    <2> QED
      BY <2>3 DEF confirmReceipt
  <1>10. Piece(resolveDispute(o, u))
    <2>1. Soft(Lock("dispute", o) \o UserUpdate(u))
      BY GlueInner
    <2> QED
      BY <1>2, <2>1, GlueEnding DEF resolveDispute
  <1> QED
    BY <1>3, <1>5, <1>6, <1>7, <1>8, <1>9, <1>10 DEF Body, Ops

\* A handler opens T1, runs its body and closes T1.
LEMMA Handlers ==
  ASSUME NEW kind \in Ops, NEW o \in Orders, NEW u \in Users
  PROVE  Rest(Handler(kind, o, u)) /\ OpensT1(Head(Handler(kind, o, u)))
  <1> DEFINE b == Body(kind, o, u)
             x == Open("T1")
             y == Close("T1")
             s == <<x>> \o b
             t == s \o <<y>>
  <1>1. /\ x \in Step /\ x.do = "open" /\ x.tx = "T1" /\ x.rows = {}
        /\ y \in Step /\ y.do = "close" /\ y.tx = "T1" /\ y.rows = {}
    BY StepTypes DEF Transactions
  <1>2. Piece(b)
    BY Bodies
  <1>3. Handler(kind, o, u) = t /\ y = Close("T1")
    BY DEF Handler
  <1> HIDE DEF b, x, y
  <1>4. /\ StepOK(x) /\ OpensT1(x) /\ ~LocksDeal(x) /\ ~LocksFirst(x)
        /\ StepOK(y) /\ ~OpensT1(y) /\ ~LocksDeal(y) /\ ~LocksFirst(y)
    BY <1>1 DEF StepOK, OpensT1, LocksDeal, LocksFirst
  <1>5. /\ <<x>> \in Seq(Step) /\ Len(<<x>>) = 1 /\ <<x>>[1] = x
        /\ <<y>> \in Seq(Step) /\ Len(<<y>>) = 1 /\ <<y>>[1] = y
    BY <1>1
  <1>6. Steps(<<x>>) /\ Steps(<<y>>) /\ Steps(b)
    BY <1>1, <1>2, <1>4, <1>5 DEF Steps, Piece
  <1>7. Steps(s)
    BY <1>4, <1>5, <1>6, Glue
  <1>8. Steps(t)
    BY <1>1, <1>5, <1>6, <1>7, Glue
  <1>9. /\ Len(s) = 1 + Len(b) /\ Len(b) \in Nat /\ s[1] = x
        /\ \A i \in 1..Len(s) : i > 1 => i - 1 \in 1..Len(b) /\ s[i] = b[i - 1]
    BY <1>5, <1>6, GluedSteps DEF Steps
  <1> HIDE DEF s
  <1>10. /\ Len(t) = Len(s) + 1 /\ t[Len(t)] = y
         /\ \A i \in 1..Len(t) : (i \in 1..Len(s) /\ t[i] = s[i]) \/ (i = Len(t) /\ t[i] = y)
    <2>1. /\ Len(t) = Len(s) + 1 /\ Len(s) \in Nat /\ t[Len(s) + 1] = y
          /\ \A i \in 1..Len(s) : t[i] = s[i]
      BY <1>5, <1>7, GluedSteps DEF Steps
    <2> HIDE DEF t
    <2> QED
      BY <2>1
  <1> HIDE DEF t
  <1>11. t[1] = x
    BY <1>9, <1>10
  <1>12. ASSUME NEW i \in 1..Len(t), i > 1 PROVE ~OpensT1(t[i])
    BY <1>2, <1>4, <1>9, <1>10, <1>12 DEF Piece
  <1>13. ASSUME NEW i \in 1..Len(t), NEW k \in 1..Len(t), k < i, LocksFirst(t[i])
         PROVE  OpensT1(t[k])
    <2>1. i \in 1..Len(s) /\ t[i] = s[i] /\ i > 1
      BY <1>4, <1>10, <1>13
    <2>2. i - 1 \in 1..Len(b) /\ LocksFirst(b[i - 1])
      BY <1>9, <1>13, <2>1
    <2>3. i - 1 = 1
      BY <1>2, <2>2 DEF Piece
    <2>4. k = 1
      BY <1>13, <2>3
    <2> QED
      BY <1>4, <1>11, <2>4
  <1>14. t # <<>> /\ Head(t) = t[1]
    BY <1>8, <1>9, <1>10 DEF Steps
  <1> QED
    BY <1>3, <1>4, <1>8, <1>10, <1>11, <1>12, <1>13, <1>14 DEF Rest

\* What is left after a step.
LEMMA RestTail ==
  ASSUME NEW s, Rest(s)
  PROVE  /\ s \in Seq(Step) /\ Head(s) = s[1] /\ Head(s) \in Step /\ StepOK(Head(s))
         /\ 1 \in 1..Len(s) /\ Len(s) \in Nat
         /\ Tail(s) \in Seq(Step) /\ Len(Tail(s)) = Len(s) - 1
         /\ \A i \in 1..Len(Tail(s)) : i + 1 \in 1..Len(s) /\ Tail(s)[i] = s[i + 1]
         /\ Tail(s) = <<>> => Head(s) = Close("T1")
         /\ Tail(s) # <<>> => Rest(Tail(s)) /\ ~OpensT1(Head(Tail(s)))
         /\ LocksDeal(Head(s)) => \A i \in 1..Len(Tail(s)) : Tail(s)[i].tx = "T1"
         /\ ~OpensT1(Head(s)) => \A i \in 1..Len(Tail(s)) : ~LocksFirst(Tail(s)[i])
         /\ (Head(s).tx = "T2" /\ Head(s).do # "close") =>
              Tail(s) # <<>> /\ Bracket(Head(s), Head(Tail(s)))
  <1> DEFINE t == Tail(s)
             n == Len(s)
  <1>1. s \in Seq(Step) /\ s # <<>> /\ n \in Nat /\ n > 0
    BY DEF Rest, Steps
  <1>2. /\ Head(s) = s[1] /\ Head(s) \in Step /\ t \in Seq(Step) /\ Len(t) = n - 1
        /\ \A i \in 1..Len(t) : i + 1 \in 1..n /\ t[i] = s[i + 1]
    BY <1>1
  <1>3. t # <<>> => Head(t) = s[2] /\ n > 1
    BY <1>1, <1>2
  <1>4. t = <<>> => Head(s) = Close("T1")
    BY <1>1, <1>2 DEF Rest
  <1> HIDE DEF t
  <1>5. StepOK(Head(s)) /\ 1 \in 1..n
    BY <1>1, <1>2 DEF Rest, Steps
  <1>6. ASSUME t # <<>> PROVE Rest(t) /\ ~OpensT1(Head(t))
    <2>1. Steps(t)
      <3>1. \A i \in 1..Len(t) : StepOK(t[i])
        BY <1>2 DEF Rest, Steps
      <3>2. \A i, j \in 1..Len(t) : i < j /\ LocksDeal(t[i]) => t[j].tx = "T1"
        BY <1>1, <1>2 DEF Rest, Steps
      <3>3. ASSUME NEW i \in 1..Len(t), t[i].tx = "T2", t[i].do # "close"
            PROVE  i < Len(t) /\ Bracket(t[i], t[i + 1])
        <4>1. i + 1 < n /\ Bracket(s[i + 1], s[(i + 1) + 1])
          BY <1>1, <1>2, <3>3 DEF Rest, Steps
        <4> QED
          BY <1>1, <1>2, <4>1
      <3> QED
        BY <1>2, <3>1, <3>2, <3>3 DEF Steps
    <2>2. t[Len(t)] = Close("T1")
      BY <1>1, <1>2, <1>3, <1>6 DEF Rest
    <2>3. \A i, k \in 1..Len(t) : k < i /\ LocksFirst(t[i]) => OpensT1(t[k])
      BY <1>1, <1>2 DEF Rest
    <2>4. \A i \in 1..Len(t) : ~OpensT1(t[i])
      BY <1>1, <1>2 DEF Rest
    <2>5. Head(t) = t[1] /\ 1 \in 1..Len(t)
      BY <1>1, <1>2, <1>3, <1>6
    <2> QED
      BY <1>6, <2>1, <2>2, <2>3, <2>4, <2>5 DEF Rest
  <1>7. LocksDeal(Head(s)) => \A i \in 1..Len(t) : t[i].tx = "T1"
    BY <1>1, <1>2, <1>5 DEF Rest, Steps
  <1>8. ~OpensT1(Head(s)) => \A i \in 1..Len(t) : ~LocksFirst(t[i])
    BY <1>1, <1>2, <1>5 DEF Rest
  <1>9. (Head(s).tx = "T2" /\ Head(s).do # "close") =>
          t # <<>> /\ Bracket(Head(s), Head(t))
    BY <1>1, <1>2, <1>3, <1>5 DEF Rest, Steps
  <1> QED
    BY <1>1, <1>2, <1>4, <1>5, <1>6, <1>7, <1>8, <1>9 DEF t

-----------------------------------------------------------------------------
(* The invariant.                                                          *)

NoRows(h) == \A t \in Transactions : h[t] = {}

\* What a handler has left tells what it can have open, op, and hold, h.
Fits(s, op, h) ==
  /\ s # <<>> => Rest(s)
  /\ (s = <<>> \/ OpensT1(Head(s))) => op = {} /\ NoRows(h)
  /\ (\E i \in 1..Len(s) : LocksFirst(s[i])) => NoRows(h)
  /\ h["T1"] \cap DealRows # {} => \A i \in 1..Len(s) : s[i].tx = "T1"
  /\ "T2" \in op => s # <<>> /\ Head(s).tx = "T2" /\ Head(s).do # "open"
  /\ h["T2"] # {} => s # <<>> /\ Head(s).tx = "T2" /\ Head(s).do = "close"
  /\ h["T2"] \subseteq DealRows

TypeOK ==
  /\ pool \in Nat
  /\ todo \in [Workers -> Seq(Step)]
  /\ open \in [Workers -> SUBSET Transactions]
  /\ held \in [Workers -> [Transactions -> SUBSET Rows]]

OneHolder ==
  \A v, w \in Workers : \A t, x \in Transactions :
    held[v][t] \cap held[w][x] # {} => v = w /\ t = x

Inv ==
  /\ TypeOK /\ OneHolder /\ InUse <= pool
  /\ \A w \in Workers : Fits(todo[w], open[w], held[w])

-----------------------------------------------------------------------------
(* The next step of a handler, alone.                                      *)

LEMMA OpenFits ==
  ASSUME NEW s, s # <<>>, NEW op \in SUBSET Transactions,
         NEW h \in [Transactions -> SUBSET Rows],
         Fits(s, op, h), Head(s).do = "open"
  PROVE  Fits(Tail(s), op \cup {Head(s).tx}, h)
  <1> DEFINE t == Tail(s)
             x == Head(s)
  <1>1. Rest(s)
    BY DEF Fits
  <1>2. /\ x = s[1] /\ x \in Step /\ 1 \in 1..Len(s)
        /\ \A i \in 1..Len(t) : i + 1 \in 1..Len(s) /\ t[i] = s[i + 1]
        /\ t = <<>> => x = Close("T1")
        /\ t # <<>> => Rest(t) /\ ~OpensT1(Head(t))
        /\ (x.tx = "T2" /\ x.do # "close") => t # <<>> /\ Bracket(x, Head(t))
    BY <1>1, RestTail
  <1>3. t # <<>>
    BY <1>2, StepTypes DEF Transactions
  <1>4. x.tx \in {"T1", "T2"} /\ (x.tx = "T1" => OpensT1(x))
    BY <1>2 DEF Step, Transactions, OpensT1
  <1>5. (\E i \in 1..Len(t) : LocksFirst(t[i])) => NoRows(h)
    BY <1>2 DEF Fits
  <1>6. h["T1"] \cap DealRows # {} => \A i \in 1..Len(t) : t[i].tx = "T1"
    BY <1>2 DEF Fits
  <1>7. h["T2"] = {}
    BY DEF Fits
  <1>8. "T2" \in op \cup {x.tx} => Head(t).tx = "T2" /\ Head(t).do # "open"
    BY <1>2, <1>4 DEF Fits, Bracket
  <1> HIDE DEF t, x
  <1>9. Fits(t, op \cup {x.tx}, h)
    BY <1>2, <1>3, <1>5, <1>6, <1>7, <1>8 DEF Fits
  <1> QED
    BY <1>9 DEF t, x

LEMMA UseFits ==
  ASSUME NEW s, s # <<>>, NEW op \in SUBSET Transactions,
         NEW h \in [Transactions -> SUBSET Rows],
         Fits(s, op, h), Head(s).do = "use"
  PROVE  Fits(Tail(s), op, [h EXCEPT ![Head(s).tx] = @ \cup Head(s).rows])
  <1> DEFINE t == Tail(s)
             x == Head(s)
             k == [h EXCEPT ![x.tx] = @ \cup x.rows]
  <1>1. Rest(s)
    BY DEF Fits
  <1>2. /\ x = s[1] /\ x \in Step /\ StepOK(x) /\ 1 \in 1..Len(s)
        /\ \A i \in 1..Len(t) : i + 1 \in 1..Len(s) /\ t[i] = s[i + 1]
        /\ t = <<>> => x = Close("T1")
        /\ t # <<>> => Rest(t) /\ ~OpensT1(Head(t))
        /\ LocksDeal(x) => \A i \in 1..Len(t) : t[i].tx = "T1"
        /\ ~OpensT1(x) => \A i \in 1..Len(t) : ~LocksFirst(t[i])
        /\ (x.tx = "T2" /\ x.do # "close") => t # <<>> /\ Bracket(x, Head(t))
    BY <1>1, RestTail
  <1>3. t # <<>> /\ ~OpensT1(x)
    BY <1>2, StepTypes DEF Transactions, OpensT1
  <1>4. /\ x.tx \in Transactions /\ x.tx \in {"T1", "T2"}
        /\ "T1" \in Transactions /\ "T2" \in Transactions
    BY <1>2 DEF Step, Transactions
  <1>5. CASE x.tx = "T1"
    <2>1. /\ k["T1"] = h["T1"] \cup x.rows /\ k["T2"] = h["T2"]
          /\ x.rows \cap DealRows # {} => LocksDeal(x)
      BY <1>4, <1>5 DEF LocksDeal
    <2>2. k["T2"] = {} /\ "T2" \notin op
      BY <1>5, <2>1 DEF Fits
    <2>3. k["T1"] \cap DealRows # {} => \A i \in 1..Len(t) : t[i].tx = "T1"
      BY <1>2, <2>1 DEF Fits
    <2> HIDE DEF t, x, k
    <2> QED
      BY <1>2, <1>3, <2>2, <2>3 DEF Fits, t, x, k
  <1>6. CASE x.tx = "T2"
    <2>1. k["T2"] = h["T2"] \cup x.rows /\ k["T1"] = h["T1"]
      BY <1>4, <1>6
    <2>2. k["T2"] \subseteq DealRows
      BY <1>2, <1>6, <2>1 DEF Fits, StepOK
    <2>3. Head(t).tx = "T2" /\ Head(t).do = "close"
      BY <1>2, <1>6 DEF Bracket
    <2>4. k["T1"] \cap DealRows # {} => \A i \in 1..Len(t) : t[i].tx = "T1"
      BY <1>2, <2>1 DEF Fits
    <2> HIDE DEF t, x, k
    <2> QED
      BY <1>2, <1>3, <2>2, <2>3, <2>4 DEF Fits, t, x, k
  <1> QED
    BY <1>4, <1>5, <1>6

LEMMA CloseFits ==
  ASSUME NEW s, s # <<>>, NEW op \in SUBSET Transactions,
         NEW h \in [Transactions -> SUBSET Rows],
         Fits(s, op, h), Head(s).do = "close"
  PROVE  Fits(Tail(s), op \ {Head(s).tx}, [h EXCEPT ![Head(s).tx] = {}])
  <1> DEFINE t == Tail(s)
             x == Head(s)
             p == op \ {x.tx}
             k == [h EXCEPT ![x.tx] = {}]
  <1>1. Rest(s)
    BY DEF Fits
  <1>2. /\ x = s[1] /\ x \in Step /\ 1 \in 1..Len(s)
        /\ \A i \in 1..Len(t) : i + 1 \in 1..Len(s) /\ t[i] = s[i + 1]
        /\ t = <<>> => x = Close("T1")
        /\ t # <<>> => Rest(t) /\ ~OpensT1(Head(t))
        /\ ~OpensT1(x) => \A i \in 1..Len(t) : ~LocksFirst(t[i])
    BY <1>1, RestTail
  <1>3. ~OpensT1(x)
    BY DEF OpensT1
  <1>4. /\ x.tx \in {"T1", "T2"} /\ Transactions = {"T1", "T2"}
        /\ \A y \in Transactions : k[y] = IF y = x.tx THEN {} ELSE h[y]
    BY <1>2 DEF Step, Transactions
  <1>5. k["T2"] = {} /\ "T2" \notin p
    BY <1>4 DEF Fits
  <1>6. t = <<>> => p = {} /\ NoRows(k)
    <2> SUFFICES ASSUME t = <<>> PROVE p = {} /\ NoRows(k)
      OBVIOUS
    <2>1. x.tx = "T1"
      BY <1>2, StepTypes DEF Transactions
    <2> QED
      BY <1>4, <1>5, <2>1 DEF NoRows
  <1>7. k["T1"] \cap DealRows # {} => \A i \in 1..Len(t) : t[i].tx = "T1"
    BY <1>2, <1>4 DEF Fits
  <1> HIDE DEF t, x, k, p
  <1>8. Fits(t, p, k)
    BY <1>2, <1>3, <1>5, <1>6, <1>7 DEF Fits
  <1> QED
    BY <1>8 DEF t, x, k, p

\* T1 is gone, and with it its rows.
LEMMA ExpireFits ==
  ASSUME NEW s, s # <<>>, NEW op \in SUBSET Transactions,
         NEW h \in [Transactions -> SUBSET Rows], Fits(s, op, h)
  PROVE  Fits(s, op \ {"T1"}, [h EXCEPT !["T1"] = {}])
  <1> DEFINE k == [h EXCEPT !["T1"] = {}]
  <1>1. k["T1"] = {} /\ k["T2"] = h["T2"] /\ Transactions = {"T1", "T2"}
    BY DEF Transactions
  <1>2. NoRows(h) => NoRows(k)
    BY <1>1 DEF NoRows
  <1> HIDE DEF k
  <1> QED
    BY <1>1, <1>2 DEF Fits, k

\* A handler that has nothing open and holds nothing.
LEMMA FreshFits ==
  ASSUME NEW s, s = <<>> \/ (Rest(s) /\ OpensT1(Head(s))),
         NEW h, NoRows(h)
  PROVE  Fits(s, {}, h)
  BY DEF Fits, NoRows, Transactions

-----------------------------------------------------------------------------
(* The steps of the system.                                                *)

Connections == {c \in Workers \X Transactions : c[2] \in open[c[1]]}

LEMMA ConnectionsFinite == IsFiniteSet(Connections) /\ InUse = Cardinality(Connections)
  <1>1. IsFiniteSet(Transactions)
    <2>1. IsFiniteSet({"T1"}) /\ Transactions = {"T1"} \cup {"T2"}
      BY FS_Singleton DEF Transactions
    <2> QED
      BY <2>1, FS_AddElement
  <1>2. IsFiniteSet(Workers \X Transactions)
    BY <1>1, ConnectionsAssumption, FS_Product
  <1> QED
    BY <1>2, FS_Subset DEF Connections, InUse

\* Nothing more is open, and nothing more is held.
LEMMA LessKeeps ==
  ASSUME Inv, TypeOK', UNCHANGED pool,
         \A v \in Workers : open'[v] \subseteq open[v],
         \A v \in Workers : \A t \in Transactions : held'[v][t] \subseteq held[v][t],
         \A v \in Workers : Fits(todo'[v], open'[v], held'[v])
  PROVE  Inv'
  <1>1. Connections' \subseteq Connections
    BY DEF Connections
  <1>2. InUse' <= InUse /\ InUse \in Nat /\ InUse' \in Nat
    <2>1. InUse' = Cardinality(Connections')
      BY DEF InUse, Connections
    <2> QED
      BY <1>1, <2>1, ConnectionsFinite, FS_Subset, FS_CardinalityType
  <1>3. InUse' <= pool'
    BY <1>2 DEF Inv, TypeOK
  <1>4. OneHolder'
    <2> SUFFICES ASSUME NEW v \in Workers, NEW w \in Workers,
                        NEW t \in Transactions, NEW x \in Transactions,
                        held'[v][t] \cap held'[w][x] # {}
                 PROVE  v = w /\ t = x
      BY DEF OneHolder
    <2>1. held[v][t] \cap held[w][x] # {}
      OBVIOUS
    <2> QED
      BY <2>1 DEF Inv, OneHolder
  <1> QED
    BY <1>3, <1>4 DEF Inv

\* A handler ends, or a transaction does.
LEMMA EndKeeps ==
  ASSUME Inv, NEW w \in Workers, End(w)
  PROVE  Inv'
  <1> DEFINE none == [t \in Transactions |-> {}]
  <1>1. /\ todo' = [todo EXCEPT ![w] = <<>>] /\ open' = [open EXCEPT ![w] = {}]
        /\ held' = [held EXCEPT ![w] = none] /\ UNCHANGED pool
    BY DEF End
  <1>2. none \in [Transactions -> SUBSET Rows] /\ NoRows(none)
    BY DEF NoRows
  <1> HIDE DEF none
  <1>3. TypeOK'
    BY <1>1, <1>2 DEF Inv, TypeOK
  <1>4. \A v \in Workers : /\ v # w => todo'[v] = todo[v] /\ open'[v] = open[v] /\ held'[v] = held[v]
                           /\ v = w => todo'[v] = <<>> /\ open'[v] = {} /\ held'[v] = none
    BY <1>1 DEF Inv, TypeOK
  <1>5. Fits(<<>>, {}, none)
    BY <1>2, FreshFits
  <1>6. \A v \in Workers : Fits(todo'[v], open'[v], held'[v])
    BY <1>4, <1>5 DEF Inv
  <1>7. \A v \in Workers : open'[v] \subseteq open[v]
    BY <1>4
  <1>8. \A v \in Workers : \A t \in Transactions : held'[v][t] \subseteq held[v][t]
    BY <1>2, <1>4 DEF NoRows
  <1> QED
    BY <1>1, <1>3, <1>6, <1>7, <1>8, LessKeeps

LEMMA DropKeeps ==
  ASSUME Inv, NEW w \in Workers, NEW t \in Transactions, Drop(w, t),
         NEW s \in Seq(Step), todo' = [todo EXCEPT ![w] = s],
         Fits(s, open[w] \ {t}, [held[w] EXCEPT ![t] = {}])
  PROVE  Inv'
  <1> DEFINE h == [held[w] EXCEPT ![t] = {}]
             op == open[w] \ {t}
  <1>1. /\ todo \in [Workers -> Seq(Step)] /\ open \in [Workers -> SUBSET Transactions]
        /\ held \in [Workers -> [Transactions -> SUBSET Rows]]
    BY DEF Inv, TypeOK
  <1>2. open' = [open EXCEPT ![w] = op] /\ held' = [held EXCEPT ![w] = h] /\ UNCHANGED pool
    BY <1>1 DEF Drop
  <1>3. /\ h \in [Transactions -> SUBSET Rows] /\ op \in SUBSET Transactions
        /\ op \subseteq open[w] /\ \A x \in Transactions : h[x] \subseteq held[w][x]
    BY <1>1
  <1>4. Fits(s, op, h)
    OBVIOUS
  <1> HIDE DEF h, op
  <1>5. TypeOK'
    BY <1>1, <1>2, <1>3 DEF Inv, TypeOK
  <1>6. \A v \in Workers : /\ v # w => todo'[v] = todo[v] /\ open'[v] = open[v] /\ held'[v] = held[v]
                           /\ v = w => todo'[v] = s /\ open'[v] = op /\ held'[v] = h
    BY <1>1, <1>2
  <1>7. \A v \in Workers : Fits(todo'[v], open'[v], held'[v])
    BY <1>4, <1>6 DEF Inv
  <1>8. \A v \in Workers : open'[v] \subseteq open[v]
    BY <1>3, <1>6
  <1>9. \A v \in Workers : \A x \in Transactions : held'[v][x] \subseteq held[v][x]
    BY <1>3, <1>6
  <1> QED
    BY <1>2, <1>5, <1>7, <1>8, <1>9, LessKeeps

LEMMA BeginKeeps ==
  ASSUME Inv, NEW w \in Workers, NEW kind \in Requests, NEW o \in Orders, NEW u \in Users,
         Begin(w, kind, o, u)
  PROVE  Inv'
  <1> DEFINE s == Handler(kind, o, u)
  <1>1. Rest(s) /\ OpensT1(Head(s)) /\ s \in Seq(Step)
    BY ConnectionsAssumption, Handlers DEF Rest, Steps
  <1>2. todo[w] = <<>> /\ todo' = [todo EXCEPT ![w] = s] /\ UNCHANGED <<pool, open, held>>
    BY DEF Begin, Busy
  <1> HIDE DEF s
  <1>3. TypeOK'
    BY <1>1, <1>2 DEF Inv, TypeOK
  <1>4. open[w] = {} /\ NoRows(held[w])
    BY <1>2 DEF Inv, Fits
  <1>5. Fits(s, {}, held[w])
    BY <1>1, <1>4, FreshFits
  <1>6. \A v \in Workers : todo'[v] = IF v = w THEN s ELSE todo[v]
    BY <1>2 DEF Inv, TypeOK
  <1>7. \A v \in Workers : Fits(todo'[v], open'[v], held'[v])
    BY <1>2, <1>4, <1>5, <1>6 DEF Inv
  <1> QED
    BY <1>2, <1>3, <1>7, LessKeeps

\* A connection is taken.
LEMMA OpenKeeps ==
  ASSUME Inv, NEW w \in Workers, todo[w] # <<>>, Head(todo[w]).do = "open", InUse < pool,
         todo' = [todo EXCEPT ![w] = Tail(@)],
         open' = [open EXCEPT ![w] = @ \cup {Head(todo[w]).tx}], UNCHANGED <<pool, held>>
  PROVE  Inv'
  <1> DEFINE t == Tail(todo[w])
             x == Head(todo[w]).tx
             op == open[w] \cup {x}
  <1>1. /\ todo \in [Workers -> Seq(Step)] /\ open \in [Workers -> SUBSET Transactions]
        /\ held \in [Workers -> [Transactions -> SUBSET Rows]] /\ pool \in Nat
    BY DEF Inv, TypeOK
  <1>2. Fits(todo[w], open[w], held[w])
    BY DEF Inv
  <1>3. Fits(t, op, held[w])
    BY <1>1, <1>2, OpenFits
  <1>4. t \in Seq(Step) /\ x \in Transactions
    <2>1. Rest(todo[w])
      BY <1>2 DEF Fits
    <2>2. t \in Seq(Step) /\ Head(todo[w]) \in Step
      BY <2>1, RestTail
    <2> QED
      BY <2>2 DEF Step
  <1>5. todo' = [todo EXCEPT ![w] = t] /\ open' = [open EXCEPT ![w] = op]
    BY <1>1
  <1>6. Connections' = Connections \cup {<<w, x>>}
    BY <1>1, <1>4, <1>5 DEF Connections
  <1>7. InUse' <= pool'
    <2>1. InUse' = Cardinality(Connections')
      BY DEF InUse, Connections
    <2>2. Cardinality(Connections) \in Nat
      BY ConnectionsFinite, FS_CardinalityType
    <2>3. \/ Cardinality(Connections') = Cardinality(Connections)
          \/ Cardinality(Connections') = Cardinality(Connections) + 1
      BY <1>6, ConnectionsFinite, FS_AddElement
    <2> QED
      BY <1>1, <2>1, <2>2, <2>3, ConnectionsFinite
  <1> HIDE DEF t, x, op
  <1>8. TypeOK'
    BY <1>1, <1>4, <1>5 DEF TypeOK, op
  <1>9. OneHolder'
    BY DEF Inv, OneHolder
  <1>10. \A v \in Workers : Fits(todo'[v], open'[v], held'[v])
    BY <1>1, <1>3, <1>5 DEF Inv
  <1> QED
    BY <1>7, <1>8, <1>9, <1>10 DEF Inv

\* A row is locked that nobody else holds.
LEMMA UseKeeps ==
  ASSUME Inv, NEW w \in Workers, todo[w] # <<>>, Head(todo[w]).do = "use", Blockers(w) = {},
         todo' = [todo EXCEPT ![w] = Tail(@)],
         held' = [held EXCEPT ![w][Head(todo[w]).tx] = @ \cup Head(todo[w]).rows],
         UNCHANGED <<pool, open>>
  PROVE  Inv'
  <1> DEFINE t == Tail(todo[w])
             x == Head(todo[w])
             h == [held[w] EXCEPT ![x.tx] = @ \cup x.rows]
  <1>1. /\ todo \in [Workers -> Seq(Step)] /\ open \in [Workers -> SUBSET Transactions]
        /\ held \in [Workers -> [Transactions -> SUBSET Rows]] /\ pool \in Nat
    BY DEF Inv, TypeOK
  <1>2. Fits(todo[w], open[w], held[w])
    BY DEF Inv
  <1>3. Fits(t, open[w], h)
    BY <1>1, <1>2, UseFits
  <1>4. t \in Seq(Step) /\ x.tx \in Transactions /\ x.rows \in SUBSET Rows
    <2>1. Rest(todo[w])
      BY <1>2 DEF Fits
    <2>2. t \in Seq(Step) /\ x \in Step
      BY <2>1, RestTail
    <2> QED
      BY <2>2 DEF Step
  <1>5. todo' = [todo EXCEPT ![w] = t] /\ held' = [held EXCEPT ![w] = h]
    BY <1>1
  <1>6. /\ h \in [Transactions -> SUBSET Rows] /\ h[x.tx] = held[w][x.tx] \cup x.rows
        /\ \A y \in Transactions : y # x.tx => h[y] = held[w][y]
    BY <1>1, <1>4
  <1>7. \A v \in Workers, y \in Transactions :
          <<v, y>> # <<w, x.tx>> => held[v][y] \cap x.rows = {}
    BY DEF Blockers
  <1> HIDE DEF t, x, h
  <1>8. TypeOK'
    <2>1. todo' \in [Workers -> Seq(Step)]
      BY <1>1, <1>4, <1>5
    <2>2. held' \in [Workers -> [Transactions -> SUBSET Rows]]
      BY <1>1, <1>5, <1>6
    <2> QED
      BY <1>1, <2>1, <2>2 DEF TypeOK
  <1>9. \A v \in Workers : held'[v] = IF v = w THEN h ELSE held[v]
    BY <1>1, <1>5
  <1>10. OneHolder'
    <2> SUFFICES ASSUME NEW a \in Workers, NEW b \in Workers,
                        NEW y \in Transactions, NEW z \in Transactions,
                        NEW r \in held'[a][y], r \in held'[b][z]
                 PROVE  a = b /\ y = z
      BY DEF OneHolder
    <2>1. ASSUME NEW v \in Workers, NEW n \in Transactions, r \in held'[v][n]
          PROVE  r \in held[v][n] \/ (v = w /\ n = x.tx /\ r \in x.rows)
      BY <1>6, <1>9, <2>1
    <2>2. CASE r \in x.rows
      <3>1. \A v \in Workers, n \in Transactions : r \in held'[v][n] => v = w /\ n = x.tx
        BY <1>7, <2>1, <2>2
      <3> QED
        BY <3>1
    <2>3. CASE r \notin x.rows
      BY <2>1, <2>3 DEF Inv, OneHolder
    <2> QED
      BY <2>2, <2>3
  <1>11. \A v \in Workers : Fits(todo'[v], open'[v], held'[v])
    BY <1>1, <1>3, <1>5, <1>9 DEF Inv
  <1>12. (InUse <= pool)'
    BY DEF Inv, InUse
  <1> QED
    BY <1>8, <1>10, <1>11, <1>12 DEF Inv

LEMMA AdvanceKeeps ==
  ASSUME Inv, NEW w \in Workers, Advance(w)
  PROVE  Inv'
  <1> DEFINE x == Head(todo[w])
  <1>1. todo[w] # <<>> /\ CanStep(w) /\ ~Lost(w) /\ todo' = [todo EXCEPT ![w] = Tail(@)]
    BY DEF Advance, Busy
  <1>2. Fits(todo[w], open[w], held[w]) /\ Rest(todo[w])
    BY <1>1 DEF Inv, Fits
  <1>3. x \in Step /\ Tail(todo[w]) \in Seq(Step)
    BY <1>2, RestTail
  <1>4. /\ x.do = "open" => InUse < pool
        /\ x.do # "open" => Blockers(w) = {}
    BY <1>1 DEF CanStep
  <1>5. CASE x.do = "open"
    <2>1. open' = [open EXCEPT ![w] = @ \cup {x.tx}] /\ UNCHANGED <<pool, held>>
      BY <1>5 DEF Advance
    <2> QED
      BY <1>1, <1>4, <1>5, <2>1, OpenKeeps
  <1>6. CASE x.do = "use"
    <2>1. held' = [held EXCEPT ![w][x.tx] = @ \cup x.rows] /\ UNCHANGED <<pool, open>>
      BY <1>6 DEF Advance
    <2> QED
      BY <1>1, <1>4, <1>6, <2>1, UseKeeps
  <1>7. CASE x.do = "close"
    <2>1. Drop(w, x.tx)
      BY <1>7 DEF Advance
    <2>2. x.tx \in Transactions
      BY <1>3 DEF Step
    <2>3. /\ todo \in [Workers -> Seq(Step)] /\ open[w] \in SUBSET Transactions
          /\ held[w] \in [Transactions -> SUBSET Rows]
      BY DEF Inv, TypeOK
    <2>4. Fits(Tail(todo[w]), open[w] \ {x.tx}, [held[w] EXCEPT ![x.tx] = {}])
      BY <1>1, <1>2, <1>7, <2>3, CloseFits
    <2>5. todo' = [todo EXCEPT ![w] = Tail(todo[w])]
      BY <1>1, <2>3
    <2> HIDE DEF x
    <2> QED
      BY <1>3, <2>1, <2>2, <2>4, <2>5, DropKeeps
  <1> QED
    BY <1>3, <1>5, <1>6, <1>7 DEF Step

LEMMA ExpireKeeps ==
  ASSUME Inv, NEW w \in Workers, ExpireT1(w)
  PROVE  Inv'
  <1>1. Drop(w, "T1") /\ UNCHANGED todo /\ todo[w] # <<>> /\ "T1" \in Transactions
    BY DEF ExpireT1, Busy, Transactions
  <1>2. /\ todo \in [Workers -> Seq(Step)] /\ open[w] \in SUBSET Transactions
        /\ held[w] \in [Transactions -> SUBSET Rows]
    BY DEF Inv, TypeOK
  <1>3. Fits(todo[w], open[w] \ {"T1"}, [held[w] EXCEPT !["T1"] = {}])
    BY <1>1, <1>2, ExpireFits DEF Inv
  <1>4. todo' = [todo EXCEPT ![w] = todo[w]] /\ todo[w] \in Seq(Step)
    BY <1>1, <1>2
  <1> QED
    BY <1>1, <1>3, <1>4, DropKeeps

LEMMA InitInv == Init => Inv
  <1> SUFFICES ASSUME Init PROVE Inv
    OBVIOUS
  <1>1. TypeOK
    BY ConnectionsAssumption DEF Init, TypeOK
  <1>2. \A w \in Workers : todo[w] = <<>> /\ open[w] = {} /\ NoRows(held[w])
    BY DEF Init, NoRows
  <1>3. \A w \in Workers : Fits(todo[w], open[w], held[w])
    BY <1>2, FreshFits
  <1>4. OneHolder
    BY <1>2 DEF OneHolder, NoRows
  <1>5. Connections = {}
    BY <1>2 DEF Connections
  <1>6. InUse = 0
    BY <1>5, ConnectionsFinite, FS_EmptySet
  <1> QED
    BY <1>1, <1>3, <1>4, <1>6 DEF Inv, TypeOK

LEMMA NextInv == Inv /\ [Next]_vars => Inv'
  <1> SUFFICES ASSUME Inv, [Next]_vars PROVE Inv'
    OBVIOUS
  <1>1. CASE UNCHANGED vars
    BY <1>1 DEF vars, Inv, TypeOK, OneHolder, InUse
  <1>2. ASSUME NEW w \in Workers, NEW kind \in Requests, NEW o \in Orders, NEW u \in Users,
               Begin(w, kind, o, u)
        PROVE  Inv'
    BY <1>2, BeginKeeps
  <1>3. ASSUME NEW w \in Workers,
               FindLost(w) \/ GiveUpConnection(w) \/ BreakCircle(w) \/ Fail(w)
        PROVE  Inv'
    BY <1>3, EndKeeps DEF FindLost, GiveUpConnection, BreakCircle, Fail
  <1>4. ASSUME NEW w \in Workers, Advance(w) \/ ExpireT1(w) PROVE Inv'
    BY <1>4, AdvanceKeeps, ExpireKeeps
  <1> QED
    BY <1>1, <1>2, <1>3, <1>4 DEF Next, Timeout

-----------------------------------------------------------------------------
(* Who waits for whom.                                                     *)

\* A blocker holds the row that w waits for, and has something left to do.
LEMMA BlockerHolds ==
  ASSUME Inv, NEW w \in Workers, NEW v \in Blockers(w)
  PROVE  /\ v \in Workers /\ w \in Busy /\ v \in Busy /\ ~OpensT1(Head(todo[v]))
         /\ \E t \in Transactions, r \in Head(todo[w]).rows : r \in held[v][t]
  <1>1. v \in Workers /\ todo[w] # <<>>
    BY DEF Blockers
  <1>2. PICK t \in Transactions, r \in Head(todo[w]).rows : r \in held[v][t]
    BY DEF Blockers
  <1>3. ~NoRows(held[v])
    BY <1>2 DEF NoRows
  <1>4. todo[v] # <<>> /\ ~OpensT1(Head(todo[v]))
    BY <1>1, <1>3 DEF Inv, Fits
  <1> QED
    BY <1>1, <1>2, <1>4 DEF Busy

\* And there is one at most.
LEMMA OneBlocker ==
  ASSUME Inv, NEW w \in Workers, NEW a \in Blockers(w), NEW b \in Blockers(w)
  PROVE  a = b
  <1>1. Rest(todo[w])
    BY BlockerHolds DEF Busy, Inv, Fits
  <1>2. StepOK(Head(todo[w]))
    BY <1>1, RestTail
  <1>3. PICK t \in Transactions, r \in Head(todo[w]).rows : r \in held[a][t]
    BY BlockerHolds
  <1>4. PICK x \in Transactions, q \in Head(todo[w]).rows : q \in held[b][x]
    BY BlockerHolds
  <1>5. r = q
    BY <1>2 DEF StepOK
  <1> QED
    BY <1>3, <1>4, <1>5, BlockerHolds DEF Inv, OneHolder

\* A step that waits for a row is one of a transaction that is open.
LEMMA WaitingStep ==
  ASSUME Inv, NEW w \in Workers, Blockers(w) # {}
  PROVE  /\ w \in Busy /\ Head(todo[w]).do = "use" /\ Head(todo[w]).rows \subseteq Rows
         /\ Head(todo[w]).tx = "T2" => Head(todo[w]).rows \subseteq DealRows
         /\ (\E r \in Head(todo[w]).rows : r \in FirstRows) => NoRows(held[w])
  <1>1. w \in Busy /\ Head(todo[w]).rows # {}
    BY BlockerHolds
  <1>2. Rest(todo[w])
    BY <1>1 DEF Busy, Inv, Fits
  <1>3. /\ StepOK(Head(todo[w])) /\ Head(todo[w]) \in Step
        /\ Head(todo[w]) = todo[w][1] /\ 1 \in 1..Len(todo[w])
    BY <1>2, RestTail
  <1>4. (\E r \in Head(todo[w]).rows : r \in FirstRows) => LocksFirst(todo[w][1])
    BY <1>3 DEF LocksFirst
  <1> QED
    BY <1>1, <1>3, <1>4 DEF StepOK, Step, Inv, Fits

\* Handlers each of whom waits for others of them make a circle.
LEMMA ClosedCircle ==
  ASSUME Inv, NEW K \in SUBSET Busy, K # {},
         \A w \in K : Blockers(w) # {} /\ Blockers(w) \subseteq K
  PROVE  \E S \in SUBSET Busy : Circle(S)
  <1> DEFINE Bad == {U \in SUBSET K : U # {} /\ \A w \in U : Blockers(w) \subseteq U}
  <1>1. IsFiniteSet(K)
    BY ConnectionsAssumption, FS_Subset DEF Busy
  <1>2. K \in Bad /\ Bad \in SUBSET SUBSET K
    OBVIOUS
  <1>3. PICK T \in Bad : \A U \in Bad : U \subseteq T => U = T
    <2> HIDE DEF Bad
    <2> QED
      BY <1>1, <1>2, LeastSubset
  <1> DEFINE N == UNION {Blockers(w) : w \in T}
  <1>4. N \subseteq T /\ N # {} /\ \A w \in N : Blockers(w) \subseteq N
    BY <1>3
  <1>5. N = T
    BY <1>3, <1>4
  <1>6. Circle(T) /\ T \in SUBSET Busy
    BY <1>3, <1>5 DEF Circle
  <1> QED
    BY <1>6

\* In a circle everybody waits, as a row has one holder.
LEMMA CircleWaits ==
  ASSUME Inv, NEW S \in SUBSET Busy, Circle(S)
  PROVE  \A w \in S : Blockers(w) # {} /\ \E x \in S : w \in Blockers(x)
  <1> DEFINE D == {x \in S : Blockers(x) # {}}
             g == [x \in D |-> CHOOSE v : v \in Blockers(x)]
  <1>1. S \subseteq Workers /\ IsFiniteSet(S) /\ IsFiniteSet(D) /\ D \subseteq S
    BY ConnectionsAssumption, FS_Subset DEF Busy
  <1>2. \A w \in S : \E x \in S : w \in Blockers(x)
    BY DEF Circle
  <1>3. ASSUME NEW x \in D PROVE g[x] \in Blockers(x) /\ g[x] \in S
    BY DEF Circle
  <1>4. ASSUME NEW w \in S PROVE \E x \in D : g[x] = w
    <2>1. PICK x \in S : w \in Blockers(x)
      BY <1>2
    <2>2. x \in D /\ g[x] \in Blockers(x) /\ x \in Workers
      BY <1>1, <1>3, <2>1
    <2>3. g[x] = w
      <3> HIDE DEF g, D
      <3> QED
        BY <2>1, <2>2, OneBlocker
    <2> QED
      BY <2>2, <2>3
  <1>5. g \in Surjection(D, S)
    <2>1. g \in [D -> S]
      BY <1>3
    <2> HIDE DEF g, D
    <2> QED
      BY <1>4, <2>1 DEF Surjection
  <1>6. Cardinality(S) <= Cardinality(D)
    BY <1>1, <1>5, FS_Surjection
  <1>7. D = S
    <2> HIDE DEF D
    <2> QED
      BY <1>1, <1>6, FS_Subset, FS_CardinalityType
  <1> QED
    BY <1>2, <1>7

\* Nobody in a circle waits with a T2.
LEMMA CirclesAreSeen ==
  ASSUME Inv, NEW S \in SUBSET Busy, Circle(S)
  PROVE  Seen(S)
  <1> SUFFICES ASSUME NEW w \in S, Head(todo[w]).tx # "T1" PROVE FALSE
    BY DEF Seen
  <1>1. S \subseteq Workers
    BY DEF Busy
  <1>2. Blockers(w) # {}
    BY CircleWaits
  <1>3. PICK x \in S : w \in Blockers(x)
    BY CircleWaits
  <1>4. /\ todo[w] # <<>> /\ Rest(todo[w]) /\ Fits(todo[w], open[w], held[w])
        /\ Head(todo[w]).do = "use"
    BY <1>1, <1>2, WaitingStep DEF Busy, Inv, Fits
  <1>5. Head(todo[w]) = todo[w][1] /\ 1 \in 1..Len(todo[w])
    BY <1>4, RestTail
  <1>6. PICK t \in Transactions, r \in Head(todo[x]).rows : r \in held[w][t]
    BY <1>1, <1>3, BlockerHolds
  <1>7. t = "T1"
    BY <1>4, <1>6 DEF Fits, Transactions
  <1>8. r \notin DealRows
    BY <1>4, <1>5, <1>6, <1>7 DEF Fits
  <1>9. r \in FirstRows
    BY <1>1, <1>3, <1>6, <1>8, RowKinds, WaitingStep
  <1>10. NoRows(held[x])
    BY <1>1, <1>3, <1>6, <1>9, WaitingStep
  <1>11. PICK y \in S : x \in Blockers(y)
    BY CircleWaits
  <1>12. \E n \in Transactions : held[x][n] # {}
    BY <1>1, <1>11, BlockerHolds
  <1> QED
    BY <1>10, <1>12 DEF NoRows

\* A busy handler that cannot step waits for a connection, or for a row.
LEMMA Stuck ==
  ASSUME NEW w \in Busy, ~CanStep(w)
  PROVE  /\ Head(todo[w]).do = "open" => ~(InUse < pool)
         /\ Head(todo[w]).do # "open" => Blockers(w) # {}
  BY DEF CanStep

\* When everybody waits and not in a circle, nobody has a T2 open: the holder
\* of a row deals are made of waits for such a row himself.
LEMMA NoInnerLeft ==
  ASSUME Inv, \A w \in Busy : ~CanStep(w), \A S \in SUBSET Busy : ~Circle(S),
         NEW v \in Workers, "T2" \in open[v]
  PROVE  FALSE
  <1> DEFINE K == {w \in Workers : held[w]["T1"] \cap DealRows # {}}
  <1>1. ASSUME NEW w \in Workers, NEW u \in Blockers(w),
               \A r \in Head(todo[w]).rows : r \in DealRows
        PROVE  u \in K
    <2>1. u \in Workers /\ u \in Busy
      BY <1>1, BlockerHolds
    <2>2. PICK t \in Transactions, r \in Head(todo[w]).rows : r \in held[u][t]
      BY <1>1, BlockerHolds
    <2>3. CASE t = "T1"
      BY <1>1, <2>1, <2>2, <2>3
    <2>4. CASE t = "T2"
      <3>1. Head(todo[u]).do = "close"
        BY <2>1, <2>2, <2>4 DEF Inv, Fits
      <3>2. Blockers(u) # {}
        BY <2>1, <3>1, Stuck
      <3> QED
        BY <2>1, <3>1, <3>2, WaitingStep
    <2> QED
      BY <2>2, <2>3, <2>4 DEF Transactions
  <1>2. /\ v \in Busy /\ Head(todo[v]).do # "open" /\ Head(todo[v]).tx = "T2"
    BY DEF Inv, Fits, Busy
  <1>3. PICK y : y \in Blockers(v)
    BY <1>2, Stuck
  <1>4. y \in K
    <2>1. \A r \in Head(todo[v]).rows : r \in DealRows
      BY <1>2, <1>3, WaitingStep
    <2> HIDE DEF K
    <2> QED
      BY <1>1, <1>3, <2>1
  <1>5. ASSUME NEW w \in K
        PROVE  w \in Busy /\ Blockers(w) # {} /\ Blockers(w) \subseteq K
    <2>1. w \in Workers /\ ~NoRows(held[w])
      BY DEF NoRows, Transactions
    <2>2. todo[w] # <<>> /\ Rest(todo[w]) /\ ~OpensT1(Head(todo[w])) /\ w \in Busy
      BY <2>1 DEF Inv, Fits, Busy
    <2>3. Head(todo[w]) = todo[w][1] /\ 1 \in 1..Len(todo[w])
      BY <2>2, RestTail
    <2>4. Head(todo[w]).tx = "T1"
      BY <2>1, <2>3 DEF Inv, Fits
    <2>5. Head(todo[w]).do # "open"
      BY <2>2, <2>4 DEF OpensT1
    <2>6. Blockers(w) # {}
      BY <2>2, <2>5, Stuck
    <2>7. \A r \in Head(todo[w]).rows : r \in DealRows
      BY <2>1, <2>6, WaitingStep, RowKinds
    <2> HIDE DEF K
    <2> QED
      BY <1>1, <2>1, <2>2, <2>6, <2>7
  <1>6. K \in SUBSET Busy /\ K # {}
    BY <1>4, <1>5
  <1> HIDE DEF K
  <1> QED
    BY <1>5, <1>6, ClosedCircle

\* A row another transaction waits for without the deadlock detector's
\* knowledge is never part of a circle, and a pool that has run out has been
\* used up by outer transactions.
THEOREM AllDeadlocksKnown == Spec => []DeadlocksAreKnown
  <1>1. Inv => DeadlocksAreKnown
    <2> SUFFICES ASSUME Inv PROVE DeadlocksAreKnown
      OBVIOUS
    <2>1. \A S \in SUBSET Busy : Circle(S) => Seen(S)
      BY CirclesAreSeen
    <2>2. ASSUME Busy # {}, \A w \in Busy : ~CanStep(w), \A S \in SUBSET Busy : ~Circle(S)
          PROVE  InUse = pool /\ \A w \in Workers : "T2" \notin open[w]
      <3>1. PICK w \in Busy : Blockers(w) = {}
        <4> SUFFICES ASSUME \A w \in Busy : Blockers(w) # {} PROVE FALSE
          OBVIOUS
        <4>1. \A w \in Busy : Blockers(w) \subseteq Busy
          BY BlockerHolds DEF Busy
        <4> QED
          BY <2>2, <4>1, ClosedCircle
      <3>2. ~(InUse < pool)
        BY <2>2, <3>1, Stuck
      <3>3. InUse <= pool /\ InUse \in Nat /\ pool \in Nat
        BY ConnectionsFinite, FS_CardinalityType DEF Inv, TypeOK
      <3>4. \A x \in Workers : "T2" \notin open[x]
        BY <2>2, NoInnerLeft
      <3> QED
        BY <3>2, <3>3, <3>4
    <2> QED
      BY <2>1, <2>2 DEF DeadlocksAreKnown
  <1> QED
    BY <1>1, InitInv, NextInv, PTL DEF Spec
=============================================================================

----------------------------- MODULE OrderSchema -----------------------------
(***************************************************************************)
(* What the other modules share: the ids, the Order row of schema.prisma   *)
(* and the transition table of orders.service.ts.                          *)
(***************************************************************************)
EXTENDS Integers

CONSTANTS
  Users,    \* ids of rows of the User table
  NoUser,   \* SQL NULL in a user-id column
  Orders,   \* order ids (uuids) the run may hand out
  Amounts,  \* amounts a request may carry (orders in USDT, accepts too)
  Rates     \* rates a new order may carry

\* Amounts and rates have any sign: the controller tests that they are truthy
\* and parses them, so that "-1" and "0" pass, accept tests nothing, and the
\* webhook tests the sign of the amount only.
ASSUME IdAssumption == NoUser \notin Users
ASSUME AmountAssumption == Amounts \subseteq Int
ASSUME RateAssumption == Rates \subseteq Int

Types == {"BUY", "SELL"}

Statuses == {"PENDING", "ACTIVE", "RESERVED", "PAYMENT_PENDING", "PAID",
             "CONFIRMED", "COMPLETED", "CANCELLED", "DISPUTED", "RESOLVED",
             "HIDDEN"}

\* The statuses a row may move to, by its status.
STATE_TRANSITIONS ==
  [PENDING         |-> {"ACTIVE", "CANCELLED"},
   ACTIVE          |-> {"RESERVED", "CANCELLED", "HIDDEN"},
   RESERVED        |-> {"PAYMENT_PENDING", "CANCELLED"},
   PAYMENT_PENDING |-> {"PAID", "CANCELLED", "DISPUTED"},
   PAID            |-> {"CONFIRMED", "DISPUTED"},
   CONFIRMED       |-> {"COMPLETED"},
   COMPLETED       |-> {},
   CANCELLED       |-> {},
   DISPUTED        |-> {"RESOLVED"},
   RESOLVED        |-> {"COMPLETED", "CANCELLED"},
   HIDDEN          |-> {"ACTIVE", "CANCELLED"}]

\* canTransition: false for a row that does not exist ("ABSENT").
CanTransition(from, to) ==
  from \in Statuses /\ to \in STATE_TRANSITIONS[from]

\* An Order row; "ABSENT" stands for a row that is not in the table.
Order == [type: Types, seller: Users \cup {NoUser}, buyer: Users \cup {NoUser},
          amount: Int, rate: Int, reserved: Int,
          status: Statuses \cup {"ABSENT"}]

NoOrder == [type |-> "BUY", seller |-> NoUser, buyer |-> NoUser,
            amount |-> 0, rate |-> 0, reserved |-> 0, status |-> "ABSENT"]

\* The row createOrder inserts: the creator is the seller of a SELL order and
\* the buyer of a BUY order, and the status is PENDING.
NewOrder(type, u, amount, rate) ==
  [type     |-> type,
   seller   |-> IF type = "SELL" THEN u ELSE NoUser,
   buyer    |-> IF type = "BUY" THEN u ELSE NoUser,
   amount   |-> amount,
   rate     |-> rate,
   reserved |-> 0,
   status   |-> "PENDING"]
=============================================================================

--------------------------- MODULE EscrowAccounts ---------------------------
(***************************************************************************)
(* The money side of the exchange: the User rows (balance, blockedBalance, *)
(* totalTrades), the Transaction table, and the three TransactionsService  *)
(* operations the orders service calls (transactions.service.ts).          *)
(*                                                                         *)
(* Each operation opens a database transaction of its own.  It reads the   *)
(* user row, checks it, updates it with relative increments and inserts a  *)
(* Transaction row built from the values it READ.  At READ COMMITTED the   *)
(* row may change between the read and the update, so a module that uses   *)
(* these operators passes the balance seen by the read as an argument.     *)
(***************************************************************************)
EXTENDS OrderSchema, Sequences, FiniteSets

CONSTANT
  InitBalance   \* balance of every user before the first request

ASSUME BalanceAssumption == InitBalance \in [Users -> Nat]

VARIABLES
  balance,      \* User.balance
  blocked,      \* User.blockedBalance
  totalTrades,  \* User.totalTrades
  ledger        \* committed Transaction rows, in commit order

accountVars == <<balance, blocked, totalTrades, ledger>>

\* A Transaction row.  The two kinds of RELEASE row are told apart as in the
\* code: transferToSeller writes role "seller" into the row's metadata.
LedgerRow == [order: Orders, user: Users, type: {"RESERVE", "RELEASE"},
              role: {"owner", "seller"}, amount: Int, before: Int, after: Int]

AccountsTypeOK ==
  /\ balance \in [Users -> Int]
  /\ blocked \in [Users -> Int]
  /\ totalTrades \in [Users -> Nat]
  /\ ledger \in Seq(LedgerRow)

\* No code of the repository deposits money: balances are given.
AccountsInit ==
  /\ balance = InitBalance
  /\ blocked = [u \in Users |-> 0]
  /\ totalTrades = [u \in Users |-> 0]
  /\ ledger = <<>>

-----------------------------------------------------------------------------
(* Faulty variants, used only to show that the properties can fail.        *)

BugEntry(o, u, type, role, amount, before, after) ==
  [order |-> o, user |-> u, type |-> type, role |-> role,
   amount |-> amount, before |-> before, after |-> before]

BugCanReserve(u, amount) == balance[u] + blocked[u] >= amount

BugReserveFunds(o, u, amount, before) ==
  /\ balance' = [balance EXCEPT ![u] = before - amount]
  /\ blocked' = [blocked EXCEPT ![u] = @ + amount]
  /\ ledger' = Append(ledger, [order |-> o, user |-> u, type |-> "RESERVE",
                               role |-> "owner", amount |-> amount,
                               before |-> before, after |-> before - amount])
  /\ UNCHANGED totalTrades

BugReleaseFunds(o, u, amount, before) ==
  /\ balance' = [balance EXCEPT ![u] = @ + amount]
  /\ ledger' = Append(ledger, [order |-> o, user |-> u, type |-> "RELEASE",
                               role |-> "owner", amount |-> amount,
                               before |-> before, after |-> before + amount])
  /\ UNCHANGED <<blocked, totalTrades>>

BugTransferToSeller(o, u, amount, before) ==
  /\ blocked' = [blocked EXCEPT ![u] = @ - amount]
  /\ totalTrades' = [totalTrades EXCEPT ![u] = @ + 1]
  /\ UNCHANGED <<balance, ledger>>

\* The trade is taken off the count like the amount off the balance.
BugUncountTrade(o, u, amount, before) ==
  /\ blocked' = [blocked EXCEPT ![u] = @ - amount]
  /\ totalTrades' = [totalTrades EXCEPT ![u] = @ - 1]
  /\ ledger' = Append(ledger, [order |-> o, user |-> u, type |-> "RELEASE",
                               role |-> "seller", amount |-> amount,
                               before |-> before, after |-> before])
  /\ UNCHANGED balance

-----------------------------------------------------------------------------
(* The operations.                                                         *)

Entry(o, u, type, role, amount, before, after) ==
  [order |-> o, user |-> u, type |-> type, role |-> role,
   amount |-> amount, before |-> before, after |-> after]

\* The check of reserveFunds: enough free balance, or "Insufficient balance
\* for reserve".
CanReserve(u, amount) == balance[u] >= amount

\* The check of releaseFunds: enough blocked balance.
CanRelease(u, amount) == blocked[u] >= amount

\* reserveFunds after its check: from the free to the blocked balance.
ReserveFunds(o, u, amount, before) ==
  /\ balance' = [balance EXCEPT ![u] = @ - amount]
  /\ blocked' = [blocked EXCEPT ![u] = @ + amount]
  /\ ledger' = Append(ledger, Entry(o, u, "RESERVE", "owner", amount,
                                    before, before - amount))
  /\ UNCHANGED totalTrades

\* releaseFunds after its check: back to the free balance.
ReleaseFunds(o, u, amount, before) ==
  /\ balance' = [balance EXCEPT ![u] = @ + amount]
  /\ blocked' = [blocked EXCEPT ![u] = @ - amount]
  /\ ledger' = Append(ledger, Entry(o, u, "RELEASE", "owner", amount,
                                    before, before + amount))
  /\ UNCHANGED totalTrades

\* transferToSeller: off the seller's blocked balance, unchecked; the row
\* records an unchanged balance; the trade is counted.
TransferToSeller(o, u, amount, before) ==
  /\ blocked' = [blocked EXCEPT ![u] = @ - amount]
  /\ totalTrades' = [totalTrades EXCEPT ![u] = @ + 1]
  /\ ledger' = Append(ledger, Entry(o, u, "RELEASE", "seller", amount,
                                    before, before))
  /\ UNCHANGED balance
=============================================================================

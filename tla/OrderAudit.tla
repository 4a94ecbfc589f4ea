------------------------------ MODULE OrderAudit ------------------------------
(***************************************************************************)
(* What an auditor would ask of OrderRequests: sums over the ledger and    *)
(* the user rows, and what the docs and tests say of the program.          *)
(***************************************************************************)
EXTENDS OrderRequests, FiniteSetsExt, Functions

ASSUME UsersAssumption == IsFiniteSet(Users)

Quiet == \A w \in Workers : req[w] = Idle

RowsOf(u) == {i \in DOMAIN ledger : ledger[i].user = u}

\* A user's balance is what it started with plus every change the ledger
\* records, although each row was built from a balance that may have been
\* stale: the update is relative and so is the difference of the two columns.
BalanceMatchesLedger ==
  \A u \in Users :
    balance[u] = InitBalance[u]
      + SumFunction([i \in RowsOf(u) |-> ledger[i].after - ledger[i].before])

\* A row starts at the balance where the user's previous row ended.
LedgerChains ==
  \A i \in DOMAIN ledger :
    LET earlier == {j \in RowsOf(ledger[i].user) : j < i} IN
    ledger[i].before = IF earlier = {} THEN InitBalance[ledger[i].user]
                       ELSE ledger[Max(earlier)].after

ReceiptRows == {i \in DOMAIN ledger : ledger[i].role = "seller"}

\* When no handler is in progress and none was lost, every confirmReceipt that
\* took the seller's share has also taken the buyer's, and nothing else has
\* left: T2 of one handler is never paired with T1 of another.
ReceiptsTakeBothShares ==
  (Quiet /\ faults = 0) =>
    SumFunction([u \in Users |-> balance[u] + blocked[u]])
      = SumFunction(InitBalance)
          - SumFunction([i \in ReceiptRows |->
              ledger[i].amount * (1 + orders[ledger[i].order].rate)])

-----------------------------------------------------------------------------
(* A claim of the repository that a run expecting a violation refutes.     *)

\* COMPLETED and CANCELLED are final.
FinalStatusesAreFinal ==
  [][\A o \in Orders :
       orders[o].status \in {"COMPLETED", "CANCELLED"} =>
         orders'[o].status = orders[o].status]_vars
=============================================================================

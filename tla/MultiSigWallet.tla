--------------------------- MODULE MultiSigWallet ---------------------------
(***************************************************************************)
(* The settlement wallet: src/contracts/src/P2PSPBMultiSigWallet.sol.      *)
(* A call of the contract is atomic except where _executeTransaction hands *)
(* control to the receiver: a receiver that is a contract may call the     *)
(* wallet back, and if it fails the whole call is undone.  A call that     *)
(* reverts at once is a disabled action.                                   *)
(*                                                                         *)
(* wallet is the contract's storage, calls the calls that are waiting for  *)
(* a receiver, each with the storage it found and whether it is a          *)
(* submission, which still has to count its transaction.                   *)
(***************************************************************************)
EXTENDS Naturals, Sequences, FiniteSets

CONSTANTS Owners0,       \* the owners given to the constructor
          Addresses,     \* everybody who may own, call or be paid
          Contracts,     \* the addresses that are contracts
          Required,      \* requiredConfirmations, fixed by the constructor
          Ids,           \* the transaction ids an instance may use
          Values,        \* values and thresholds, in wei
          MaxDepth,      \* bound: nested calls
          MaxBalance     \* bound: ETH the wallet may hold

ASSUME WalletAssumption ==
    /\ Owners0 \subseteq Addresses /\ Contracts \subseteq Addresses
    /\ IsFiniteSet(Addresses)
    /\ Required \in Nat \ {0} /\ Required <= Cardinality(Owners0)
    /\ Ids \subseteq Nat /\ Values \subseteq Nat
    /\ MaxDepth \in Nat /\ MaxBalance \in Nat

VARIABLES wallet, calls

walletVars == <<wallet, calls>>

NoAddress == "0x0"

Transaction == [to: Addresses \cup {NoAddress}, value: Nat, executed: BOOLEAN,
                confirmations: Nat, isConfirmed: SUBSET Addresses]

\* What the mapping holds for an id nobody has submitted.
Blank == [to |-> NoAddress, value |-> 0, executed |-> FALSE,
          confirmations |-> 0, isConfirmed |-> {}]

\* What a payment looked like when it was made; the contract does not keep it.
Payment == [value: Nat, threshold: Nat, confirmations: Nat]

Storage == [owners: SUBSET Addresses, threshold: Nat, transactionCount: Nat,
            transactions: [Ids -> Transaction], balance: Nat, payments: SUBSET Payment]

Frame == [saved: Storage, submits: BOOLEAN]

WalletInit ==
    /\ \E t \in Values : wallet = [owners |-> Owners0, threshold |-> t, transactionCount |-> 0,
                                   transactions |-> [id \in Ids |-> Blank],
                                   balance |-> 0, payments |-> {}]
    /\ calls = <<>>

-----------------------------------------------------------------------------
\* onlyOwner; while a receiver runs, only contracts can call.
IsCaller(s) == s \in wallet.owners /\ (calls # <<>> => s \in Contracts)

\* Mutants: confirmTransaction without notConfirmed; txExists off by one.
BugConfirmTwice(w, s, id) ==
    id < w.transactionCount /\ ~w.transactions[id].executed
BugExistsAlready(w, s, id) ==
    /\ id <= w.transactionCount
    /\ ~w.transactions[id].executed
    /\ s \notin w.transactions[id].isConfirmed

\* txExists, notExecuted and notConfirmed.
MayConfirm(w, s, id) ==
    /\ id < w.transactionCount
    /\ ~w.transactions[id].executed
    /\ s \notin w.transactions[id].isConfirmed

Stored(w, id, to, v) ==
    [w EXCEPT !.transactions[id] =
        [to |-> to, value |-> v, executed |-> FALSE, confirmations |-> 0,
         isConfirmed |-> w.transactions[id].isConfirmed]]

Countersigned(t, s) == [t EXCEPT !.isConfirmed = @ \cup {s}, !.confirmations = @ + 1]

Signed(w, s, id) == [w EXCEPT !.transactions[id] = Countersigned(@, s)]

Counted(w, submits) ==
    [w EXCEPT !.transactionCount = IF submits THEN @ + 1 ELSE @]

Enough(w, id) == w.transactions[id].confirmations >= Required

\* executed is set and the value sent; the receiver's code has still to run.
Paid(w, id) ==
    LET t == w.transactions[id]
    IN  [w EXCEPT !.transactions[id].executed = TRUE,
                  !.balance = @ - t.value,
                  !.payments = @ \cup {[value |-> t.value, threshold |-> w.threshold,
                                        confirmations |-> t.confirmations]}]

\* Mutant: the balance is not looked at.
BugExecuteTransaction(w, id, submits) ==
    /\ w.transactions[id].to \notin Contracts
    /\ wallet' = Counted([w EXCEPT !.balance = @ - w.transactions[id].value], submits)
    /\ UNCHANGED calls

\* to.call{value: value}(data), in a call that entered with the storage as it is now.
ExecuteTransaction(w, id, submits) ==
    /\ w.transactions[id].value <= w.balance
    /\ IF w.transactions[id].to \in Contracts
       THEN /\ Len(calls) < MaxDepth
            /\ wallet' = Paid(w, id)
            /\ calls' = Append(calls, [saved |-> wallet, submits |-> submits])
       ELSE /\ wallet' = Counted(Paid(w, id), submits)
            /\ UNCHANGED calls

SubmitTransaction(s, to, v) ==
    LET id     == wallet.transactionCount
        stored == Stored(wallet, id, to, v)
        small  == v < wallet.threshold
        signed == IF small THEN stored ELSE Signed(stored, s, id)
    IN  /\ IsCaller(s)
        /\ id \in Ids
        /\ small \/ MayConfirm(stored, s, id)
        /\ IF small \/ Enough(signed, id)
           THEN ExecuteTransaction(signed, id, TRUE)
           ELSE wallet' = Counted(signed, TRUE) /\ UNCHANGED calls

\* Mutant: execution is left to executeTransaction.
BugConfirmOnly(s, id) ==
    /\ IsCaller(s)
    /\ MayConfirm(wallet, s, id)
    /\ wallet' = Signed(wallet, s, id) /\ UNCHANGED calls

ConfirmTransaction(s, id) ==
    /\ IsCaller(s)
    /\ MayConfirm(wallet, s, id)
    /\ IF Enough(Signed(wallet, s, id), id)
       THEN ExecuteTransaction(Signed(wallet, s, id), id, FALSE)
       ELSE wallet' = Signed(wallet, s, id) /\ UNCHANGED calls

\* What executeTransaction asks for.  It is no action of WalletNext:
\* ExecuteTransactionReverts says that no call of it ever succeeds.
MayExecute(s, id) ==
    /\ IsCaller(s)
    /\ id < wallet.transactionCount
    /\ ~wallet.transactions[id].executed
    /\ Enough(wallet, id)

Waiting == calls[Len(calls)]

Return ==
    /\ calls # <<>>
    /\ wallet' = Counted(wallet, Waiting.submits)
    /\ calls' = SubSeq(calls, 1, Len(calls) - 1)

\* The receiver fails: require(success) undoes everything since the call began.
Revert ==
    /\ calls # <<>>
    /\ wallet' = Waiting.saved
    /\ calls' = SubSeq(calls, 1, Len(calls) - 1)

AddOwner(s, o) ==
    /\ IsCaller(s)
    /\ o \notin wallet.owners
    /\ wallet' = [wallet EXCEPT !.owners = @ \cup {o}]
    /\ UNCHANGED calls

\* Mutant: the last signers may be removed.
BugRemoveOwner(s, o) ==
    /\ IsCaller(s)
    /\ o \in wallet.owners
    /\ wallet' = [wallet EXCEPT !.owners = @ \ {o}]
    /\ UNCHANGED calls

RemoveOwner(s, o) ==
    /\ IsCaller(s)
    /\ o \in wallet.owners
    /\ Cardinality(wallet.owners) > Required
    /\ wallet' = [wallet EXCEPT !.owners = @ \ {o}]
    /\ UNCHANGED calls

SetThreshold(s, t) ==
    /\ IsCaller(s)
    /\ wallet' = [wallet EXCEPT !.threshold = t]
    /\ UNCHANGED calls

Receive(v) ==
    /\ wallet.balance + v <= MaxBalance
    /\ wallet' = [wallet EXCEPT !.balance = @ + v]
    /\ UNCHANGED calls

WalletNext ==
    \/ \E s, to \in Addresses, v \in Values : SubmitTransaction(s, to, v)
    \/ \E s \in Addresses, id \in Ids : ConfirmTransaction(s, id)
    \/ \E s, o \in Addresses : AddOwner(s, o) \/ RemoveOwner(s, o)
    \/ \E s \in Addresses, t \in Values : SetThreshold(s, t)
    \/ \E v \in Values : Receive(v)
    \/ Return
    \/ Revert

WalletSpec == WalletInit /\ [][WalletNext]_walletVars

-----------------------------------------------------------------------------
TypeOK == wallet \in Storage /\ calls \in Seq(Frame)

\* Nobody's signature counts twice: not through a repeated call, not through removal and
\* re-admission of an owner (removeOwner keeps the signatures), not through an id that a
\* nested submission has used before (submitTransaction resets the count, not the signers).
SignaturesMatchCount ==
    \A id \in Ids : wallet.transactions[id].confirmations
                      = Cardinality(wallet.transactions[id].isConfirmed)

\* However owners come and go, the wallet keeps as many as it needs signatures.
EnoughOwners == Cardinality(wallet.owners) >= Required

\* What the order of statements in submitTransaction comes to: confirmTransaction asks for a
\* transaction that is only counted afterwards, so no submission from the threshold upwards
\* succeeds.  ETH leaves in payments below the threshold only, and no signature is ever part
\* of one: what can be confirmed at all is a blank id left by a nested submission.  The comments
\* of the contract (lines 8, 64 and 111) promise large payments with two of three signatures.
LargePaymentsNeverLeave ==
    \A p \in wallet.payments : p.value > 0 => p.value < p.threshold /\ p.confirmations = 0

\* executeTransaction, the way to run what its confirmations did not run, never applies: the
\* confirmation that completes the signatures executes or is undone with the execution.
ExecuteTransactionReverts ==
    \A s \in Addresses, id \in Ids : ~MayExecute(s, id)
=============================================================================

----------------------------- MODULE Settlement -----------------------------
(***************************************************************************)
(* How the API settles on the chain: SettlementStrategyFactory and the     *)
(* three strategies, EscrowService, BlockchainService, the events listener *)
(* and the administrator's two requests, composed with the contracts of    *)
(* TokenEscrow, which everybody else may call at any time.                 *)
(*                                                                         *)
(* Of a strategy the orders service calls create, inside the transaction   *)
(* of createOrder and before its commit, and nothing else; the other six   *)
(* methods have no caller and are not modelled.                            *)
(*                                                                         *)
(* api:    the process: boot, whether the wallet exists, whether the       *)
(*         listener's timer has fired and found it, whether it listens     *)
(* order:  what has become of each order                                   *)
(* told:   the trades somebody was told were completed or cancelled, or    *)
(*         shown to be in some other state                                 *)
(***************************************************************************)
EXTENDS TokenEscrow

CONSTANTS Api,             \* the account of the API's wallet
          Orders,
          Mode,            \* what SETTLEMENT_MODE may be set to
          Key              \* "kms", "local" or "none": where the private key comes from

\* What the strategy passes for the buyer's address: the id of a user.
buyerAddress == "user id"

ASSUME SettlementAssumption ==
    /\ Api \in People
    /\ Key \subseteq {"kms", "local", "none"}
    /\ buyerAddress \notin Accounts

VARIABLES mode, api, order, told

vars == <<balanceOf, allowance, trades, mode, api, order, told>>

ApiState == [boot: {"key", "up"}, wallet: BOOLEAN, fired: BOOLEAN, listening: BOOLEAN]

\* An unset or unknown mode is the centralized one.
determineMode(m) == IF m \in {"blockchain", "hybrid", "centralized"} THEN m ELSE "centralized"

\* The one strategy that goes to the chain when an order is created.
OnChain == mode = "blockchain"

\* At the start a local key makes the wallet at once and no key none at all; the answer of the
\* key management service is awaited.
Init ==
    /\ ChainInit
    /\ \E m \in Mode : mode = determineMode(m)
    /\ \E k \in Key : api = [boot |-> IF k = "kms" THEN "key" ELSE "up", wallet |-> k = "local",
                             fired |-> FALSE, listening |-> FALSE]
    /\ order = [o \in Orders |-> "none"]
    /\ told = {}

-----------------------------------------------------------------------------
\* Functions and events by name and number of parameters: those of the contract, and those
\* escrowABI has the API call and look for.
ContractABI == {<<"createTrade", 3>>, <<"completeTrade", 1>>, <<"cancelTrade", 1>>,
                <<"getTrade", 1>>, <<"TradeCreated", 4>>, <<"TradeCompleted", 1>>,
                <<"TradeCancelled", 1>>}

escrowABI == {<<"createTrade", 4>>, <<"reserveFunds", 1>>, <<"confirmPayment", 1>>,
              <<"confirmReceipt", 1>>, <<"completeTrade", 1>>, <<"cancelTrade", 1>>,
              <<"createDispute", 1>>, <<"getTrade", 1>>, <<"TradeCreated", 5>>,
              <<"TradeCompleted", 4>>, <<"TradeCancelled", 1>>}

Understood(name) == \E n \in 0..5 : <<name, n>> \in escrowABI \cap ContractABI

isConnected == api.wallet

\* Mutant: a wallet that comes late starts the listener.
BugDecryptKey ==
    /\ api.boot = "key"
    /\ \E works \in BOOLEAN :
        api' = [api EXCEPT !.boot = "up", !.wallet = works, !.listening = works]
    /\ UNCHANGED <<balanceOf, allowance, trades, mode, order, told>>

\* The key service answers or fails.
DecryptKey ==
    /\ api.boot = "key"
    /\ \E works \in BOOLEAN : api' = [api EXCEPT !.boot = "up", !.wallet = works]
    /\ UNCHANGED <<balanceOf, allowance, trades, mode, order, told>>

\* The only call of startListening, five seconds after the start.
StartListening ==
    /\ ~api.fired
    /\ api' = [api EXCEPT !.fired = TRUE, !.listening = isConnected]
    /\ UNCHANGED <<balanceOf, allowance, trades, mode, order, told>>

-----------------------------------------------------------------------------
\* Mutant: the columns the documentation has.
BugOrderColumns == {"id", "status", "blockchainTradeId", "txHash"}

\* The columns of Order a strategy's result could be written to.
OrderColumns == {"id", "userId", "type", "pair", "rate", "minLimit", "maxLimit", "amount",
                 "reservedAmount", "paymentMethods", "status", "expiresAt", "createdAt",
                 "updatedAt", "sellerId", "buyerId"}

\* The contract makes a trade of the call only if it has such a function and the buyer is an
\* address.  Otherwise the strategy reports success: false, which createOrder does not look at.
CallWorks == Understood("createTrade") /\ buyerAddress \in Accounts

\* What create of each strategy answers with: whether a trade exists now, and whether a trade id
\* other than 0 goes back.  Not connected, the time of day is the id of a trade nobody has made;
\* connected, it is found in the event, if that is understood.
BlockchainCreate ==
    [trade |-> isConnected /\ CallWorks,
     id |-> isConnected => CallWorks /\ Understood("TradeCreated")]

\* The hybrid strategy leaves the chain to the settlement of the deal, ...
HybridCreate == [trade |-> FALSE, id |-> FALSE]

\* ... and the centralized one has no chain.
CentralizedCreate == [trade |-> FALSE, id |-> FALSE]

Created == CASE mode = "blockchain" -> BlockchainCreate
             [] mode = "hybrid" -> HybridCreate
             [] OTHER -> CentralizedCreate

\* strategy.create in T1; an id is then written to a column, which fails if there is none.
StrategyCreate(o, amount) ==
    /\ api.boot = "up"
    /\ order[o] = "none"
    /\ IF Created.trade THEN CreateTrade(Api, buyerAddress, amount) ELSE UNCHANGED chain
    /\ order' = [order EXCEPT ![o] = IF Created.id /\ "blockchainTradeId" \notin OrderColumns
                                     THEN "refused" ELSE "open"]
    /\ UNCHANGED <<mode, api, told>>

\* The rest of createOrder: T1 commits or is lost.
EndCreate(o) ==
    /\ order[o] = "open"
    /\ \E end \in {"placed", "refused"} : order' = [order EXCEPT ![o] = end]
    /\ UNCHANGED <<balanceOf, allowance, trades, mode, api, told>>

\* Mutant: the transaction is sent and not waited for, so that a revert is not noticed.
BugAdminClose(i, outcome) ==
    /\ api.boot = "up"
    /\ told' = told \cup {<<i, outcome>>}
    /\ UNCHANGED <<balanceOf, allowance, trades, mode, api, order>>

\* The escrow service's calls, for any number.  Not connected, they answer with the hash of no
\* transaction; connected, they wait until the contract has done it, or throw.
CompleteTrade(i) ==
    IF isConnected
    THEN i \in DOMAIN trades /\ CloseTrade(Api, i, "Completed")
    ELSE UNCHANGED chain

CancelTrade(i) ==
    IF isConnected
    THEN i \in DOMAIN trades /\ CloseTrade(Api, i, "Cancelled")
    ELSE UNCHANGED chain

\* The administrator's two requests: whatever answer the service returns is success.
AdminClose(i, outcome) ==
    /\ api.boot = "up"
    /\ \/ outcome = "Completed" /\ CompleteTrade(i)
       \/ outcome = "Cancelled" /\ CancelTrade(i)
    /\ told' = told \cup {<<i, outcome>>}
    /\ UNCHANGED <<mode, api, order>>

\* The words of the contract's answer to getTrade, and those the API's tuple has: expiresAt and
\* orderHash are in no trade of the contract.
WordsSent == 8
WordsRead == 10

\* What the escrow service makes of it: a status (a number without a trade has an empty one),
\* or nothing if it is not connected or the answer is too short.
getTrade(i) ==
    IF isConnected /\ WordsRead <= WordsSent
    THEN {IF i \in DOMAIN trades THEN trades[i].status ELSE "Created"}
    ELSE {}

\* Anybody asks for a trade; without a status the answer is "Trade not found".
ShowTrade(i) ==
    /\ api.boot = "up"
    /\ told' = told \cup {<<i, status>> : status \in getTrade(i)}
    /\ UNCHANGED <<balanceOf, allowance, trades, mode, api, order>>

\* Everybody else calls the contracts directly.  Only they can use an allowance.
Others == People \ {Api}
TokenCall ==
    /\ \E s \in Others, a \in Accounts, n \in Amounts :
          \/ Transfer(s, a, n)
          \/ a \in Others /\ Approve(s, a, n)
          \/ \E from \in Accounts : TransferFrom(s, from, a, n)
          \/ ClaimAirdrop(s) \/ ReceiveFee(n)
    /\ UNCHANGED <<mode, api, order, told>>

CreateCall ==
    /\ \E s \in Others, b \in People, n \in Amounts : CreateTrade(s, b, n)
    /\ UNCHANGED <<mode, api, order, told>>

CloseCall ==
    /\ \E s \in Others : Closes(s)
    /\ UNCHANGED <<mode, api, order, told>>

Next ==
    \/ DecryptKey \/ StartListening
    \/ \E o \in Orders, n \in Amounts : StrategyCreate(o, n)
    \/ \E o \in Orders : EndCreate(o)
    \/ \E i \in 1..MaxTrades, outcome \in {"Completed", "Cancelled"} : AdminClose(i, outcome)
    \/ \E i \in 1..MaxTrades : ShowTrade(i)
    \/ TokenCall \/ CreateCall \/ CloseCall

Spec == Init /\ [][Next]_vars

-----------------------------------------------------------------------------
\* In blockchain mode an order is placed only if the chain has refused its trade: connected,
\* the call has a parameter more than the contract's function and names a user's id for an
\* address; not connected, the invented id finds no column.  So no order ever has a trade, and
\* a lost T1 leaves none behind.  docs/BLOCKCHAIN_INTEGRATION.md:6 and 146-172,
\* docs/SETTLEMENT_STRATEGY.md:205 and docs/DEMO_MODE.md:66 say that every deal is recorded.
OrdersHaveNoTrade ==
    /\ \A i \in DOMAIN trades : trades[i].seller # Api
    /\ OnChain /\ (\E o \in Orders : order[o] = "placed") => isConnected

\* What an administrator is told was done was done, if the API is connected; nothing is told
\* of a trade that was completed.  Of a trade that is still open nobody is told anything: the API
\* cannot read the contract's answer, and "not found" is all it ever says.
SuccessIsReal ==
    /\ isConnected => \A i \in 1..MaxTrades, outcome \in {"Completed", "Cancelled"} :
          <<i, outcome>> \in told =>
              i \in DOMAIN trades /\ trades[i].status = outcome /\ outcome = "Cancelled"
    /\ \A i \in 1..MaxTrades : <<i, "Created">> \notin told

\* Whether the API listens to the chain is settled when the listener's timer fires: a key that
\* comes later than five seconds leaves it deaf, though connected.
OnceDeafAlwaysDeaf == [][api.fired /\ ~api.listening => ~api'.listening]_vars
=============================================================================

--------------------------- MODULE ContractProofs ---------------------------
(***************************************************************************)
(* Proofs about the contracts and the API that calls them.                 *)
(*                                                                         *)
(* Settlement and TokenEscrow, for any accounts, amounts, number of trades *)
(* and orders, any settings of the mode and of the key: the argument turns *)
(* on three facts: the escrow approves nobody, a trade is created or       *)
(* cancelled and never anything else, and the API's wallet comes before    *)
(* the first request or not at all.  For the supply, a transfer is a       *)
(* change of two summands.                                                 *)
(*                                                                         *)
(* MultiSigWallet, for any owners, receivers, thresholds and depth of      *)
(* nesting: Good is what the storage satisfies between any two steps; as a *)
(* failing receiver brings an older storage back, it is an invariant of    *)
(* every storage that a waiting call has saved, too.                       *)
(***************************************************************************)
EXTENDS Settlement, MultiSigWallet, SumTheorems, SequenceTheorems, TLAPS

\* The contracts.
ChainInv ==
    /\ ChainTypeOK
    /\ \A a \in Accounts : allowance[Escrow][a] = 0
    /\ \A i \in 1..Len(trades) :
         trades[i].status \in {"Created", "Cancelled"} /\ trades[i].seller # Api

\* The API.
ApiInv ==
    /\ api \in ApiState
    /\ api.boot = "key" => ~api.wallet /\ told = {}
    /\ ~api.fired => ~api.listening
    /\ order \in [Orders -> {"none", "open", "placed", "refused"}]
    /\ OnChain /\ (\E o \in Orders : order[o] \in {"open", "placed"}) => isConnected

Inv == ChainInv /\ ApiInv /\ SuccessIsReal

-----------------------------------------------------------------------------
(* The tokens.                                                             *)

LEMMA KnownAddresses ==
    /\ Deployer \in Accounts /\ Escrow \in Accounts /\ Splitter \in Accounts
    /\ Token \in Accounts /\ People \subseteq Accounts /\ Escrow \notin People
    /\ Deployer # Escrow /\ Splitter # Escrow /\ Token # Escrow
BY TokenEscrowAssumption DEF Accounts

\* A transfer the sender can afford, of the escrow's tokens or not.
LEMMA MovedKeeps ==
    ASSUME NEW b \in [Accounts -> Nat], NEW from \in Accounts, NEW to \in Accounts,
           NEW n \in Nat, b[from] >= n
    PROVE  /\ Moved(b, from, to, n) \in [Accounts -> Nat]
           /\ from # Escrow => Moved(b, from, to, n)[Escrow] >= b[Escrow]
<1>1. PICK c \in [Accounts -> Nat] : c = [b EXCEPT ![from] = b[from] - n]
    <2>1. b[from] - n \in Nat
        OBVIOUS
    <2> QED BY <2>1
<1>2. PICK d \in [Accounts -> Nat] : d = [c EXCEPT ![to] = c[to] + n]
    <2>1. c[to] + n \in Nat
        OBVIOUS
    <2> QED BY <2>1
<1>3. Moved(b, from, to, n) = d
    <2> DEFINE taken == [b EXCEPT ![from] = @ - n]
    <2>1. taken = c
        BY <1>1
    <2>2. Moved(b, from, to, n) = [taken EXCEPT ![to] = @ + n]
        BY DEF Moved
    <2> HIDE DEF taken
    <2> QED BY <2>1, <2>2, <1>2
<1>4. from # Escrow => c[Escrow] = b[Escrow]
    BY <1>1, KnownAddresses
<1>5. d[Escrow] >= c[Escrow]
    BY <1>2, KnownAddresses
<1> QED BY <1>3, <1>4, <1>5

\* The trades as an outcome leaves them: completed they cannot be.
LEMMA ClosedIsCancelled ==
    ASSUME ChainInv, NEW s, NEW i \in 1..Len(trades), NEW outcome \in {"Completed", "Cancelled"},
           CloseTrade(s, i, outcome)
    PROVE  /\ outcome = "Cancelled" /\ trades[i].status = "Created"
           /\ trades' = [trades EXCEPT ![i].status = "Cancelled"]
           /\ UNCHANGED <<balanceOf, allowance>>
<1>1. trades[i].status \in From[outcome] /\ trades[i].status \in {"Created", "Cancelled"}
    BY DEF CloseTrade, ChainInv
<1>2. outcome = "Cancelled" /\ trades[i].status = "Created"
    BY <1>1 DEF From
<1> QED BY <1>2 DEF CloseTrade

\* What a closed trade leaves of the trades.
LEMMA CancelKeeps ==
    ASSUME ChainInv, NEW i \in 1..Len(trades),
           trades' = [trades EXCEPT ![i].status = "Cancelled"],
           UNCHANGED <<balanceOf, allowance>>
    PROVE  /\ ChainInv' /\ Len(trades') = Len(trades) /\ trades'[i].status = "Cancelled"
           /\ \A k \in 1..Len(trades) \ {i} : trades'[k] = trades[k]
<1>1. trades \in Seq(Trade)
    BY DEF ChainInv, ChainTypeOK
<1>2. PICK t \in Trade : t = trades[i]
    BY <1>1
<1>3. PICK c \in Trade : c = [t EXCEPT !.status = "Cancelled"]
    <2>1. [t EXCEPT !.status = "Cancelled"] \in Trade
        BY DEF Trade, TradeStatus
    <2> QED BY <2>1
<1>4. c.status = "Cancelled" /\ c.seller = t.seller
    BY <1>3 DEF Trade
<1>5. trades' = [trades EXCEPT ![i] = c]
    BY <1>2, <1>3
<1>6. /\ trades' \in Seq(Trade) /\ Len(trades') = Len(trades) /\ trades'[i] = c
      /\ \A k \in 1..Len(trades) \ {i} : trades'[k] = trades[k]
    BY <1>1, <1>5
<1>7. \A k \in 1..Len(trades') :
        trades'[k].status \in {"Created", "Cancelled"} /\ trades'[k].seller # Api
    BY <1>2, <1>4, <1>6 DEF ChainInv
<1> QED BY <1>4, <1>6, <1>7 DEF ChainInv, ChainTypeOK

\* A new trade is created, and somebody else's.
LEMMA CreateKeeps ==
    ASSUME ChainInv, NEW s \in Accounts, s # Api, NEW b \in Accounts, NEW n \in Nat,
           CreateTrade(s, b, n)
    PROVE  /\ ChainInv' /\ Len(trades') = Len(trades) + 1
           /\ \A k \in 1..Len(trades) : trades'[k] = trades[k]
<1> DEFINE t == NewTrade(s, b, n)
<1>1. t \in Trade /\ t.status = "Created" /\ t.seller = s
    BY DEF NewTrade, Trade, TradeStatus
<1>2. trades' = Append(trades, t) /\ UNCHANGED <<balanceOf, allowance>>
    BY DEF CreateTrade
<1> HIDE DEF t
<1>3. trades \in Seq(Trade)
    BY DEF ChainInv, ChainTypeOK
<1>4. /\ trades' \in Seq(Trade) /\ Len(trades') = Len(trades) + 1
      /\ trades'[Len(trades) + 1] = t
      /\ \A k \in 1..Len(trades) : trades'[k] = trades[k]
    BY <1>1, <1>2, <1>3
<1>5. \A k \in 1..Len(trades') :
        trades'[k].status \in {"Created", "Cancelled"} /\ trades'[k].seller # Api
    BY <1>1, <1>3, <1>4 DEF ChainInv
<1> QED BY <1>2, <1>4, <1>5 DEF ChainInv, ChainTypeOK

\* The calls of the token and of the splitter: the trades stay, the escrow only gains.
LEMMA TokenCallKeeps ==
    ASSUME ChainInv, TokenCall
    PROVE  ChainInv' /\ balanceOf'[Escrow] >= balanceOf[Escrow] /\ UNCHANGED trades
<1>1. /\ balanceOf \in [Accounts -> Nat] /\ allowance \in [Accounts -> [Accounts -> Nat]]
      /\ trades \in Seq(Trade)
    BY DEF ChainInv, ChainTypeOK
<1>2. Others \subseteq Accounts /\ Escrow \notin Others
    BY KnownAddresses DEF Others
<1>3. \A n \in Amounts : n \in Nat /\ n > 0
    BY TokenEscrowAssumption
<1>4. ASSUME NEW s \in Others, NEW a \in Accounts, NEW n \in Amounts, Transfer(s, a, n)
      PROVE  ChainInv' /\ balanceOf'[Escrow] >= balanceOf[Escrow] /\ UNCHANGED trades
    BY <1>1, <1>2, <1>3, <1>4, MovedKeeps DEF Transfer, ChainInv, ChainTypeOK
<1>5. ASSUME NEW s \in Others, NEW a \in Others, NEW n \in Amounts, Approve(s, a, n)
      PROVE  ChainInv' /\ balanceOf'[Escrow] >= balanceOf[Escrow] /\ UNCHANGED trades
    <2>1. s \in Accounts /\ a \in Accounts /\ s # Escrow /\ n \in Nat
        BY <1>2, <1>3
    <2>2. allowance' = [allowance EXCEPT ![s][a] = n] /\ UNCHANGED <<balanceOf, trades>>
        BY <1>5 DEF Approve
    <2>3. allowance' \in [Accounts -> [Accounts -> Nat]] /\ allowance'[Escrow] = allowance[Escrow]
        BY <1>1, <2>1, <2>2, KnownAddresses
    <2>4. balanceOf'[Escrow] >= balanceOf[Escrow]
        BY <1>1, <2>2, KnownAddresses
    <2> QED BY <2>2, <2>3, <2>4 DEF ChainInv, ChainTypeOK
<1>6. ASSUME NEW s \in Others, NEW from \in Accounts, NEW a \in Accounts, NEW n \in Amounts,
             TransferFrom(s, from, a, n)
      PROVE  ChainInv' /\ balanceOf'[Escrow] >= balanceOf[Escrow] /\ UNCHANGED trades
    <2>1. /\ allowance[from][s] >= n /\ balanceOf[from] >= n /\ s \in Accounts /\ n \in Nat
          /\ allowance' = [allowance EXCEPT ![from][s] = @ - n]
          /\ balanceOf' = Moved(balanceOf, from, a, n) /\ UNCHANGED trades
        BY <1>2, <1>3, <1>6 DEF TransferFrom
    <2>2. from # Escrow
        BY <1>3, <2>1 DEF ChainInv
    <2>3. allowance[from][s] - n \in Nat
        BY <1>1, <2>1
    <2>4. allowance' \in [Accounts -> [Accounts -> Nat]] /\ allowance'[Escrow] = allowance[Escrow]
        BY <1>1, <2>1, <2>2, <2>3, KnownAddresses
    <2>5. balanceOf' \in [Accounts -> Nat] /\ balanceOf'[Escrow] >= balanceOf[Escrow]
        BY <1>1, <2>1, <2>2, MovedKeeps
    <2> QED BY <2>1, <2>4, <2>5 DEF ChainInv, ChainTypeOK
<1>7. ASSUME NEW s \in Others, ClaimAirdrop(s)
      PROVE  ChainInv' /\ balanceOf'[Escrow] >= balanceOf[Escrow] /\ UNCHANGED trades
    BY <1>1, <1>2, <1>7, MovedKeeps, KnownAddresses, TokenEscrowAssumption
       DEF ClaimAirdrop, ChainInv, ChainTypeOK
<1>8. ASSUME NEW n \in Amounts, ReceiveFee(n)
      PROVE  ChainInv' /\ balanceOf'[Escrow] >= balanceOf[Escrow] /\ UNCHANGED trades
    <2>1. PICK share \in Nat : share = (n * 20) \div 100
        BY <1>3
    <2>2. PICK once : once = Moved(balanceOf, Splitter, Deployer, share)
        OBVIOUS
    <2>3. /\ balanceOf[Splitter] >= share /\ once[Splitter] >= share
          /\ balanceOf' = Moved(once, Splitter, Deployer, share)
          /\ UNCHANGED <<allowance, trades>>
        BY <1>8, <2>1, <2>2 DEF ReceiveFee
    <2>4. once \in [Accounts -> Nat] /\ once[Escrow] >= balanceOf[Escrow]
        BY <1>1, <2>2, <2>3, MovedKeeps, KnownAddresses
    <2>5. balanceOf' \in [Accounts -> Nat] /\ balanceOf'[Escrow] >= once[Escrow]
        BY <2>3, <2>4, MovedKeeps, KnownAddresses
    <2>6. balanceOf'[Escrow] >= balanceOf[Escrow]
        BY <1>1, <2>4, <2>5, KnownAddresses
    <2> QED BY <2>3, <2>5, <2>6 DEF ChainInv, ChainTypeOK
<1> QED BY <1>4, <1>5, <1>6, <1>7, <1>8 DEF TokenCall

-----------------------------------------------------------------------------
(* The steps of the API.                                                   *)

\* Of the events of the contract the API understands the cancellation only, and it has no call
\* that makes a trade.
LEMMA ABI ==
    /\ ~Understood("createTrade") /\ ~Understood("TradeCreated")
    /\ ~Understood("TradeCompleted") /\ ~CallWorks
    /\ "blockchainTradeId" \notin OrderColumns
BY DEF Understood, CallWorks, escrowABI, ContractABI, OrderColumns

LEMMA ApiSame ==
    ASSUME ApiInv, UNCHANGED <<mode, api, order, told>>
    PROVE  ApiInv'
BY DEF ApiInv, OnChain, isConnected

\* What was told stays true while cancelled trades stay cancelled.
LEMMA SuccessKeeps ==
    ASSUME SuccessIsReal, ChainTypeOK, trades' \in Seq(Trade), UNCHANGED <<api, told>>,
           Len(trades') >= Len(trades),
           \A k \in 1..Len(trades) :
              trades[k].status = "Cancelled" => trades'[k].status = "Cancelled"
    PROVE  SuccessIsReal'
<1>1. /\ trades \in Seq(Trade) /\ DOMAIN trades = 1..Len(trades)
      /\ DOMAIN trades' = 1..Len(trades') /\ Len(trades) \in Nat /\ Len(trades') \in Nat
    BY DEF ChainTypeOK
<1>2. SUFFICES ASSUME isConnected, NEW i \in 1..MaxTrades,
                      NEW outcome \in {"Completed", "Cancelled"}, <<i, outcome>> \in told
               PROVE  /\ i \in DOMAIN trades' /\ trades'[i].status = outcome
                      /\ outcome = "Cancelled"
    BY DEF SuccessIsReal, isConnected
<1>3. i \in DOMAIN trades /\ trades[i].status = outcome /\ outcome = "Cancelled"
    BY <1>2 DEF SuccessIsReal
<1> QED BY <1>1, <1>3

LEMMA DecryptKeyKeeps ==
    ASSUME Inv, DecryptKey
    PROVE  Inv'
<1>1. PICK works \in BOOLEAN : api' = [api EXCEPT !.boot = "up", !.wallet = works]
    BY DEF DecryptKey
<1>2. PICK a \in ApiState : a = api
    BY DEF Inv, ApiInv
<1>3. /\ api' \in ApiState /\ api'.boot = "up" /\ api'.wallet = works
      /\ api'.fired = a.fired /\ api'.listening = a.listening
    BY <1>1, <1>2 DEF ApiState
<1>4. told = {} /\ ~a.wallet /\ UNCHANGED <<balanceOf, allowance, trades, mode, order, told>>
    BY <1>2 DEF Inv, ApiInv, DecryptKey
<1>5. ApiInv'
    BY <1>2, <1>3, <1>4 DEF Inv, ApiInv, OnChain, isConnected
<1>6. SuccessIsReal'
    BY <1>4 DEF SuccessIsReal
<1> QED BY <1>4, <1>5, <1>6 DEF Inv, ChainInv, ChainTypeOK

LEMMA StartListeningKeeps ==
    ASSUME Inv, StartListening
    PROVE  Inv'
<1>1. PICK a \in ApiState : a = api
    BY DEF Inv, ApiInv
<1>2. api' = [a EXCEPT !.fired = TRUE, !.listening = a.wallet]
    BY <1>1 DEF StartListening, isConnected
<1>3. /\ api' \in ApiState /\ api'.boot = a.boot /\ api'.wallet = a.wallet
      /\ api'.fired = TRUE /\ api'.listening = a.wallet
    BY <1>2 DEF ApiState
<1>4. UNCHANGED <<balanceOf, allowance, trades, mode, order, told>>
    BY DEF StartListening
<1>5. ApiInv'
    BY <1>1, <1>3, <1>4 DEF Inv, ApiInv, OnChain, isConnected
<1>6. SuccessIsReal'
    BY <1>1, <1>3, <1>4 DEF Inv, SuccessIsReal, isConnected
<1> QED BY <1>4, <1>5, <1>6 DEF Inv, ChainInv, ChainTypeOK

\* No strategy makes a trade; the blockchain strategy answers with no id only if it is connected.
LEMMA NoTradeCreated ==
    /\ ~Created.trade
    /\ ~Created.id => (OnChain => isConnected)
<1>1. CASE mode = "blockchain"
    BY <1>1, ABI DEF Created, BlockchainCreate, OnChain
<1>2. CASE mode # "blockchain"
    BY <1>2 DEF Created, HybridCreate, CentralizedCreate, OnChain
<1> QED BY <1>1, <1>2

LEMMA StrategyCreateKeeps ==
    ASSUME Inv, NEW o \in Orders, NEW n \in Amounts, StrategyCreate(o, n)
    PROVE  Inv'
<1>1. UNCHANGED <<balanceOf, allowance, trades, mode, api, told>>
    BY ABI, NoTradeCreated DEF StrategyCreate, chain
<1>2. PICK s \in {"refused", "open"} :
        order' = [order EXCEPT ![o] = s] /\ (s = "open" => ~Created.id)
    BY ABI DEF StrategyCreate
<1>3. ~Created.id => (OnChain => isConnected)
    BY NoTradeCreated
<1>4. order' \in [Orders -> {"none", "open", "placed", "refused"}]
    BY <1>2 DEF Inv, ApiInv
<1>5. OnChain /\ (\E p \in Orders : order'[p] \in {"open", "placed"}) => isConnected
    <2> SUFFICES ASSUME OnChain, NEW p \in Orders, order'[p] \in {"open", "placed"}
                 PROVE  isConnected
        OBVIOUS
    <2>1. CASE p = o
        BY <2>1, <1>2, <1>3 DEF Inv, ApiInv
    <2>2. CASE p # o
        BY <2>2, <1>2 DEF Inv, ApiInv
    <2> QED BY <2>1, <2>2
<1>6. ApiInv'
    BY <1>1, <1>4, <1>5 DEF Inv, ApiInv, OnChain, isConnected
<1> QED BY <1>1, <1>6 DEF Inv, ChainInv, ChainTypeOK, SuccessIsReal, isConnected

LEMMA EndCreateKeeps ==
    ASSUME Inv, NEW o \in Orders, EndCreate(o)
    PROVE  Inv'
<1>1. UNCHANGED <<balanceOf, allowance, trades, mode, api, told>> /\ order[o] = "open"
    BY DEF EndCreate
<1>2. PICK s \in {"refused", "placed"} : order' = [order EXCEPT ![o] = s]
    BY DEF EndCreate
<1>3. order' \in [Orders -> {"none", "open", "placed", "refused"}]
    BY <1>2 DEF Inv, ApiInv
<1>4. \A p \in Orders : order'[p] \in {"open", "placed"} => order[p] \in {"open", "placed"}
    BY <1>1, <1>2 DEF Inv, ApiInv
<1>5. ApiInv'
    BY <1>1, <1>3, <1>4 DEF Inv, ApiInv, OnChain, isConnected
<1> QED BY <1>1, <1>5 DEF Inv, ChainInv, ChainTypeOK, SuccessIsReal, isConnected

LEMMA AdminCloseKeeps ==
    ASSUME Inv, NEW i \in 1..MaxTrades, NEW outcome \in {"Completed", "Cancelled"},
           AdminClose(i, outcome)
    PROVE  Inv'
<1>1. /\ api.boot = "up" /\ told' = told \cup {<<i, outcome>>} /\ UNCHANGED <<mode, api, order>>
    BY DEF AdminClose
<1>2. ApiInv'
    BY <1>1 DEF Inv, ApiInv, OnChain, isConnected
<1>3. CASE ~isConnected
    <2>1. UNCHANGED <<balanceOf, allowance, trades>>
        BY <1>3 DEF AdminClose, CompleteTrade, CancelTrade, chain
    <2>2. SuccessIsReal'
        BY <1>1, <1>3 DEF Inv, SuccessIsReal, isConnected
    <2> QED BY <1>1, <1>2, <2>1, <2>2 DEF Inv, ChainInv, ChainTypeOK
<1>4. CASE isConnected
    <2>1. i \in DOMAIN trades /\ CloseTrade(Api, i, outcome)
        BY <1>4 DEF AdminClose, CompleteTrade, CancelTrade
    <2>2. trades \in Seq(Trade) /\ i \in 1..Len(trades)
        BY <2>1 DEF Inv, ChainInv, ChainTypeOK
    <2>3. /\ outcome = "Cancelled" /\ trades[i].status = "Created"
          /\ trades' = [trades EXCEPT ![i].status = "Cancelled"]
          /\ UNCHANGED <<balanceOf, allowance>>
        BY <2>1, <2>2, ClosedIsCancelled DEF Inv
    <2>4. /\ ChainInv' /\ Len(trades') = Len(trades) /\ trades'[i].status = "Cancelled"
          /\ \A k \in 1..Len(trades) \ {i} : trades'[k] = trades[k]
        BY <2>2, <2>3, CancelKeeps DEF Inv
    <2>5. DOMAIN trades = 1..Len(trades) /\ DOMAIN trades' = 1..Len(trades)
        BY <2>2, <2>4 DEF ChainInv, ChainTypeOK
    <2>6. SuccessIsReal'
        <3>3. \A j \in 1..MaxTrades : <<j, "Created">> \notin told'
            BY <1>1 DEF Inv, SuccessIsReal
        <3> SUFFICES ASSUME NEW j \in 1..MaxTrades, NEW out \in {"Completed", "Cancelled"},
                            <<j, out>> \in told'
                     PROVE  /\ j \in DOMAIN trades' /\ trades'[j].status = out
                            /\ out = "Cancelled"
            BY <3>3 DEF SuccessIsReal
        <3>1. CASE j = i
            <4>1. out = "Cancelled"
                <5>1. <<j, out>> = <<i, outcome>> \/ <<j, out>> \in told
                    BY <1>1
                <5>2. <<j, out>> \in told => out = "Cancelled"
                    BY <1>4 DEF Inv, SuccessIsReal
                <5> QED BY <5>1, <5>2, <2>3
            <4> QED BY <3>1, <4>1, <2>2, <2>4, <2>5
        <3>2. CASE j # i
            <4>1. <<j, out>> \in told
                BY <1>1, <3>2
            <4>2. j \in DOMAIN trades /\ trades[j].status = out /\ out = "Cancelled"
                BY <4>1, <1>4 DEF Inv, SuccessIsReal
            <4> QED BY <3>2, <4>2, <2>4, <2>5
        <3> QED BY <3>1, <3>2
    <2> QED BY <1>2, <2>4, <2>6 DEF Inv
<1> QED BY <1>3, <1>4

\* A trade asked for is never found.
LEMMA ShowTradeKeeps ==
    ASSUME NEW i \in 1..MaxTrades, ShowTrade(i)
    PROVE  UNCHANGED vars
BY DEF ShowTrade, getTrade, WordsRead, WordsSent, vars

-----------------------------------------------------------------------------
(* The calls of everybody else.                                            *)

LEMMA TokenStepKeeps ==
    ASSUME Inv, TokenCall
    PROVE  Inv'
<1>1. ChainInv' /\ UNCHANGED <<trades, mode, api, order, told>>
    BY TokenCallKeeps DEF Inv, TokenCall
<1>2. ApiInv'
    BY <1>1, ApiSame DEF Inv
<1> QED BY <1>1, <1>2 DEF Inv, SuccessIsReal, isConnected

LEMMA CreateCallKeeps ==
    ASSUME Inv, CreateCall
    PROVE  Inv' /\ UNCHANGED balanceOf
<1>1. PICK s \in Others, b \in People, n \in Amounts : CreateTrade(s, b, n)
    BY DEF CreateCall
<1>2. s \in Accounts /\ s # Api /\ b \in Accounts /\ n \in Nat
    BY KnownAddresses, TokenEscrowAssumption DEF Others
<1>3. /\ ChainInv' /\ Len(trades') = Len(trades) + 1
      /\ \A k \in 1..Len(trades) : trades'[k] = trades[k]
    BY <1>1, <1>2, CreateKeeps DEF Inv
<1>4. UNCHANGED <<mode, api, order, told>>
    BY DEF CreateCall
<1>5. ApiInv'
    BY <1>4, ApiSame DEF Inv
<1>6. trades \in Seq(Trade) /\ trades' \in Seq(Trade) /\ Len(trades') >= Len(trades)
    BY <1>3 DEF Inv, ChainInv, ChainTypeOK
<1>7. SuccessIsReal'
    BY <1>3, <1>4, <1>6, SuccessKeeps DEF Inv, ChainInv
<1> QED BY <1>1, <1>3, <1>5, <1>7 DEF Inv, CreateTrade

LEMMA CloseCallKeeps ==
    ASSUME Inv, CloseCall
    PROVE  Inv' /\ UNCHANGED balanceOf
<1>1. PICK s \in Others, i \in DOMAIN trades, o \in {"Completed", "Cancelled"} :
        CloseTrade(s, i, o)
    BY DEF CloseCall, Closes
<1>2. trades \in Seq(Trade) /\ i \in 1..Len(trades)
    BY DEF Inv, ChainInv, ChainTypeOK
<1>3. /\ trades' = [trades EXCEPT ![i].status = "Cancelled"]
      /\ UNCHANGED <<balanceOf, allowance>>
    BY <1>1, <1>2, ClosedIsCancelled DEF Inv
<1>4. /\ ChainInv' /\ Len(trades') = Len(trades) /\ trades'[i].status = "Cancelled"
      /\ \A k \in 1..Len(trades) \ {i} : trades'[k] = trades[k]
    BY <1>2, <1>3, CancelKeeps DEF Inv
<1>5. UNCHANGED <<mode, api, order, told>>
    BY <1>3 DEF CloseCall
<1>6. ApiInv'
    BY <1>5, ApiSame DEF Inv
<1>7. trades' \in Seq(Trade) /\ Len(trades') >= Len(trades)
    BY <1>2, <1>4 DEF ChainInv, ChainTypeOK
<1>8. \A k \in 1..Len(trades) :
        trades[k].status = "Cancelled" => trades'[k].status = "Cancelled"
    BY <1>4
<1>9. SuccessIsReal'
    BY <1>5, <1>7, <1>8, SuccessKeeps DEF Inv, ChainInv
<1> QED BY <1>3, <1>4, <1>6, <1>9 DEF Inv

-----------------------------------------------------------------------------
LEMMA InitInv == Init => Inv
<1> SUFFICES ASSUME Init PROVE Inv
    OBVIOUS
<1>1. ChainInit
    BY DEF Init
<1>2. Supply - Grant \in Nat /\ Grant \in Nat
    BY TokenEscrowAssumption
<1>3. ChainTypeOK
    BY <1>1, <1>2 DEF ChainInit, ChainTypeOK
<1>4. ChainInv
    BY <1>1, <1>3, KnownAddresses DEF ChainInit, ChainInv
<1>5. PICK k \in Key : api = [boot |-> IF k = "kms" THEN "key" ELSE "up",
                             wallet |-> k = "local", fired |-> FALSE, listening |-> FALSE]
    BY DEF Init
<1>6. /\ api \in ApiState /\ (api.boot = "key" => ~api.wallet) /\ ~api.listening
    BY <1>5 DEF ApiState
<1>7. ApiInv
    BY <1>6 DEF Init, ApiInv
<1> QED BY <1>4, <1>7 DEF Init, Inv, SuccessIsReal

LEMMA NextInv == Inv /\ [Next]_vars => Inv'
<1> SUFFICES ASSUME Inv, [Next]_vars PROVE Inv'
    OBVIOUS
<1>1. CASE UNCHANGED vars \/ \E i \in 1..MaxTrades : ShowTrade(i)
    <2> UNCHANGED vars
        BY <1>1, ShowTradeKeeps
    <2> QED BY ApiSame DEF vars, Inv, ChainInv, ChainTypeOK, SuccessIsReal, isConnected
<1>2. CASE DecryptKey \/ StartListening
    BY <1>2, DecryptKeyKeeps, StartListeningKeeps
<1>3. ASSUME NEW o \in Orders, NEW n \in Amounts, StrategyCreate(o, n) PROVE Inv'
    BY <1>3, StrategyCreateKeeps
<1>4. ASSUME NEW o \in Orders, EndCreate(o) PROVE Inv'
    BY <1>4, EndCreateKeeps
<1>5. ASSUME NEW i \in 1..MaxTrades, NEW outcome \in {"Completed", "Cancelled"},
             AdminClose(i, outcome)
      PROVE  Inv'
    BY <1>5, AdminCloseKeeps
<1>6. CASE TokenCall \/ CreateCall \/ CloseCall
    BY <1>6, TokenStepKeeps, CreateCallKeeps, CloseCallKeeps
<1> QED BY <1>1, <1>2, <1>3, <1>4, <1>5, <1>6 DEF Next

LEMMA InvHolds == Spec => []Inv
BY InitInv, NextInv, PTL DEF Spec

\* Balances, allowances and trades keep their types; no balance underflows.
THEOREM ChainTyped == Spec => []ChainTypeOK
<1>1. Inv => ChainTypeOK
    BY DEF Inv, ChainInv
<1> QED BY <1>1, InvHolds, PTL

\* No order has a trade on the chain, and none is placed in blockchain mode unless the API is
\* connected and the chain has refused the call.
THEOREM NoOrderHasTrade == Spec => []OrdersHaveNoTrade
<1>1. Inv => OrdersHaveNoTrade
    <2> SUFFICES ASSUME Inv PROVE OrdersHaveNoTrade
        OBVIOUS
    <2>1. DOMAIN trades = 1..Len(trades)
        BY DEF Inv, ChainInv, ChainTypeOK
    <2> QED BY <2>1 DEF Inv, ChainInv, ApiInv, OrdersHaveNoTrade
<1> QED BY <1>1, InvHolds, PTL

\* A connected API tells an administrator nothing that is not so, whatever others do meanwhile.
THEOREM SuccessReal == Spec => []SuccessIsReal
<1>1. Inv => SuccessIsReal
    BY DEF Inv
<1> QED BY <1>1, InvHolds, PTL

\* An API that does not listen when its timer has fired never will.
THEOREM AlwaysDeaf == Spec => OnceDeafAlwaysDeaf
<1>1. ASSUME Inv, [Next]_vars, api.fired, ~api.listening PROVE ~api'.listening
    <2>1. CASE api' = api
        BY <1>1, <2>1
    <2>2. CASE DecryptKey
        <3>1. PICK works \in BOOLEAN : api' = [api EXCEPT !.boot = "up", !.wallet = works]
            BY <2>2 DEF DecryptKey
        <3>2. PICK a \in ApiState : a = api
            BY <1>1 DEF Inv, ApiInv
        <3> QED BY <3>1, <3>2, <1>1 DEF ApiState
    <2>3. ~StartListening
        BY <1>1 DEF StartListening
    <2>4. CASE Next
        <3>1. api' = api \/ DecryptKey \/ StartListening
            BY <2>4 DEF Next, StrategyCreate, EndCreate, AdminClose, ShowTrade, TokenCall,
                        CreateCall, CloseCall
        <3> QED BY <3>1, <2>1, <2>2, <2>3
    <2> QED BY <1>1, <2>1, <2>4 DEF vars
<1>2. Inv /\ [Next]_vars => [api.fired /\ ~api.listening => ~api'.listening]_vars
    BY <1>1
<1> QED BY <1>2, InvHolds, PTL DEF Spec, OnceDeafAlwaysDeaf

\* Only the calls of the token and of the splitter move tokens.
LEMMA OnlyTokenCallsMove ==
    ASSUME Inv, [Next]_vars
    PROVE  TokenCall \/ UNCHANGED balanceOf
<1>1. CASE CreateCall \/ CloseCall
    BY <1>1, CreateCallKeeps, CloseCallKeeps
<1>2. CASE DecryptKey \/ StartListening
    BY <1>2 DEF DecryptKey, StartListening
<1>3. ASSUME NEW o \in Orders, NEW n \in Amounts, StrategyCreate(o, n)
      PROVE  UNCHANGED balanceOf
    BY <1>3, NoTradeCreated DEF StrategyCreate, chain
<1>4. ASSUME NEW o \in Orders, EndCreate(o) PROVE UNCHANGED balanceOf
    BY <1>4 DEF EndCreate
<1>5. ASSUME NEW i \in 1..MaxTrades, NEW outcome \in {"Completed", "Cancelled"},
             AdminClose(i, outcome)
      PROVE  UNCHANGED balanceOf
    <2>1. \/ UNCHANGED chain
          \/ i \in DOMAIN trades /\ CloseTrade(Api, i, outcome)
        BY <1>5 DEF AdminClose, CompleteTrade, CancelTrade
    <2>2. DOMAIN trades = 1..Len(trades)
        BY DEF Inv, ChainInv, ChainTypeOK
    <2> QED BY <2>1, <2>2, ClosedIsCancelled DEF Inv, chain
<1>6. CASE UNCHANGED vars \/ \E i \in 1..MaxTrades : ShowTrade(i)
    BY <1>6, ShowTradeKeeps DEF vars
<1> QED BY <1>1, <1>2, <1>3, <1>4, <1>5, <1>6 DEF Next

\* No call of any contract, by anybody, takes tokens out of the escrow.
THEOREM EscrowOnlyGains == Spec => TokensStayInEscrow
<1>1. ASSUME Inv, [Next]_vars PROVE balanceOf'[Escrow] >= balanceOf[Escrow]
    <2>1. balanceOf[Escrow] \in Nat
        BY <1>1, KnownAddresses DEF Inv, ChainInv, ChainTypeOK
    <2>2. CASE UNCHANGED balanceOf
        BY <2>1, <2>2
    <2>3. CASE TokenCall
        BY <2>3, <1>1, TokenCallKeeps DEF Inv
    <2> QED BY <1>1, <2>2, <2>3, OnlyTokenCallsMove
<1>2. Inv /\ [Next]_vars => [balanceOf'[Escrow] >= balanceOf[Escrow]]_chain
    BY <1>1
<1> QED BY <1>2, InvHolds, PTL DEF Spec, TokensStayInEscrow

-----------------------------------------------------------------------------
(* The supply.                                                             *)

LEMMA AccountsFinite == IsFiniteSet(Accounts)
<1> DEFINE one == {} \cup {Escrow}
           two == one \cup {Splitter}
<1>1. IsFiniteSet(one)
    BY FS_EmptySet, FS_AddElement
<1> HIDE DEF one
<1>2. IsFiniteSet(two)
    BY <1>1, FS_AddElement
<1> HIDE DEF two
<1>3. IsFiniteSet(two \cup {Token})
    BY <1>2, FS_AddElement
<1>4. {Escrow, Splitter, Token} = two \cup {Token}
    BY DEF one, two
<1> QED BY <1>3, <1>4, PeopleAssumption, FS_Union DEF Accounts

\* What is taken from one is given to the other, who may be the same.
LEMMA MovedConserves ==
    ASSUME NEW b \in [Accounts -> Nat], NEW from \in Accounts, NEW to \in Accounts,
           NEW n \in Nat, b[from] >= n
    PROVE  SumFunctionOnSet(Moved(b, from, to, n), Accounts) = SumFunctionOnSet(b, Accounts)
<1> DEFINE c == [b EXCEPT ![from] = @ - n]
           d == [c EXCEPT ![to] = @ + n]
<1>1. /\ c \in [Accounts -> Nat] /\ c[from] = b[from] + (0 - n)
      /\ \A a \in Accounts \ {from} : c[a] = b[a]
    OBVIOUS
<1>2. Moved(b, from, to, n) = d
    BY DEF Moved
<1> HIDE DEF c
<1>3. d[to] = c[to] + n /\ \A a \in Accounts \ {to} : d[a] = c[a]
    BY <1>1
<1> HIDE DEF d
<1>4. SumFunctionOnSet(b, Accounts) \in Int
    <2>1. \A a \in Accounts : b[a] \in Int
        OBVIOUS
    <2> QED BY <2>1, AccountsFinite, SumType
<1>5. SumFunctionOnSet(c, Accounts) = SumFunctionOnSet(b, Accounts) + (0 - n)
    <2>1. 0 - n \in Int /\ \A a \in Accounts : b[a] \in Int
        OBVIOUS
    <2> QED BY <2>1, <1>1, AccountsFinite, SumChange
<1>6. SumFunctionOnSet(d, Accounts) = SumFunctionOnSet(c, Accounts) + n
    <2>1. n \in Int /\ \A a \in Accounts : c[a] \in Int
        BY <1>1
    <2> QED BY <2>1, <1>3, AccountsFinite, SumChange
<1> QED BY <1>2, <1>4, <1>5, <1>6

\* Every call of the token and of the splitter is one such move or two.
LEMMA TokenCallConserves ==
    ASSUME ChainInv, TokenCall, SupplyIsConserved
    PROVE  SupplyIsConserved'
<1>1. balanceOf \in [Accounts -> Nat]
    BY DEF ChainInv, ChainTypeOK
<1>2. Others \subseteq Accounts /\ \A n \in Amounts : n \in Nat
    BY KnownAddresses, TokenEscrowAssumption DEF Others
<1>3. ASSUME NEW from \in Accounts, NEW to \in Accounts, NEW n \in Nat, balanceOf[from] >= n,
             balanceOf' = Moved(balanceOf, from, to, n)
      PROVE  SupplyIsConserved'
    BY <1>1, <1>3, MovedConserves DEF SupplyIsConserved
<1>4. ASSUME NEW s \in Others, NEW a \in Accounts, NEW n \in Amounts, Transfer(s, a, n)
      PROVE  SupplyIsConserved'
    BY <1>2, <1>3, <1>4 DEF Transfer
<1>5. ASSUME NEW s \in Others, NEW a \in Others, NEW n \in Amounts, Approve(s, a, n)
      PROVE  SupplyIsConserved'
    BY <1>5 DEF Approve, SupplyIsConserved
<1>6. ASSUME NEW s \in Others, NEW from \in Accounts, NEW a \in Accounts, NEW n \in Amounts,
             TransferFrom(s, from, a, n)
      PROVE  SupplyIsConserved'
    BY <1>2, <1>3, <1>6 DEF TransferFrom
<1>7. ASSUME NEW s \in Others, ClaimAirdrop(s) PROVE SupplyIsConserved'
    BY <1>2, <1>3, <1>7, KnownAddresses, TokenEscrowAssumption DEF ClaimAirdrop
<1>8. ASSUME NEW n \in Amounts, ReceiveFee(n) PROVE SupplyIsConserved'
    <2>1. PICK share \in Nat : share = (n * 20) \div 100
        BY <1>2
    <2>2. PICK once : once = Moved(balanceOf, Splitter, Deployer, share)
        OBVIOUS
    <2>3. /\ balanceOf[Splitter] >= share /\ once[Splitter] >= share
          /\ balanceOf' = Moved(once, Splitter, Deployer, share)
        BY <1>8, <2>1, <2>2 DEF ReceiveFee
    <2>4. /\ once \in [Accounts -> Nat]
          /\ SumFunctionOnSet(once, Accounts) = SumFunctionOnSet(balanceOf, Accounts)
        BY <1>1, <2>2, <2>3, MovedKeeps, MovedConserves, KnownAddresses
    <2>5. SumFunctionOnSet(balanceOf', Accounts) = SumFunctionOnSet(once, Accounts)
        BY <2>3, <2>4, MovedConserves, KnownAddresses
    <2> QED BY <2>4, <2>5 DEF SupplyIsConserved
<1> QED BY <1>4, <1>5, <1>6, <1>7, <1>8 DEF TokenCall

\* The supply is the deployer's and the splitter's at first.
LEMMA InitSupply == ChainInit => SupplyIsConserved
<1> SUFFICES ASSUME ChainInit PROVE SupplyIsConserved
    OBVIOUS
<1> DEFINE z == [a \in Accounts |-> 0]
           d == [a \in Accounts |-> IF a = Deployer THEN Supply - Grant ELSE 0]
<1>1. /\ Supply - Grant \in Int /\ Grant \in Int /\ Supply = (0 + (Supply - Grant)) + Grant
      /\ Deployer # Splitter
    BY TokenEscrowAssumption
<1>2. SumFunctionOnSet(z, Accounts) = 0
    BY AccountsFinite, SumZero
<1>3. SumFunctionOnSet(d, Accounts) = SumFunctionOnSet(z, Accounts) + (Supply - Grant)
    <2>1. /\ \A a \in Accounts : z[a] \in Int
          /\ d[Deployer] = z[Deployer] + (Supply - Grant)
          /\ \A a \in Accounts \ {Deployer} : d[a] = z[a]
        BY <1>1, KnownAddresses
    <2> HIDE DEF z, d
    <2> QED BY <1>1, <2>1, AccountsFinite, KnownAddresses, SumChange
<1>4. SumFunctionOnSet(balanceOf, Accounts) = SumFunctionOnSet(d, Accounts) + Grant
    <2>1. /\ \A a \in Accounts : d[a] \in Int
          /\ balanceOf[Splitter] = d[Splitter] + Grant
          /\ \A a \in Accounts \ {Splitter} : balanceOf[a] = d[a]
        BY <1>1, KnownAddresses DEF ChainInit
    <2> HIDE DEF d
    <2> QED BY <1>1, <2>1, AccountsFinite, KnownAddresses, SumChange
<1> HIDE DEF z, d
<1> QED BY <1>1, <1>2, <1>3, <1>4 DEF SupplyIsConserved

\* No call of any contract, by anybody, creates or destroys tokens.
THEOREM SupplyConserved == Spec => []SupplyIsConserved
<1>1. Init => SupplyIsConserved
    BY InitSupply DEF Init
<1>2. SupplyIsConserved /\ Inv /\ [Next]_vars => SupplyIsConserved'
    <2> SUFFICES ASSUME SupplyIsConserved, Inv, [Next]_vars PROVE SupplyIsConserved'
        OBVIOUS
    <2>1. CASE UNCHANGED balanceOf
        BY <2>1 DEF SupplyIsConserved
    <2>2. CASE TokenCall
        BY <2>2, TokenCallConserves DEF Inv
    <2> QED BY <2>1, <2>2, OnlyTokenCallsMove
<1> QED BY <1>1, <1>2, InvHolds, PTL DEF Spec

-----------------------------------------------------------------------------
(* The wallet.                                                             *)

GoodTransaction(t) ==
    /\ t.confirmations = Cardinality(t.isConfirmed)
    /\ t.executed \/ (t.value = 0 /\ t.confirmations < Required)

GoodPayment(p) == p.value > 0 => p.value < p.threshold /\ p.confirmations = 0

Good(w) ==
    /\ w \in Storage
    /\ Cardinality(w.owners) >= Required
    /\ \A id \in Ids : GoodTransaction(w.transactions[id])
    /\ \A id \in Ids : id >= w.transactionCount => w.transactions[id].isConfirmed = {}
    /\ \A p \in w.payments : GoodPayment(p)

WalletInv ==
    /\ Good(wallet)
    /\ calls \in Seq(Frame)
    /\ \A k \in 1..Len(calls) : Good(calls[k].saved)

-----------------------------------------------------------------------------
(* The fields the updates of the storage leave.                            *)

Edited(w, id, t) == [w EXCEPT !.transactions[id] = t]

LEMMA WithTransaction ==
    ASSUME NEW w \in Storage, NEW id \in Ids, NEW t \in Transaction, NEW x,
           x = Edited(w, id, t)
    PROVE  /\ x \in Storage /\ x.owners = w.owners /\ x.threshold = w.threshold
           /\ x.transactionCount = w.transactionCount /\ x.balance = w.balance
           /\ x.payments = w.payments
           /\ x.transactions[id] = t
           /\ \A i \in Ids \ {id} : x.transactions[i] = w.transactions[i]
<1>1. w.transactions \in [Ids -> Transaction]
    BY DEF Storage
<1>2. PICK ts \in [Ids -> Transaction] : ts = [w.transactions EXCEPT ![id] = t]
    BY <1>1
<1>3. x = [w EXCEPT !.transactions = ts]
    BY <1>2 DEF Edited
<1>4. /\ x \in Storage /\ x.owners = w.owners /\ x.threshold = w.threshold
      /\ x.transactionCount = w.transactionCount /\ x.balance = w.balance
      /\ x.payments = w.payments /\ x.transactions = ts
    BY <1>3 DEF Storage
<1> QED BY <1>1, <1>2, <1>4

\* The storage x is w with a new, unsigned transaction of value v at id.
Submitted(x, w, id, v) ==
    /\ x \in Storage /\ x.owners = w.owners /\ x.threshold = w.threshold
    /\ x.transactionCount = w.transactionCount /\ x.balance = w.balance
    /\ x.payments = w.payments
    /\ x.transactions[id].value = v
    /\ x.transactions[id].confirmations = 0
    /\ x.transactions[id].isConfirmed = {}
    /\ \A i \in Ids \ {id} : x.transactions[i] = w.transactions[i]

LEMMA StoredGood ==
    ASSUME NEW w, Good(w), NEW id \in Ids, id = w.transactionCount, NEW to \in Addresses,
           NEW v, v \in Nat
    PROVE  Submitted(Stored(w, id, to, v), w, id, v)
<1> DEFINE x == Stored(w, id, to, v)
<1> DEFINE t == [to |-> to, value |-> v, executed |-> FALSE, confirmations |-> 0,
                 isConfirmed |-> w.transactions[id].isConfirmed]
<1>1. w \in Storage /\ w.transactionCount \in Nat /\ w.transactions[id].isConfirmed = {}
    BY DEF Good, Storage
<1>2. t \in Transaction
    <2>1. w.transactions[id] \in Transaction
        BY <1>1 DEF Storage
    <2>2. w.transactions[id].isConfirmed \in SUBSET Addresses
        BY <2>1 DEF Transaction
    <2> QED BY <2>2 DEF Transaction
<1>3. x = Edited(w, id, t)
    BY DEF Stored, Edited
<1>4. /\ t.value = v /\ t.confirmations = 0 /\ t.isConfirmed = {}
    BY <1>1
<1> HIDE DEF t, x
<1>5. Submitted(x, w, id, v)
    BY <1>1, <1>2, <1>3, <1>4, WithTransaction DEF Submitted
<1> QED BY <1>5 DEF x

LEMMA SignedGood ==
    ASSUME NEW w, Good(w), NEW id \in Ids, NEW s \in Addresses,
           s \notin w.transactions[id].isConfirmed, NEW x, x = Signed(w, s, id)
    PROVE  /\ x \in Storage /\ x.owners = w.owners /\ x.threshold = w.threshold
           /\ x.transactionCount = w.transactionCount /\ x.balance = w.balance
           /\ x.payments = w.payments
           /\ x.transactions[id].value = w.transactions[id].value
           /\ x.transactions[id].executed = w.transactions[id].executed
           /\ x.transactions[id].confirmations = Cardinality(x.transactions[id].isConfirmed)
           /\ \A i \in Ids \ {id} : x.transactions[i] = w.transactions[i]
<1>1. w \in Storage
    BY DEF Good
<1>2. PICK o \in Transaction : o = w.transactions[id]
    BY <1>1 DEF Storage
<1>3. PICK a \in Transaction : a = [o EXCEPT !.isConfirmed = @ \cup {s}]
    <2>1. [o EXCEPT !.isConfirmed = @ \cup {s}] \in Transaction
        BY DEF Transaction
    <2> QED BY <2>1
<1>4. PICK t \in Transaction : t = [a EXCEPT !.confirmations = @ + 1]
    <2>1. [a EXCEPT !.confirmations = @ + 1] \in Transaction
        BY DEF Transaction
    <2> QED BY <2>1
<1>5. /\ a.confirmations = o.confirmations /\ a.value = o.value /\ a.executed = o.executed
      /\ a.isConfirmed = o.isConfirmed \cup {s}
    BY <1>3 DEF Transaction
<1>6. /\ t.confirmations = a.confirmations + 1 /\ t.value = a.value
      /\ t.executed = a.executed /\ t.isConfirmed = a.isConfirmed
    BY <1>4 DEF Transaction
<1>7. x = Edited(w, id, t)
    <2>1. a = [o EXCEPT !.isConfirmed = o.isConfirmed \cup {s}]
        BY <1>3
    <2>2. t = [a EXCEPT !.confirmations = o.confirmations + 1]
        BY <1>4, <1>5
    <2>3. Countersigned(o, s) = [[o EXCEPT !.isConfirmed = o.isConfirmed \cup {s}]
                                    EXCEPT !.confirmations = o.confirmations + 1]
        BY DEF Countersigned
    <2>4. Countersigned(o, s) = t
        BY <2>1, <2>2, <2>3, Zenon
    <2>5. x = Edited(w, id, Countersigned(w.transactions[id], s))
        BY DEF Signed, Edited
    <2> QED BY <2>4, <2>5, <1>2
<1>8. o.confirmations = Cardinality(o.isConfirmed) /\ s \notin o.isConfirmed
    BY <1>2 DEF Good, GoodTransaction
<1>9. IsFiniteSet(o.isConfirmed)
    BY <1>2, FS_Subset, WalletAssumption DEF Transaction
<1>10. Cardinality(o.isConfirmed \cup {s}) = Cardinality(o.isConfirmed) + 1
    BY <1>8, <1>9, FS_AddElement
<1>11. t.confirmations = Cardinality(t.isConfirmed)
    BY <1>5, <1>6, <1>8, <1>10
<1>12. /\ x \in Storage /\ x.owners = w.owners /\ x.threshold = w.threshold
       /\ x.transactionCount = w.transactionCount /\ x.balance = w.balance
       /\ x.payments = w.payments /\ x.transactions[id] = t
       /\ \A i \in Ids \ {id} : x.transactions[i] = w.transactions[i]
    BY <1>1, <1>7, WithTransaction, SMTT(60)
<1> QED BY <1>2, <1>5, <1>6, <1>11, <1>12

LEMMA PaidGood ==
    ASSUME NEW w \in Storage, NEW id \in Ids, NEW x, x = Paid(w, id),
           w.transactions[id].value <= w.balance,
           w.transactions[id].confirmations = Cardinality(w.transactions[id].isConfirmed),
           w.transactions[id].value > 0 =>
             w.transactions[id].value < w.threshold /\ w.transactions[id].confirmations = 0,
           \A p \in w.payments : GoodPayment(p)
    PROVE  /\ x \in Storage /\ x.owners = w.owners
           /\ x.transactionCount = w.transactionCount
           /\ GoodTransaction(x.transactions[id])
           /\ x.transactions[id].isConfirmed = w.transactions[id].isConfirmed
           /\ \A i \in Ids \ {id} : x.transactions[i] = w.transactions[i]
           /\ \A p \in x.payments : GoodPayment(p)
<1> DEFINE p == [value |-> w.transactions[id].value, threshold |-> w.threshold,
                 confirmations |-> w.transactions[id].confirmations]
<1>1. PICK o \in Transaction : o = w.transactions[id]
    BY DEF Storage
<1>2. PICK t \in Transaction : t = [o EXCEPT !.executed = TRUE]
    <2>1. [o EXCEPT !.executed = TRUE] \in Transaction
        BY DEF Transaction
    <2> QED BY <2>1
<1>3. /\ t.executed = TRUE /\ t.confirmations = o.confirmations /\ t.value = o.value
      /\ t.isConfirmed = o.isConfirmed
    BY <1>2 DEF Transaction
<1>4. /\ p \in Payment /\ p.value = o.value /\ p.threshold = w.threshold
      /\ p.confirmations = o.confirmations
    BY <1>1 DEF Payment, Storage, Transaction
<1>5. GoodPayment(p)
    BY <1>1, <1>4 DEF GoodPayment
<1> HIDE DEF p
<1>6. PICK y \in Storage :
        /\ y = Edited(w, id, t) /\ y.owners = w.owners
        /\ y.transactionCount = w.transactionCount /\ y.balance = w.balance
        /\ y.payments = w.payments /\ y.transactions[id] = t
        /\ \A i \in Ids \ {id} : y.transactions[i] = w.transactions[i]
    BY WithTransaction, SMTT(60)
<1>7. PICK z \in Storage : z = [y EXCEPT !.balance = w.balance - o.value]
    <2>1. w.balance - o.value \in Nat
        BY <1>1 DEF Storage, Transaction
    <2>2. [y EXCEPT !.balance = w.balance - o.value] \in Storage
        BY <2>1 DEF Storage
    <2> QED BY <2>2
<1>8. /\ z.owners = y.owners /\ z.transactionCount = y.transactionCount
      /\ z.payments = y.payments /\ z.transactions = y.transactions
    BY <1>7 DEF Storage
<1>9. PICK u \in Storage : u = [z EXCEPT !.payments = w.payments \cup {p}]
    <2>1. w.payments \cup {p} \in SUBSET Payment
        BY <1>4 DEF Storage
    <2>2. [z EXCEPT !.payments = w.payments \cup {p}] \in Storage
        BY <2>1 DEF Storage
    <2> QED BY <2>2
<1>10. /\ u.owners = z.owners /\ u.transactionCount = z.transactionCount
       /\ u.payments = w.payments \cup {p} /\ u.transactions = z.transactions
    BY <1>9 DEF Storage
<1>11. x = u
    <2>1. y = [w EXCEPT !.transactions[id].executed = TRUE]
        BY <1>1, <1>2, <1>6 DEF Edited
    <2>2. z = [[w EXCEPT !.transactions[id].executed = TRUE] EXCEPT
                  !.balance = w.balance - w.transactions[id].value]
        BY <2>1, <1>1, <1>7
    <2>3. u = [[[w EXCEPT !.transactions[id].executed = TRUE] EXCEPT
                   !.balance = w.balance - w.transactions[id].value] EXCEPT
                   !.payments = w.payments \cup {p}]
        BY <2>2, <1>9
    <2> QED BY <2>3, Zenon DEF Paid, p
<1> QED BY <1>1, <1>3, <1>5, <1>6, <1>8, <1>10, <1>11 DEF GoodTransaction

LEMMA CountedGood ==
    ASSUME NEW w, Good(w), NEW b \in BOOLEAN
    PROVE  Good(Counted(w, b))
<1>1. w \in Storage /\ w.transactionCount \in Nat /\ Ids \subseteq Nat
    BY WalletAssumption DEF Good, Storage
<1>2. PICK n \in Nat : n = (IF b THEN w.transactionCount + 1 ELSE w.transactionCount)
                         /\ n >= w.transactionCount
    BY <1>1
<1>3. PICK x \in Storage : x = [w EXCEPT !.transactionCount = n]
    <2>1. [w EXCEPT !.transactionCount = n] \in Storage
        BY <1>1 DEF Storage
    <2> QED BY <2>1
<1>4. /\ x.owners = w.owners /\ x.transactions = w.transactions /\ x.payments = w.payments
      /\ x.transactionCount = n
    BY <1>1, <1>3 DEF Storage
<1>5. Counted(w, b) = x
    BY <1>2, <1>3 DEF Counted
<1>6. \A id \in Ids : id >= n => id >= w.transactionCount
    BY <1>1, <1>2
<1>7. Good(x)
    BY <1>4, <1>6 DEF Good
<1> QED BY <1>5, <1>7

-----------------------------------------------------------------------------
(* One lemma per action.                                                   *)

\* Control passes to the receiver, or returns at once, with a good storage.
LEMMA ExecuteKeeps ==
    ASSUME WalletInv, NEW w \in Storage, NEW id \in Ids, NEW b \in BOOLEAN,
           ExecuteTransaction(w, id, b),
           Cardinality(w.owners) >= Required,
           w.transactions[id].confirmations = Cardinality(w.transactions[id].isConfirmed),
           w.transactions[id].value > 0 =>
             w.transactions[id].value < w.threshold /\ w.transactions[id].confirmations = 0,
           \A i \in Ids \ {id} : GoodTransaction(w.transactions[i]),
           \A i \in Ids : i >= w.transactionCount => w.transactions[i].isConfirmed = {},
           \A p \in w.payments : GoodPayment(p)
    PROVE  WalletInv'
<1> DEFINE x == Paid(w, id)
<1>1. w.transactions[id].value <= w.balance
    BY DEF ExecuteTransaction
<1>2. /\ x \in Storage /\ x.owners = w.owners
      /\ x.transactionCount = w.transactionCount
      /\ GoodTransaction(x.transactions[id])
      /\ x.transactions[id].isConfirmed = w.transactions[id].isConfirmed
      /\ \A i \in Ids \ {id} : x.transactions[i] = w.transactions[i]
      /\ \A p \in x.payments : GoodPayment(p)
    BY <1>1, PaidGood
<1> HIDE DEF x
<1>3. \A i \in Ids : GoodTransaction(x.transactions[i])
    BY <1>2
<1>4. \A i \in Ids : i >= x.transactionCount => x.transactions[i].isConfirmed = {}
    BY <1>2
<1>5. Good(x)
    BY <1>2, <1>3, <1>4 DEF Good
<1>6. CASE wallet' = x /\ calls' = Append(calls, [saved |-> wallet, submits |-> b])
    <2> DEFINE f == [saved |-> wallet, submits |-> b]
    <2>1. f \in Frame /\ Good(f.saved) /\ calls \in Seq(Frame)
        BY DEF Frame, WalletInv, Good
    <2> HIDE DEF f
    <2>2. calls' = Append(calls, f)
        BY <1>6 DEF f
    <2>3. /\ calls' \in Seq(Frame) /\ Len(calls') = Len(calls) + 1
          /\ calls'[Len(calls) + 1] = f
          /\ \A k \in 1..Len(calls) : calls'[k] = calls[k]
        BY <2>1, <2>2
    <2>4. \A k \in 1..Len(calls') : Good(calls'[k].saved)
        BY <2>1, <2>3 DEF WalletInv
    <2> QED BY <1>5, <1>6, <2>3, <2>4 DEF WalletInv, Good, GoodTransaction, GoodPayment
<1>7. CASE wallet' = Counted(x, b) /\ UNCHANGED calls
    <2>1. Good(Counted(x, b))
        BY <1>5, CountedGood
    <2> QED BY <2>1, <1>7 DEF WalletInv, Good, GoodTransaction, GoodPayment
<1> QED BY <1>6, <1>7 DEF ExecuteTransaction, x

LEMMA SubmitKeeps ==
    ASSUME WalletInv, NEW s \in Addresses, NEW to \in Addresses, NEW v \in Values,
           SubmitTransaction(s, to, v)
    PROVE  WalletInv'
<1>1. PICK id \in Ids : id = wallet.transactionCount
    BY DEF SubmitTransaction
<1>2. PICK x : x = Stored(wallet, id, to, v)
    OBVIOUS
<1>3. /\ v < wallet.threshold \/ MayConfirm(x, s, id)
      /\ v < wallet.threshold => ExecuteTransaction(x, id, TRUE)
    BY <1>1, <1>2 DEF SubmitTransaction
<1>4. Good(wallet) /\ v \in Nat /\ id \in Nat
    BY WalletAssumption DEF WalletInv
<1>5. /\ x \in Storage /\ x.owners = wallet.owners /\ x.threshold = wallet.threshold
      /\ x.transactionCount = wallet.transactionCount /\ x.balance = wallet.balance
      /\ x.payments = wallet.payments
      /\ x.transactions[id].value = v /\ x.transactions[id].confirmations = 0
      /\ x.transactions[id].isConfirmed = {}
      /\ \A i \in Ids \ {id} : x.transactions[i] = wallet.transactions[i]
    <2>1. Submitted(Stored(wallet, id, to, v), wallet, id, v)
        BY <1>1, <1>4, StoredGood
    <2> QED BY <2>1, <1>2 DEF Submitted
\* confirmTransaction finds the transaction not yet counted.
<1>6. ~MayConfirm(x, s, id)
    BY <1>1, <1>4, <1>5 DEF MayConfirm
<1>7. v < wallet.threshold /\ ExecuteTransaction(x, id, TRUE)
    BY <1>3, <1>6
<1>8. \A i \in Ids \ {id} : GoodTransaction(x.transactions[i])
    BY <1>4, <1>5 DEF Good
<1>9. \A i \in Ids : i >= x.transactionCount => x.transactions[i].isConfirmed = {}
    BY <1>4, <1>5 DEF Good
<1>10. Cardinality(x.owners) >= Required /\ \A p \in x.payments : GoodPayment(p)
    BY <1>4, <1>5 DEF Good
<1>11. x.transactions[id].confirmations = Cardinality(x.transactions[id].isConfirmed)
    BY <1>5, FS_EmptySet
<1> QED BY <1>5, <1>7, <1>8, <1>9, <1>10, <1>11, ExecuteKeeps

LEMMA ConfirmKeeps ==
    ASSUME WalletInv, NEW s \in Addresses, NEW id \in Ids, ConfirmTransaction(s, id)
    PROVE  WalletInv'
<1> DEFINE x == Signed(wallet, s, id)
<1>1. /\ Good(wallet) /\ id < wallet.transactionCount /\ ~wallet.transactions[id].executed
      /\ s \notin wallet.transactions[id].isConfirmed
    BY DEF WalletInv, ConfirmTransaction, MayConfirm
<1>2. /\ x \in Storage /\ x.owners = wallet.owners /\ x.threshold = wallet.threshold
      /\ x.transactionCount = wallet.transactionCount /\ x.balance = wallet.balance
      /\ x.payments = wallet.payments
      /\ x.transactions[id].value = wallet.transactions[id].value
      /\ x.transactions[id].executed = wallet.transactions[id].executed
      /\ x.transactions[id].confirmations = Cardinality(x.transactions[id].isConfirmed)
      /\ \A i \in Ids \ {id} : x.transactions[i] = wallet.transactions[i]
    BY <1>1, SignedGood
<1>3. x.transactions[id].value = 0
    BY <1>1, <1>2 DEF Good, GoodTransaction
<1>4. wallet.transactionCount \in Nat /\ id \in Nat
    BY <1>1, WalletAssumption DEF Good, Storage
<1>5. \A i \in Ids \ {id} : GoodTransaction(x.transactions[i])
    BY <1>1, <1>2 DEF Good
<1>6. \A i \in Ids : i >= x.transactionCount => x.transactions[i].isConfirmed = {}
    BY <1>1, <1>2, <1>4 DEF Good
<1>7. Cardinality(x.owners) >= Required /\ \A p \in x.payments : GoodPayment(p)
    BY <1>1, <1>2 DEF Good
<1>8. CASE Enough(x, id)
    <2>1. ExecuteTransaction(x, id, FALSE)
        BY <1>8 DEF ConfirmTransaction
    <2> HIDE DEF x
    <2>2. ~(x.transactions[id].value > 0)
        BY <1>3
    <2> QED BY <2>1, <2>2, <1>2, <1>5, <1>6, <1>7, ExecuteKeeps
<1>9. CASE ~Enough(x, id)
    <2>1. wallet' = x /\ UNCHANGED calls
        BY <1>9 DEF ConfirmTransaction
    <2>2. x.transactions[id].confirmations \in Nat /\ Required \in Nat
        BY <1>2, WalletAssumption DEF Storage, Transaction
    <2> HIDE DEF x
    <2>3. GoodTransaction(x.transactions[id])
        BY <1>2, <1>3, <1>9, <2>2 DEF GoodTransaction, Enough
    <2>4. Good(x)
        BY <2>3, <1>2, <1>5, <1>6, <1>7 DEF Good
    <2> QED BY <2>1, <2>4 DEF WalletInv, Good, GoodTransaction, GoodPayment
<1> QED BY <1>8, <1>9

LEMMA SubSeqKeeps ==
    ASSUME WalletInv, calls # <<>>, calls' = SubSeq(calls, 1, Len(calls) - 1)
    PROVE  calls' \in Seq(Frame) /\ \A k \in 1..Len(calls') : Good(calls'[k].saved)
<1>1. PICK n \in Nat : Len(calls) = n + 1
    <2>1. calls \in Seq(Frame) /\ Len(calls) \in Nat /\ Len(calls) > 0
        BY DEF WalletInv
    <2>2. Len(calls) - 1 \in Nat /\ Len(calls) = (Len(calls) - 1) + 1
        BY <2>1
    <2> QED BY <2>2
<1>2. /\ calls' \in Seq(Frame) /\ Len(calls') = n
      /\ \A k \in 1..n : calls'[k] = calls[k]
    <2>1. \A k \in 1..n : calls[k] \in Frame
        BY <1>1 DEF WalletInv
    <2>2. calls' = SubSeq(calls, 1, n)
        BY <1>1
    <2> QED BY <2>1, <2>2, SubSeqProperties
<1> QED BY <1>1, <1>2 DEF WalletInv

LEMMA ReturnKeeps ==
    ASSUME WalletInv, Return
    PROVE  WalletInv'
<1>1. calls \in Seq(Frame) /\ calls # <<>>
    BY DEF WalletInv, Return
<1>2. Waiting \in Frame
    BY <1>1 DEF Waiting
<1>3. Waiting.submits \in BOOLEAN
    BY <1>2 DEF Frame
<1>4. Good(Counted(wallet, Waiting.submits))
    BY <1>3, CountedGood DEF WalletInv
<1>5. Good(wallet')
    BY <1>4 DEF Return
<1>6. calls' \in Seq(Frame) /\ \A k \in 1..Len(calls') : Good(calls'[k].saved)
    BY <1>1, SubSeqKeeps DEF Return
<1> QED BY <1>5, <1>6 DEF WalletInv, Good, GoodTransaction, GoodPayment

LEMMA RevertKeeps ==
    ASSUME WalletInv, Revert
    PROVE  WalletInv'
<1>1. calls \in Seq(Frame) /\ calls # <<>>
    BY DEF WalletInv, Revert
<1>2. Good(Waiting.saved)
    <2>1. Len(calls) \in 1..Len(calls)
        BY <1>1
    <2> QED BY <2>1 DEF Waiting, WalletInv
<1>3. Good(wallet')
    BY <1>2 DEF Revert
<1>4. calls' \in Seq(Frame) /\ \A k \in 1..Len(calls') : Good(calls'[k].saved)
    BY <1>1, SubSeqKeeps DEF Revert
<1> QED BY <1>3, <1>4 DEF WalletInv, Good, GoodTransaction, GoodPayment

\* What owners do to the storage besides payments leaves transactions and payments alone.
LEMMA OtherKeeps ==
    ASSUME WalletInv, NEW x \in Storage, wallet' = x, UNCHANGED calls,
           Cardinality(x.owners) >= Required, x.transactions = wallet.transactions,
           x.transactionCount = wallet.transactionCount, x.payments = wallet.payments
    PROVE  WalletInv'
<1>1. Good(x)
    BY DEF WalletInv, Good
<1> QED BY <1>1 DEF WalletInv, Good, GoodTransaction, GoodPayment

LEMMA OwnersKeep ==
    ASSUME WalletInv, NEW s \in Addresses, NEW o \in Addresses, AddOwner(s, o) \/ RemoveOwner(s, o)
    PROVE  WalletInv'
<1>1. /\ wallet \in Storage /\ wallet.owners \in SUBSET Addresses
      /\ Cardinality(wallet.owners) >= Required
    BY DEF WalletInv, Good, Storage
<1>2. IsFiniteSet(wallet.owners) /\ Cardinality(wallet.owners) \in Nat /\ Required \in Nat
    BY <1>1, FS_Subset, FS_CardinalityType, WalletAssumption
<1>3. ASSUME NEW os \in SUBSET Addresses, wallet' = [wallet EXCEPT !.owners = os],
             Cardinality(os) >= Required, UNCHANGED calls
      PROVE  WalletInv'
    <2>1. PICK x \in Storage : x = [wallet EXCEPT !.owners = os]
        <3>1. [wallet EXCEPT !.owners = os] \in Storage
            BY <1>1 DEF Storage
        <3> QED BY <3>1
    <2>2. /\ x.owners = os /\ x.transactions = wallet.transactions
          /\ x.transactionCount = wallet.transactionCount /\ x.payments = wallet.payments
        BY <1>1, <2>1 DEF Storage
    <2> QED BY <1>3, <2>1, <2>2, OtherKeeps
<1>4. CASE AddOwner(s, o)
    <2>1. Cardinality(wallet.owners \cup {o}) = Cardinality(wallet.owners) + 1
        BY <1>2, <1>4, FS_AddElement DEF AddOwner
    <2>2. Cardinality(wallet.owners \cup {o}) >= Required
        BY <1>1, <1>2, <2>1
    <2> QED BY <1>1, <1>3, <1>4, <2>2 DEF AddOwner
<1>5. CASE RemoveOwner(s, o)
    <2>1. Cardinality(wallet.owners \ {o}) = Cardinality(wallet.owners) - 1
        BY <1>2, <1>5, FS_RemoveElement DEF RemoveOwner
    <2>2. Cardinality(wallet.owners \ {o}) >= Required
        BY <1>2, <1>5, <2>1 DEF RemoveOwner
    <2> QED BY <1>1, <1>3, <1>5, <2>2 DEF RemoveOwner
<1> QED BY <1>4, <1>5

LEMMA SetThresholdKeeps ==
    ASSUME WalletInv, NEW s \in Addresses, NEW t \in Values, SetThreshold(s, t)
    PROVE  WalletInv'
<1>1. wallet \in Storage /\ Cardinality(wallet.owners) >= Required /\ t \in Nat
    BY WalletAssumption DEF WalletInv, Good
<1>2. PICK x \in Storage : x = [wallet EXCEPT !.threshold = t]
    <2>1. [wallet EXCEPT !.threshold = t] \in Storage
        BY <1>1 DEF Storage
    <2> QED BY <2>1
<1>3. /\ x.owners = wallet.owners /\ x.transactions = wallet.transactions
      /\ x.transactionCount = wallet.transactionCount /\ x.payments = wallet.payments
    BY <1>1, <1>2 DEF Storage
<1> QED BY <1>1, <1>2, <1>3, OtherKeeps DEF SetThreshold

LEMMA ReceiveKeeps ==
    ASSUME WalletInv, NEW v \in Values, Receive(v)
    PROVE  WalletInv'
<1>1. /\ wallet \in Storage /\ Cardinality(wallet.owners) >= Required
      /\ wallet.balance \in Nat /\ v \in Nat
    BY WalletAssumption DEF WalletInv, Good, Storage
<1>2. PICK x \in Storage : x = [wallet EXCEPT !.balance = @ + v]
    <2>1. [wallet EXCEPT !.balance = @ + v] \in Storage
        BY <1>1 DEF Storage
    <2> QED BY <2>1
<1>3. /\ x.owners = wallet.owners /\ x.transactions = wallet.transactions
      /\ x.transactionCount = wallet.transactionCount /\ x.payments = wallet.payments
    BY <1>1, <1>2 DEF Storage
<1> QED BY <1>1, <1>2, <1>3, OtherKeeps DEF Receive

-----------------------------------------------------------------------------
LEMMA WalletInitInv == WalletInit => WalletInv
<1> SUFFICES ASSUME WalletInit PROVE WalletInv
    OBVIOUS
<1>1. PICK t \in Values : wallet = [owners |-> Owners0, threshold |-> t,
                                     transactionCount |-> 0,
                                     transactions |-> [id \in Ids |-> Blank],
                                     balance |-> 0, payments |-> {}]
    BY DEF WalletInit
<1>2. Blank \in Transaction /\ Blank.isConfirmed = {}
    BY DEF Blank, Transaction
<1>3. GoodTransaction(Blank)
    BY FS_EmptySet, WalletAssumption DEF GoodTransaction, Blank
<1>4. wallet \in Storage
    BY <1>1, <1>2, WalletAssumption DEF Storage
<1>5. Cardinality(wallet.owners) >= Required
    <2>1. IsFiniteSet(Owners0)
        BY FS_Subset, WalletAssumption
    <2>2. Cardinality(Owners0) \in Nat
        BY <2>1, FS_CardinalityType
    <2> QED BY <1>1, <2>2, WalletAssumption
<1>6. \A id \in Ids : wallet.transactions[id] = Blank
    BY <1>1
<1>7. Good(wallet)
    BY <1>1, <1>2, <1>3, <1>4, <1>5, <1>6 DEF Good
<1>8. calls = <<>>
    BY DEF WalletInit
<1>9. calls \in Seq(Frame) /\ Len(calls) = 0
    BY <1>8
<1> QED BY <1>7, <1>9 DEF WalletInv

LEMMA WalletNextInv == WalletInv /\ [WalletNext]_walletVars => WalletInv'
<1> SUFFICES ASSUME WalletInv, [WalletNext]_walletVars PROVE WalletInv'
    OBVIOUS
<1>1. CASE UNCHANGED walletVars
    BY <1>1 DEF walletVars, WalletInv, Good, GoodTransaction, GoodPayment
<1>2. ASSUME NEW s \in Addresses, NEW to \in Addresses, NEW v \in Values,
             SubmitTransaction(s, to, v)
      PROVE  WalletInv'
    BY <1>2, SubmitKeeps
<1>3. ASSUME NEW s \in Addresses, NEW id \in Ids, ConfirmTransaction(s, id) PROVE WalletInv'
    BY <1>3, ConfirmKeeps
<1>4. ASSUME NEW s \in Addresses, NEW o \in Addresses, AddOwner(s, o) \/ RemoveOwner(s, o)
      PROVE  WalletInv'
    BY <1>4, OwnersKeep
<1>5. ASSUME NEW s \in Addresses, NEW t \in Values, SetThreshold(s, t) PROVE WalletInv'
    BY <1>5, SetThresholdKeeps
<1>6. ASSUME NEW v \in Values, Receive(v) PROVE WalletInv'
    BY <1>6, ReceiveKeeps
<1>7. CASE Return
    BY <1>7, ReturnKeeps
<1>8. CASE Revert
    BY <1>8, RevertKeeps
<1> QED BY <1>1, <1>2, <1>3, <1>4, <1>5, <1>6, <1>7, <1>8 DEF WalletNext

LEMMA WalletInvHolds == WalletSpec => []WalletInv
BY WalletInitInv, WalletNextInv, PTL DEF WalletSpec

\* The storage and the waiting calls keep their types, through every nesting and revert.
THEOREM WalletTyped == WalletSpec => []TypeOK
<1>1. WalletInv => TypeOK
    BY DEF WalletInv, Good, TypeOK
<1> QED BY <1>1, WalletInvHolds, PTL

\* No signature counts twice, however owners change and submissions nest.
THEOREM SignaturesCountOnce == WalletSpec => []SignaturesMatchCount
<1>1. WalletInv => SignaturesMatchCount
    BY DEF WalletInv, Good, GoodTransaction, SignaturesMatchCount
<1> QED BY <1>1, WalletInvHolds, PTL

\* The owners never become fewer than the signatures required.
THEOREM OwnersSuffice == WalletSpec => []EnoughOwners
<1>1. WalletInv => EnoughOwners
    BY DEF WalletInv, Good, EnoughOwners
<1> QED BY <1>1, WalletInvHolds, PTL

\* No payment from the threshold upwards ever leaves the wallet, and none is ever signed.
THEOREM NoLargePayment == WalletSpec => []LargePaymentsNeverLeave
<1>1. WalletInv => LargePaymentsNeverLeave
    BY DEF WalletInv, Good, GoodPayment, LargePaymentsNeverLeave
<1> QED BY <1>1, WalletInvHolds, PTL

\* Every call of executeTransaction reverts, in every reachable state.
THEOREM NoExecuteTransaction == WalletSpec => []ExecuteTransactionReverts
<1>1. ASSUME WalletInv, NEW s \in Addresses, NEW id \in Ids PROVE ~MayExecute(s, id)
    <2>1. GoodTransaction(wallet.transactions[id])
        BY <1>1 DEF WalletInv, Good
    <2>2. wallet.transactions[id].confirmations \in Nat /\ Required \in Nat
        BY <1>1, WalletAssumption DEF WalletInv, Good, Storage, Transaction
    <2> QED BY <2>1, <2>2 DEF MayExecute, GoodTransaction, Enough
<1>2. WalletInv => ExecuteTransactionReverts
    BY <1>1 DEF ExecuteTransactionReverts
<1> QED BY <1>2, WalletInvHolds, PTL
=============================================================================

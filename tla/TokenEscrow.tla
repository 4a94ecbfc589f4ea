----------------------------- MODULE TokenEscrow -----------------------------
(***************************************************************************)
(* The contracts of the chain but the wallet: PSPBToken, P2PSPBEscrow and  *)
(* P2PSPBFeeSplitter, as scripts/deploy.ts leaves them.  A call is atomic; *)
(* one that reverts is a disabled action.  Rates and times are stored and  *)
(* never read, so that they are left out.                                  *)
(***************************************************************************)
EXTENDS Naturals, Sequences, FiniteSets, Functions

CONSTANTS People,           \* the accounts with a key: they call the contracts
          Deployer,         \* owner of the escrow, treasury and devFund of the splitter
          Escrow, Splitter, Token,  \* the addresses of the contracts
          Supply,           \* 100 million tokens
          Grant,            \* what deploy.ts sends to the splitter "for airdrop"
          Airdrop,          \* 1000 tokens
          Amounts,          \* amounts that are moved or traded
          MaxTrades         \* bound: trades

Accounts == People \cup {Escrow, Splitter, Token}

ASSUME TokenEscrowAssumption ==
    /\ Deployer \in People
    /\ {Escrow, Splitter, Token} \cap People = {}
    /\ Escrow # Splitter /\ Escrow # Token /\ Splitter # Token
    /\ Supply \in Nat /\ Grant \in Nat /\ Grant <= Supply
    /\ Airdrop \in Nat /\ Amounts \subseteq Nat \ {0} /\ MaxTrades \in Nat

\* A sum over the balances has to be one.
ASSUME PeopleAssumption == IsFiniteSet(People)

VARIABLES balanceOf, allowance, trades

chain == <<balanceOf, allowance, trades>>

TradeStatus == {"Created", "Reserved", "PaymentPending", "Paid", "Confirmed",
                "Completed", "Disputed", "Resolved", "Cancelled"}

Trade == [seller: Accounts, buyer: Accounts, amount: Nat, fee: Nat, status: TradeStatus]

ChainInit ==
    /\ balanceOf = [a \in Accounts |-> IF a = Deployer THEN Supply - Grant
                                       ELSE IF a = Splitter THEN Grant ELSE 0]
    /\ allowance = [a \in Accounts |-> [b \in Accounts |-> 0]]
    /\ trades = <<>>

-----------------------------------------------------------------------------
(* PSPBToken *)

\* Mutant: both balances are read before either is written.
BugMoved(b, from, to, amount) ==
    [b EXCEPT ![from] = b[from] - amount, ![to] = b[to] + amount]

\* Taken from one and then given to the other, who may be the same.
Moved(b, from, to, amount) ==
    LET taken == [b EXCEPT ![from] = @ - amount]
    IN  [taken EXCEPT ![to] = @ + amount]

Transfer(s, to, amount) ==
    /\ balanceOf[s] >= amount
    /\ balanceOf' = Moved(balanceOf, s, to, amount)
    /\ UNCHANGED <<allowance, trades>>

Approve(s, spender, amount) ==
    /\ allowance' = [allowance EXCEPT ![s][spender] = amount]
    /\ UNCHANGED <<balanceOf, trades>>

TransferFrom(s, from, to, amount) ==
    /\ allowance[from][s] >= amount
    /\ balanceOf[from] >= amount
    /\ allowance' = [allowance EXCEPT ![from][s] = @ - amount]
    /\ balanceOf' = Moved(balanceOf, from, to, amount)
    /\ UNCHANGED trades

\* What was sent to the token's own address; nobody is refused a second claim.
ClaimAirdrop(s) ==
    /\ balanceOf[Token] >= Airdrop
    /\ balanceOf' = Moved(balanceOf, Token, s, Airdrop)
    /\ UNCHANGED <<allowance, trades>>

(* P2PSPBFeeSplitter *)

\* Anyone may call it, with any amount the splitter's balance covers; the validators' 60% stay.
ReceiveFee(amount) ==
    LET share == (amount * 20) \div 100
        once  == Moved(balanceOf, Splitter, Deployer, share)
    IN  /\ balanceOf[Splitter] >= share /\ once[Splitter] >= share
        /\ balanceOf' = Moved(once, Splitter, Deployer, share)
        /\ UNCHANGED <<allowance, trades>>

(* P2PSPBEscrow *)

\* No token moves: the trade only says how many there should be.
NewTrade(s, buyer, amount) ==
    [seller |-> s, buyer |-> buyer, amount |-> amount,
     fee |-> (amount * 5) \div 1000, status |-> "Created"]

CreateTrade(s, buyer, amount) ==
    /\ Len(trades) < MaxTrades
    /\ trades' = Append(trades, NewTrade(s, buyer, amount))
    /\ UNCHANGED <<balanceOf, allowance>>

\* Mutant: a trade can be completed at once.
BugFrom == [Completed |-> {"Confirmed", "Created"}, Cancelled |-> {"Created", "Reserved"}]

\* The statuses completeTrade and cancelTrade ask for.
From == [Completed |-> {"Confirmed"}, Cancelled |-> {"Created", "Reserved"}]

\* The fee to the owner, the rest to the seller.
PaidOut(t) == Moved(Moved(balanceOf, Escrow, Deployer, t.fee), Escrow, t.seller, t.amount - t.fee)

\* completeTrade and cancelTrade.
CloseTrade(s, i, outcome) ==
    LET t == trades[i] IN
    /\ t.status \in From[outcome]
    /\ s \in {t.seller, t.buyer}
    /\ outcome = "Completed" => balanceOf[Escrow] >= t.amount
    /\ trades' = [trades EXCEPT ![i].status = outcome]
    /\ balanceOf' = IF outcome = "Completed" THEN PaidOut(t) ELSE balanceOf
    /\ UNCHANGED allowance

Closes(s) == \E i \in DOMAIN trades, o \in {"Completed", "Cancelled"} : CloseTrade(s, i, o)

ChainTypeOK ==
    /\ balanceOf \in [Accounts -> Nat]
    /\ allowance \in [Accounts -> [Accounts -> Nat]]
    /\ trades \in Seq(Trade)

-----------------------------------------------------------------------------
\* No call creates or destroys tokens, however transfers, allowances, airdrops, fees and trades
\* follow each other, transfers to oneself included.  docs/BLOCKCHAIN_INTEGRATION.md:38,
\* contracts/README.md:14 and the test contracts/test/P2PSPB.test.ts:57-62 say that the owner
\* mints; the contract has no such function.
SupplyIsConserved == SumFunctionOnSet(balanceOf, Accounts) = Supply

\* Tokens sent to the escrow never leave it: only completeTrade pays, and it asks for a status
\* no function of the contract sets.  The comment of P2PSPBEscrow.sol:84, contracts/README.md:23
\* and docs/BLOCKCHAIN_INTEGRATION.md:47 have completion pay them out to the seller.
TokensStayInEscrow == [][balanceOf'[Escrow] >= balanceOf[Escrow]]_chain
=============================================================================

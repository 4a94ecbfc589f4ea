SPECIFICATION Spec
CONSTANTS
  People = {deployer, user, api}
  Deployer = deployer
  Api = api
  Escrow = escrow
  Splitter = splitter
  Token = token
  Supply = 10
  Grant = 5
  Airdrop = 5
  Amounts = {5}
  MaxTrades = 1
  Orders = {o1}
  Mode = {"blockchain", "unset"}
  Key = {"kms", "local", "none"}
INVARIANTS
  SupplyIsConserved
  OrdersHaveNoTrade
  SuccessIsReal
PROPERTIES
  TokensStayInEscrow
  OnceDeafAlwaysDeaf
CHECK_DEADLOCK FALSE

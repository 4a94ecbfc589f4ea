SPECIFICATION WalletSpec
CONSTANTS
  Owners0 = {ceo, cto, vault}
  Addresses = {ceo, cto, vault}
  Contracts = {vault}
  Required = 2
  Ids = {0, 1, 2}
  Values = {1, 2}
  MaxDepth = 2
  MaxBalance = 2
SYMMETRY People
INVARIANTS
  SignaturesMatchCount
  EnoughOwners
  LargePaymentsNeverLeave
  ExecuteTransactionReverts

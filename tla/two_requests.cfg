SPECIFICATION Spec
CONSTANTS
  NoUser = NoUser
  Users = {u1, u2}
  Orders = {o1}
  Workers = {w1, w2}
  Amounts <- OneEitherWay
  Rates = {1}
  InitBalance <- OneEach
  Requests <- NotHide
  ForeignKeys = FALSE
  MaxMove = 1
  MaxFaults = 1
SYMMETRY Alike
INVARIANTS
  TypeOK
  OverdraftBound
  DealFunded
  PaidBeforeFinal
  BuyOrdersNeverTrade
  BalanceMatchesLedger
  ReceiptsTakeBothShares
PROPERTY MoneyMovesByReceiptOnly
CHECK_DEADLOCK FALSE

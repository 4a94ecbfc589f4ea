SPECIFICATION Spec
CONSTANTS
  NoUser = NoUser
  Users = {u1, u2}
  Orders = {o1, o2}
  Workers = {w1}
  Amounts <- OneEitherWay
  Rates = {1}
  InitBalance <- TwoEach
  Requests <- AllRequests
  ForeignKeys = FALSE
  MaxMove = 1
  MaxFaults = 0
SYMMETRY Alike
INVARIANT LedgerChains
PROPERTY ImplementsLifecycle
CHECK_DEADLOCK FALSE

SPECIFICATION Spec
CONSTANTS
  NoUser = NoUser
  Users = {u1, u2}
  Orders = {o1, o2}
  Workers = {w1, w2}
  Amounts <- OneEitherWay
  Rates = {2}
  InitBalance <- TwoEach
  Requests <- AllRequests
  ForeignKeys = TRUE
  MaxMove = 2
  MaxFaults = 1
INVARIANT ForeignKeyStopsTrading
CHECK_DEADLOCK FALSE

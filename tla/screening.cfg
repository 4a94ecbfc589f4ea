SPECIFICATION Spec
CONSTANTS
  Users = {u1}
  Workers = {w1, w2}
  AmlEnabled = TRUE
  OrdersPerDay = 0
  Amounts = {"large"}
  Newcomer <- AllNew
  NoUser = NoUser
  MaxOrders = 2
  MaxAlerts = 4
INVARIANTS
  HighRiskIsBlocked
  BlockStopsOrders
  OneUnseenOrder
PROPERTY ScreeningEnds
CHECK_DEADLOCK FALSE

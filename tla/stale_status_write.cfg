SPECIFICATION Spec
CONSTANTS
  NoUser = NoUser
  Users = {u1, u2}
  Orders = {o1}
  Workers = {w1, w2}
  Amounts = {1}
  Rates = {2}
  InitBalance <- TwoEach
  Requests <- Trade
  ForeignKeys = FALSE
  MaxMove = 2
  MaxFaults = 0
PROPERTY FinalStatusesAreFinal
CHECK_DEADLOCK FALSE

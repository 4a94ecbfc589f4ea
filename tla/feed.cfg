SPECIFICATION Spec
CONSTANTS
  Users = {seller, buyer}
  NoUser = NoUser
  Orders = {o1}
  Amounts = {1}
  Rates = {1}
  Workers = {w1}
  Clients = {c1}
INVARIANTS
  NewOrdersAreHeard
CHECK_DEADLOCK FALSE

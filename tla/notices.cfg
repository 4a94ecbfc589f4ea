SPECIFICATION NoticeSpec
CONSTANTS
  Users = {seller, buyer, rival}
  NoUser = NoUser
  Orders = {o1}
  Amounts = {1}
  Rates = {1}
  Workers = {w1, w2}
INVARIANTS
  LastWordIsTrue
  PartiesAreTold
CHECK_DEADLOCK FALSE

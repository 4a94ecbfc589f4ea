SPECIFICATION Spec
CONSTANTS
  u1 = u1
  u2 = u2
  o1 = o1
  o2 = o2
  Users = {u1, u2}
  Orders = {o1, o2}
  Seller <- SellerOf
  Buyer <- BuyerOf
  Workers = {w1, w2}
  PoolSizes = {2, 3}
  Requests = {"sell", "buy", "join", "accept", "payment", "receipt", "cancel", "dispute", "resolve", "hide", "demo"}
 
PROPERTY EveryRequestEnds

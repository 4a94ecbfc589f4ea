SPECIFICATION Spec
CONSTANTS
  m1 = m1
  m2 = m2
  m3 = m3
  m4 = m4
  m5 = m5
  m6 = m6
  one = one
  zeroOne = zeroOne
  three = three
  word = word
  Messages = {m1, m2, m3, m4, m5, m6}
  Headers = {one, zeroOne, three, word}
  ParseInt <- MCParseInt
  ZeroText = ZeroText
  Body <- MCBody
  Missing = Missing
  NaN = NaN
  Replicas = {r1, r2}
  Workers = {w1, w2}
  Stamp <- MCStamp
  NoStamp = NoStamp
  TIMESTAMP_WINDOW = 1
  CleanAbove = 1
  MaxTime = 4
  MaxRestarts = 1
  MaxOrders = 1
SYMMETRY Alike
INVARIANTS
  OneChancePerLife
  OneOrderPerProcess
  MemoryIsBounded
  SuccessIsStored
  OrdersAreAsMeant
CHECK_DEADLOCK FALSE

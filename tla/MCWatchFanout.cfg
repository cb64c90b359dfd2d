SPECIFICATION Spec
CONSTANTS
  u1 = u1
  u2 = u2
  r1 = r1
  w1 = w1
  w2 = w2
  d1 = d1
  d2 = d2
  q1 = q1
  q2 = q2
  User = {u1, u2}
  Reservation = {r1}
  Watch = {w1, w2}
  ResOf <- OneRes2
  LineOf <- MCLineOf
  DiffId = {d1, d2}
  Request = {}
  Price <- TwoPrices
  Threshold = {}
  NoPrice = NoPrice
  NoThreshold = NoThreshold
  None = None
  MaxStamp = 3
  MaxCrash = 1
SYMMETRY SymmAll
INVARIANTS AtMostOneAlert NotifiedIsHonest
PROPERTIES AlertsGoToSubscribers ImplementsLedger
CHECK_DEADLOCK FALSE

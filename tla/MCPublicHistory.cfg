SPECIFICATION HistorySpec
CONSTANTS
  s1 = s1
  s2 = s2
  p1 = p1
  p2 = p2
  e1 = e1
  e2 = e2
  v1 = v1
  v2 = v2
  d1 = d1
  d2 = d2
  q1 = q1
  q2 = q2
  Sailing = {s1}
  Product = {p1}
  SailingOf <- OneProduct
  Princess = {}
  HasClient = TRUE
  Endpoint = {e1, e2}
  Device = {v1}
  DiffId = {d1, d2}
  Request = {q1}
  Price <- TwoPrices
  Threshold = {200}
  NoPrice = NoPrice
  NoThreshold = NoThreshold
  None = None
  FreshFor = 0
  MaxStamp = 4
  MaxFail = 1
  MaxCrash = 1
INVARIANTS DropsAreReal CrossingOnce MarksAreHonest
SYMMETRY SymmHistory
CHECK_DEADLOCK FALSE

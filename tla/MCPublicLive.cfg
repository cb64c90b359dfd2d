SPECIFICATION LiveSpec
CONSTANTS
  s1 = s1
  s2 = s2
  p1 = p1
  p2 = p2
  e1 = e1
  e2 = e2
  v1 = v1
  v2 = v2
  d1 = d1
  d2 = d2
  q1 = q1
  q2 = q2
  Sailing = {s1, s2}
  Product = {p1, p2}
  SailingOf <- TwoGroups
  Princess = {s2}
  HasClient = FALSE
  Endpoint = {e1}
  Device = {v1}
  DiffId = {d1}
  Request = {}
  Price <- TwoPrices
  Threshold = {}
  NoPrice = NoPrice
  NoThreshold = NoThreshold
  None = None
  FreshFor = 0
  MaxStamp = 2
  MaxFail = 1
  MaxCrash = 1
PROPERTY SweepEnds
CHECK_DEADLOCK FALSE

SPECIFICATION RaceSpec
CONSTANTS
  u1 = u1
  u2 = u2
  r1 = r1
  w1 = w1
  w2 = w2
  d1 = d1
  d2 = d2
  q1 = q1
  q2 = q2
  User = {u1}
  Reservation = {r1}
  Watch = {w1}
  ResOf <- OneRes1
  LineOf <- MCLineOf
  DiffId = {d1, d2}
  Request = {q1}
  Price <- TwoPrices
  Threshold = {200}
  NoPrice = NoPrice
  NoThreshold = NoThreshold
  None = None
  MaxStamp = 4
  MaxCrash = 0
SYMMETRY SymmDiffs
INVARIANTS DiffsAreRealDrops OneDiffPerDrop
CHECK_DEADLOCK FALSE

SPECIFICATION Spec
CONSTANTS
  ann = ann
  bob = bob
  r1 = r1
  r2 = r2
  w1 = w1
  wonder = wonder
  User = {ann, bob}
  Reservation = {r1, r2}
  Product = {p1}
  Watch = {w1}
  WatchOf <- WatchesOf
  Sailing <- Sailings
  Ship = {wonder}
  Deck = {7}
  Request = {q1}
  None = None
  MaxDay = 1
SYMMETRY Partners
INVARIANTS TypeOK AnswersAreOwn SharedAreFellows EndedStayHidden CachedPlanIsServed

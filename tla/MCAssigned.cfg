SPECIFICATION Spec
CONSTANTS
  ann = ann
  bob = bob
  r1 = r1
  c101 = c101
  User = {ann}
  Reservation = {r1}
  Room = {c101}
  Request = {q1}
  Scraper = scraper
  None = None
  Gty = Gty
  Links <- AnnsLink
  Shows <- AssignedShows
  MaxCred = 2
  MaxRun = 1
INVARIANTS AssignedOnlyForGty

SPECIFICATION Spec
CONSTANTS
  ann = ann
  bob = bob
  r1 = r1
  c101 = c101
  User = {ann, bob}
  Reservation = {r1}
  Room = {c101}
  Request = {q1}
  Scraper = scraper
  None = None
  Gty = Gty
  Links <- PartnerLinks
  Shows <- PartnerShows
  MaxCred = 2
  MaxRun = 1
INVARIANTS TypeOK OutcomeOfThisRow AssignedToldOnce EveryAccountIsTried

SPECIFICATION ChatSpec
CONSTANTS
  ann = ann
  r1 = r1
  c101 = c101
  c102 = c102
  c103 = c103
  User = {ann}
  Reservation = {r1}
  Room = {c101, c102, c103}
  Request = {q1}
  Scraper = scraper
  None = None
  Gty = Gty
  Links <- MCLinks
  Shows <- MCShows
  MaxCred = 2
  MaxRun = 0
INVARIANTS OwnershipIsEarned DetailOfThisCabin RecoveredRoomIsOwn
PROPERTIES KeepsItsLine NoDeletedLogin LinksOnlyAfterRegister

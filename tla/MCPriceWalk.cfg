SPECIFICATION Spec
CONSTANTS
  Price <- MCPrice
  Threshold = {150, 300}
  NoPrice = NoPrice
  NoThreshold = NoThreshold
  MaxDay = 4
  Nights <- MCNights
INVARIANTS TiersAgree AlertedIsShown
PROPERTY OneShotPerCrossing
CHECK_DEADLOCK FALSE

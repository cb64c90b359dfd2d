SPECIFICATION Spec
CONSTANTS
  Task = {t1, t2}
  Currency = {usd}
  None = None
  MinInterval = 1
  MaxRetries = 1
  TokenLife = 1
  ScheduleTtl = 2
  ScheduleRetry = 1
  ExtrasTtl = 1
  ExtrasRetry = 1
  Pages = 2
INVARIANTS TypeOK SingleFlight EverySendIsPaced NeverRefusedAgain
PROPERTIES FetchesRest PassesAreApart RetriesWithFreshToken RequestsEnd

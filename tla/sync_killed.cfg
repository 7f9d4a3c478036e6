SPECIFICATION FairSpec
CONSTANTS
  Items = {i1}
  Services = {s1}
  None = None
  MaxAttempts = 2
  MaxKills = 1
  MaxIoErrors = 0
  MaxRetries = 0
  MaxLogins = 2
PROPERTIES EveryItemSettles

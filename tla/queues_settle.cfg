SPECIFICATION MCFairSpec
CONSTANTS
  Items = {i1}
  Services = {s1, s2}
  None = None
  MaxAttempts = 2
  MaxKills = 0
  MaxIoErrors = 0
  MaxRetries = 1
  MaxLogins = 2
  Events = {e1}
  Polls = {p1, p2}
  Owners = {o1, o2}
  NoRow = NoRow
  BatchSize = 1
  MaxRowAttempts = 2
  JobAttempts = 2
  MaxCrashes = 1
INVARIANT CompletedReachedAll
PROPERTIES EveryItemSettles EveryEventSettles

SPECIFICATION MCSpec
CONSTANTS
  Items = {i1}
  Services = {s1, s2}
  None = None
  MaxAttempts = 2
  MaxKills = 1
  MaxIoErrors = 1
  MaxRetries = 1
  MaxLogins = 3
  Events = {e1, e2}
  Polls = {p1, p2}
  Owners = {o1}
  NoRow = NoRow
  BatchSize = 2
  MaxRowAttempts = 1
  JobAttempts = 1
  MaxCrashes = 1
INVARIANTS QueueTellsTruth HandedOverOnce HandedOverInOrder
PROPERTY ImplementsSaleOnce

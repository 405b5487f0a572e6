SPECIFICATION FairSpec
CONSTANTS
  None = None
  k1 = k1
  x1 = x1
  x2 = x2
  s1 = s1
  s2 = s2
  v1 = v1
  v2 = v2
  v3 = v3
  v4 = v4
  Items = {k1}
  Workers = {x1}
  Sources = {s1, s2}
  VerificationIDs = {v1, v2, v3}
  BatchSize = 2
  MaxAttempts = 2
  MaxEvents = 2
  MaxFaults = 1
  MaxErrors = 1
  MaxChanges = 1
CHECK_DEADLOCK FALSE
INVARIANTS
  SearchableOnceDrained
PROPERTIES
  QueueDrains

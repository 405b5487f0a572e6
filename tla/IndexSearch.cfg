SPECIFICATION Spec
CONSTANTS
  None = None
  k1 = k1
  x1 = x1
  x2 = x2
  s1 = s1
  s2 = s2
  v1 = v1
  v2 = v2
  v3 = v3
  v4 = v4
  Items = {k1}
  Workers = {x1, x2}
  Sources = {s1}
  VerificationIDs = {v1, v2, v3, v4}
  BatchSize = 2
  MaxAttempts = 2
  MaxEvents = 2
  MaxFaults = 0
  MaxErrors = 0
  MaxChanges = 0
CHECK_DEADLOCK FALSE
SYMMETRY Symmetry
INVARIANTS
  SearchableOnceDrained

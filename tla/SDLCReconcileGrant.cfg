SPECIFICATION Spec
CONSTANTS
  None = None
  r1 = r1
  r2 = r2
  w1 = w1
  w2 = w2
  p1 = p1
  p2 = p2
  c1 = c1
  c2 = c2
  alice = alice
  bob = bob
  Runs = {r1}
  Workers = {w1, w2}
  Patches = {p1}
  Contexts = {c1}
  Queries <- NoQueries
  OwnerOf <- OneOwner
  Kind <- Incident
  Concurrency <- Serial
  Charge = 2
  TokenCounts = {2}
  MaxModelCalls = 2
  MaxAttempts = 2
  MaxTokens = 4
  MaxSourceQueries = 0
  MaxSourceRows = 0
  MaxConcurrentRuns = 1
  MaxFaults = 0
  MaxControls = 2
  MaxChanges = 0
CHECK_DEADLOCK FALSE
SYMMETRY Symmetry
INVARIANTS
  WritesUnderOriginalDelegation

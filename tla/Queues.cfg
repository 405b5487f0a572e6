SPECIFICATION QueuesSpec
CONSTANTS
  None = None
  alice = alice
  Items = {k1}
  Workers = {x1, x2}
  Sources = {s1, s2}
  VerificationIDs = {v1, v2, v3, v4}
  BatchSize = 2
  MaxAttempts = 2
  MaxEvents = 2
  MaxFaults = 1
  MaxErrors = 1
  MaxChanges = 1
  Runs = {r1}
  Agents = {w1, w2}
  Patches = {p1}
  Contexts = {c1, c2}
  Queries <- TwoQueries
  OwnerOf <- OneOwner
  Kind <- Incident
  Concurrency <- Serial
  Charge = 2
  TokenCounts = {2}
  MaxModelCalls = 3
  MaxStageAttempts = 3
  MaxTokens = 6
  MaxSourceQueries = 3
  MaxSourceRows = 4
  MaxConcurrentRuns = 1
  MaxRunFaults = 2
  MaxControls = 0
  MaxRunChanges = 0
CHECK_DEADLOCK FALSE
SYMMETRY Symmetry
INVARIANTS
  TypeOK
  CompletedApprovalIsProjected
  SourcesChargedOnce
PROPERTIES
  EvidenceImmutable

SPECIFICATION Spec
CONSTANTS
  None = None
  Deliveries = {d1, d2}
  Executors = {x1, x2}
  ExpectedRelease <- NoExpectation
  MaxSteps = 2
  MaxDeliveryFaults = 1
  Remediers = {x1, x2}
  MaxRemedySteps = 2
  MaxRemedyFaults = 4
  MaxOutputTokens = 1
  ReplyTokens = {1, 2}
  MaxDisclosedFiles = 1
  FileCounts = {1, 2}
  MaxStageFaults = 3
  PackageShas = {p1, p2}
  Targets = {t1}
  StagingTargets = {t1}
  PackageOwners = {o1, o2}
  MaxTrials = 2
  MaxCampaigns = 2
  MaxDecisions = 3
  ToolCalls = {c1, c2, c3}
  UnauditedCalls = {c3}
  RequestOf <- OneRequest
  Exporters = {x1, x2}
  MaxExports = 3
  MaxTraceFaults = 2
  ExportedCalls = {c1}
  s1 = s1
  s2 = s2
  s3 = s3
  Symbols = {s1, s2, s3}
  Root = s1
  Indexable = {s1, s2}
  Snapshots <- SomeSnapshots
  Replicas = {w1}
  Hops = 1
  MaxRuns = 2
  MaxRequeues = 1
  MaxRebuilds = 1
CHECK_DEADLOCK FALSE
SYMMETRY Symmetry
INVARIANTS
  ExecutorsTypeOK
  RepeatsAreHarmless
  CompletedIsWhole
  RemedyIsItsOwn
  EvidenceIsKept
  ActiveWasQualified
  DecisionsChain
  EvidenceIsComplete
  AnswersFollowOneAnalysis
  ProjectionsCatchUp
PROPERTIES
  ImplementsReleaseContract

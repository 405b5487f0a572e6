SPECIFICATION Spec
CONSTANTS
  None = None
  t1 = t1
  t2 = t2
  u1 = u1
  u2 = u2
  ana = ana
  ben = ben
  cy = cy
  Items = {k1}
  Contents = {x, y}
  Validators = {a}
  Owners = {a, b}
  Implementer <- NoImplementer
  DistinctGates = {"product_approval"}
  MaxVersion = 2
  MaxValidations = 2
  MaxKeys = 2
  Actors = {ana, ben, cy}
  Humans = {ana, ben, cy}
  RolesFor <- SomeRoles
  DistinctFor = {"qa", "product_approval"}
  TransitionKeys = {"key"}
  RepeatedEvents = {"IMPLEMENTATION_STARTED"}
  MaxWorkflowVersion = 16
  MaxUnderWay = 2
  Ahead = {0, 6}
  AheadEvents = {"QA_VALIDATED"}
  Tasks = {t1, t2}
  Mode <- OneOfEachMode
  Clients = {c1, c2}
  AheadOfTask = {0, 2}
  AheadTaskEvents = {"LOCAL_REVISION_RECORDED", "VALIDATED_REUSE_COMPLETED"}
  MaxTaskVersion <- TaskVersions
  MaxRevision <- TaskRevisions
  Tokens = {u1, u2}
  TokenExpiry <- OneExpires
  Grants = {d1}
  MaxTime = 3
  SourceKeys = {q}
  Envelopes <- SmallEnvelopes
  ProductClients = {p1}
  Lifetimes = {2}
  MaxProductVersion <- RecordVersions
  MaxProductTime = 1
  MaxSchema <- SchemaVersions
  Definitions = {"metric"}
  VersionIn <- TwoRegistries
  Models = {m1, m2}
  Projectors = {w1, w2}
  MaxRegistry = 2
  MaxSemanticTime = 1
  MaxConfigurations = 2
  e1 = e1
  e2 = e2
  e3 = e3
  a1 = a1
  a2 = a2
  SourceKinds = {"kafka", "loki", "prometheus", "postgres", "s3"}
  Producers = {a1, a2}
  SourceEvents = {e1, e2, e3}
  EventTime <- EventTimes
  Producer <- EventProducers
  WatermarkRows = {a1, a2}
  SourceQueries = {q1, q2}
  RowLimit = 2
  MaxScanRecords = 4
  MaxActive = 1
  MaxEntries <- EntriesOf
  MaxSnapshots = 2
SYMMETRY AlikeClients
CHECK_DEADLOCK FALSE
INVARIANTS
  RecordsTypeOK
  PublicationIsSound
  DecisionsTellTheStatus
  PromotedThroughGates
  OneTaskAtATimeInOrder
  WithdrawnStaysWithdrawn
  NoOrphanAuthority
  HeadIsNewestAccepted
  EvaluationsAreSound
  ContextFollowsTheRegistry
  CompleteIsWhole
PROPERTIES
  CompletionIsEarned

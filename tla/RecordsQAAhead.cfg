SPECIFICATION Spec
CONSTANTS
  None = None
  t1 = t1
  t2 = t2
  u1 = u1
  u2 = u2
  ana = ana
  ben = ben
  cy = cy
  Items = {k1}
  Contents = {x}
  Validators = {a}
  Owners = {a, b}
  Implementer <- NoImplementer
  DistinctGates = {"product_approval"}
  MaxVersion = 1
  MaxValidations = 1
  MaxKeys = 1
  Actors = {ana, ben, cy}
  Humans = {ana, ben, cy}
  RolesFor <- SomeRoles
  DistinctFor = {"qa", "product_approval"}
  TransitionKeys = {}
  RepeatedEvents = {}
  MaxWorkflowVersion = 16
  MaxUnderWay = 2
  Ahead = {0, 6}
  AheadEvents = {"QA_VALIDATED"}
  Tasks = {t1, t2}
  Mode <- OneOfEachMode
  Clients = {}
  AheadOfTask = {0}
  AheadTaskEvents = {}
  MaxTaskVersion <- TaskVersions
  MaxRevision <- TaskRevisions
  Tokens = {u1, u2}
  TokenExpiry <- OneExpires
  Grants = {}
  MaxTime = 3
  SourceKeys = {}
  Envelopes <- SmallEnvelopes
  ProductClients = {}
  Lifetimes = {2}
  MaxProductVersion <- RecordVersions
  MaxProductTime = 1
  MaxSchema <- SchemaVersions
  Definitions = {"metric"}
  VersionIn <- TwoRegistries
  Models = {m1}
  Projectors = {w1}
  MaxRegistry = 2
  MaxSemanticTime = 1
  MaxConfigurations = 1
  e1 = e1
  e2 = e2
  e3 = e3
  a1 = a1
  a2 = a2
  SourceKinds = {"kafka"}
  Producers = {a1, a2}
  SourceEvents = {e1, e2, e3}
  EventTime <- EventTimes
  Producer <- EventProducers
  WatermarkRows = {a1, a2}
  SourceQueries = {}
  RowLimit = 2
  MaxScanRecords = 4
  MaxActive = 1
  MaxEntries <- EntriesOf
  MaxSnapshots = 0
CHECK_DEADLOCK FALSE
INVARIANTS
  ValidatedByAnother

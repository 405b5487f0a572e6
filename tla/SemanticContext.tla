--------------------------- MODULE SemanticContext ---------------------------
(***************************************************************************)
(* The governed registry of domain, capability and metric definitions      *)
(* (internal/contextregistry/registry.go, internal/service/semantic.go,    *)
(* internal/postgres/semantic.go, internal/worker/semantic.go,             *)
(* internal/milvus/semantic.go).                                           *)
(*                                                                         *)
(* The registry is compiled into the programs: server and workers are      *)
(* upgraded one after another and may run different registries and         *)
(* embedding models.  A validation of the registry stores its definitions, *)
(* a decision approves one version, a job projects it to the vector store, *)
(* which keeps one row per definition whatever its version.                *)
(***************************************************************************)
EXTENDS Common, FiniteSets

CONSTANTS
    Definitions,      \* definition IDs
    VersionIn,        \* [1..MaxRegistry -> [Definitions -> version the registry gives it]]
    Models,           \* embedding models a worker may be configured with
    Projectors,       \* replicas of the worker
    MaxRegistry, MaxSemanticTime, MaxConfigurations   \* bounds

Server == "server"
Versions == 1..MaxRegistry

ASSUME SemanticAssumption ==
    /\ MaxRegistry \in Nat \ {0} /\ MaxSemanticTime \in Nat /\ MaxConfigurations \in Nat
    /\ Models # {}
    /\ VersionIn \in [1..MaxRegistry -> [Definitions -> Versions]]
    /\ Server \notin Projectors

\* context_definitions rows: stored by a validation, decided on one.
RegistryCheck == [registry : Versions, at : Nat]
Projection == [model : Models, at : Nat]
DefinitionRow ==
    [status : {"pending"}, registry : Versions, validated : Nat, projected : {None}]
      \cup [status : {"approved", "rejected"}, registry : Versions, validated : Nat,
             projected : {None} \cup Projection, check : RegistryCheck]

ASSUME DefinitionRowAssumption == None \notin DefinitionRow

VARIABLES
    config,       \* [Projectors and Server -> the registry and model it was started with]
    configured,   \* restarts with another configuration, counted
    definitions,  \* [Definitions \X Versions -> context_definitions row, or None]
    registryChecks, \* context_registry_validations, by registry, with their time
    contextJobs,  \* open context.upsert jobs, by definition and version
    vector,       \* [Definitions -> the row of the vector store, or None]
    projecting,   \* [Projectors -> the projection it works on, or None]
    sclock

semanticVars == <<config, configured, definitions, registryChecks, contextJobs, vector, projecting, sclock>>

SemanticInit ==
    /\ config = [p \in Projectors \cup {Server} |-> [registry |-> 1, model |-> CHOOSE m \in Models : TRUE]]
    /\ configured = 0
    /\ definitions = [dv \in Definitions \X Versions |-> None]
    /\ registryChecks = {} /\ contextJobs = {}
    /\ vector = [d \in Definitions |-> None]
    /\ projecting = [p \in Projectors |-> None]
    /\ sclock = 0

\* A validation is good for 30 days and a read-back for one: for the time unit
\* they were made in.
Fresh(at) == at = sclock
Stored == {dv \in Definitions \X Versions : definitions[dv] # None}
Approved == {dv \in Stored : definitions[dv].status = "approved"}

\* ProjectionDigest: version, registry and model of what was embedded.
ProjectionDigest(dv, model) == [version |-> dv[2], registry |-> definitions[dv].registry, model |-> model]

-----------------------------------------------------------------------------
(* Governance *)

\* What the registry of the server lists (Load).
Listed == {<<d, VersionIn[config[Server].registry][d]>> : d \in Definitions}

\* ValidateContextRegistry: every definition is stored, or its validation
\* renewed; one that is stored under another registry refuses them all.
ValidateContextRegistry ==
    LET registry == config[Server].registry IN
    /\ \A dv \in Listed : definitions[dv] # None => definitions[dv].registry = registry
    /\ definitions' = [dv \in DOMAIN definitions |->
            IF dv \notin Listed THEN definitions[dv]
            ELSE IF definitions[dv] # None THEN [definitions[dv] EXCEPT !.validated = sclock]
            ELSE [status |-> "pending", registry |-> registry, validated |-> sclock, projected |-> None]]
    /\ registryChecks' = registryChecks \cup {[registry |-> registry, at |-> sclock]}
    /\ UNCHANGED <<config, configured, contextJobs, vector, projecting, sclock>>

\* The validation a decision names is of the server's registry, and fresh.
Evidence(check) ==
    /\ check \in registryChecks /\ Fresh(check.at)
    /\ check.registry = config[Server].registry

\* An approval enqueues its projection.
Enqueued(dv, status) == IF status = "approved" THEN {dv} ELSE {}

\* DecideContextDefinition: once, on a pending row of the server's registry.
DecideContextDefinition(dv, status, check) ==
    /\ dv \in Stored /\ definitions[dv].status = "pending"
    /\ definitions[dv].registry = config[Server].registry
    /\ Evidence(check)
    /\ definitions' = [definitions EXCEPT ![dv] =
            [status |-> status, registry |-> @.registry, validated |-> @.validated, projected |-> @.projected,
             check |-> check]]
    /\ contextJobs' = contextJobs \cup Enqueued(dv, status)
    /\ UNCHANGED <<config, configured, registryChecks, vector, projecting, sclock>>

\* RequeueContextDefinitions, by a program with the server's registry.
RequeueContextDefinitions ==
    /\ contextJobs' = contextJobs \cup {dv \in Approved : /\ definitions[dv].registry = config[Server].registry
                                                         /\ Fresh(definitions[dv].validated)}
    /\ contextJobs' # contextJobs
    /\ UNCHANGED <<config, configured, definitions, registryChecks, vector, projecting, sclock>>

-----------------------------------------------------------------------------
(* Projection *)

Work(p, w) == projecting' = [projecting EXCEPT ![p] = w]

\* indexDefinition begins: the row is read; if it is not approved, not of the
\* worker's registry or not fresh, the job fails and is tried again later.
indexDefinition(p, dv) ==
    /\ projecting[p] = None /\ dv \in contextJobs
    /\ definitions[dv].registry = config[p].registry /\ Fresh(definitions[dv].validated)
    /\ Work(p, [step |-> "upsert", of |-> dv, digest |-> ProjectionDigest(dv, config[p].model), job |-> TRUE])
    /\ UNCHANGED <<config, configured, definitions, registryChecks, contextJobs, vector, sclock>>

\* ClaimDefinitionRefresh: a projection that was not verified lately, of the
\* worker's registry and model, is only read back.
ClaimDefinitionRefresh(p, dv) ==
    /\ projecting[p] = None /\ dv \in Approved /\ Fresh(definitions[dv].validated)
    /\ definitions[dv].projected # None /\ ~Fresh(definitions[dv].projected.at)
    /\ definitions[dv].registry = config[p].registry /\ definitions[dv].projected.model = config[p].model
    /\ Work(p, [step |-> "verify", of |-> dv, digest |-> ProjectionDigest(dv, config[p].model), job |-> FALSE])
    /\ UNCHANGED <<config, configured, definitions, registryChecks, contextJobs, vector, sclock>>

\* UpsertDefinition: the row of the definition, whatever it held.
UpsertDefinition(p) ==
    /\ projecting[p] # None /\ projecting[p].step = "upsert"
    /\ vector' = [vector EXCEPT ![projecting[p].of[1]] = projecting[p].digest]
    /\ Work(p, [projecting[p] EXCEPT !.step = "verify"])
    /\ UNCHANGED <<config, configured, definitions, registryChecks, contextJobs, sclock>>

\* VerifyDefinitionProjection: a strongly consistent read of the row.
ReadBackMatches(p) == vector[projecting[p].of[1]] = projecting[p].digest

VerifyDefinitionProjection(p) ==
    /\ projecting[p] # None /\ projecting[p].step = "verify"
    /\ Work(p, IF ReadBackMatches(p) THEN [projecting[p] EXCEPT !.step = "record"] ELSE None)
    /\ UNCHANGED <<config, configured, definitions, registryChecks, contextJobs, vector, sclock>>

\* RecordDefinitionProjection and, for a job, its completion.  Nothing is
\* recorded on a row whose validation lapsed meanwhile.
RecordDefinitionProjection(p) ==
    /\ projecting[p] # None /\ projecting[p].step = "record"
    /\ LET dv == projecting[p].of IN
       IF dv \in Approved /\ Fresh(definitions[dv].validated)
       THEN /\ definitions' = [definitions EXCEPT ![dv].projected = [model |-> projecting[p].digest.model, at |-> sclock]]
            /\ contextJobs' = IF projecting[p].job THEN contextJobs \ {dv} ELSE contextJobs
       ELSE UNCHANGED <<definitions, contextJobs>>
    /\ Work(p, None)
    /\ UNCHANGED <<config, configured, registryChecks, vector, sclock>>

-----------------------------------------------------------------------------
(* Reads *)

\* SearchContextDefinitions fills its map in the order of the query, by ID and
\* falling version: of the approved versions of an ID, the last one stays.
Hydrated(d) == CHOOSE dv \in Approved : dv[1] = d /\ \A e \in Approved : e[1] = d => dv[2] <= e[2]

\* Mutant: the projection recorded for the row is not compared with the hit.
Admitted_ByVersion(dv) ==
    /\ definitions[dv].registry = config[Server].registry /\ Fresh(definitions[dv].validated)
    /\ definitions[dv].projected # None /\ vector[dv[1]] # None /\ vector[dv[1]].version = dv[2]

\* The row vouches for the hit: version, registry, read-back, model, digest.
Admitted(dv) ==
    /\ definitions[dv].registry = config[Server].registry /\ Fresh(definitions[dv].validated)
    /\ definitions[dv].projected # None /\ Fresh(definitions[dv].projected.at)
    /\ definitions[dv].projected.model = config[Server].model
    /\ vector[dv[1]] = ProjectionDigest(dv, definitions[dv].projected.model)

SearchContextDefinitions ==
    {dv \in Approved : dv = Hydrated(dv[1]) /\ Admitted(dv)}

\* QueryPlatformMetric; ValidateRequest admits version 1 alone.
QueryPlatformMetric ==
    {dv \in Approved : /\ dv[2] = 1 /\ definitions[dv].registry = config[Server].registry
                       /\ Fresh(definitions[dv].validated)}

-----------------------------------------------------------------------------
(* The environment *)

\* A program is restarted with another registry or model; a worker loses what
\* it was doing, and its job is claimed again.
Configure(p, registry, m) ==
    /\ configured < MaxConfigurations /\ configured' = configured + 1
    /\ registry >= config[p].registry /\ config[p] # [registry |-> registry, model |-> m]
    /\ config' = [config EXCEPT ![p] = [registry |-> registry, model |-> m]]
    /\ projecting' = [q \in Projectors |-> IF q = p THEN None ELSE projecting[q]]
    /\ UNCHANGED <<definitions, registryChecks, contextJobs, vector, sclock>>

SemanticTick ==
    /\ sclock < MaxSemanticTime /\ sclock' = sclock + 1
    /\ UNCHANGED <<config, configured, definitions, registryChecks, contextJobs, vector, projecting>>

SemanticNext ==
    \/ ValidateContextRegistry
    \/ \E dv \in Stored, status \in {"approved", "rejected"}, check \in registryChecks :
           DecideContextDefinition(dv, status, check)
    \/ RequeueContextDefinitions
    \/ \E p \in Projectors, dv \in Stored : indexDefinition(p, dv) \/ ClaimDefinitionRefresh(p, dv)
    \/ \E p \in Projectors : UpsertDefinition(p) \/ VerifyDefinitionProjection(p) \/ RecordDefinitionProjection(p)
    \/ \E p \in Projectors \cup {Server}, r \in 1..MaxRegistry, m \in Models : Configure(p, r, m)
    \/ SemanticTick

SemanticSpec == SemanticInit /\ [][SemanticNext]_semanticVars

-----------------------------------------------------------------------------
(* Properties *)

\* Rows have the shapes of their tables; jobs and vectors are of approved
\* definitions (DecideContextDefinition, RequeueContextDefinitions).
SemanticTypeOK ==
    /\ definitions \in [Definitions \X Versions -> {None} \cup DefinitionRow]
    /\ contextJobs \subseteq Approved
    /\ \A d \in Definitions : vector[d] # None => <<d, vector[d].version>> \in Approved

\* An approved definition was approved on a validation of the very registry it
\* was stored from, whatever upgrades came between (DecideContextDefinition).
ApprovedOnItsRegistry == \A dv \in Approved : definitions[dv].check.registry = definitions[dv].registry

\* What search returns and what a metric query computes follow the registry the
\* server runs: never two versions of one definition, never an embedding by
\* another model or of another version than the one returned, whatever replicas
\* of other configurations project at the same time (SearchContextDefinitions).
SearchFollowsTheServer ==
    /\ \A dv \in SearchContextDefinitions :
           /\ dv = <<dv[1], VersionIn[config[Server].registry][dv[1]]>>
           /\ vector[dv[1]].version = dv[2] /\ vector[dv[1]].model = config[Server].model
    /\ \A dv \in QueryPlatformMetric : dv = <<dv[1], VersionIn[config[Server].registry][dv[1]]>>

\* Approval, search and metric queries all follow one registry: the one the
\* definition was stored from and the one the server runs
\* (DecideContextDefinition, SearchContextDefinitions, QueryPlatformMetric).
ContextFollowsTheRegistry == ApprovedOnItsRegistry /\ SearchFollowsTheServer
=============================================================================

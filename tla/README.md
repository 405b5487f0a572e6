# Verification of the hybrid AI development platform

TLA+ specifications of the Go services in `internal/` and `components/`, TLC
configurations that check them on small instances, and TLAPS proofs that hold
for every instance. `PROJECT.json` maps each definition to the source lines it
stands for and lists runs, mutants, hazards, findings and theorems.

## The system

PostgreSQL is the authority for all state. Gateway replicas answer MCP calls,
index workers project approved records into Milvus and Apache AGE, and SDLC
workers (one process per role) claim stages of execution runs and perform them.
Processes share nothing but the database: every ordering problem is one between
a transaction and what was read before it.

| Component | State it keeps | Operations | What must be right |
|---|---|---|---|
| SDLC execution runtime (`postgres/execution.go`, `service/execution.go`) | runs, steps with fenced leases, budgets, artifacts | create, claim, context, reserve source, complete, control | one lease holder, evidence immutable, budgets kept, interrupted writes read back, runs end |
| Agent packages (`*/execution_package.go`) | evaluations, the active package of each role, decisions | evaluate, activate, rollback | an active package passed its regression; activation never overwrites an unseen one |
| SDLC workers (`sdlcworker/`, `execution/`) | nothing durable; branch, pull request, release outside | build, evaluate, deliver, diagnose, remediate, verify | external writes happen once and are found again after a crash |
| Index jobs (`worker/`, `postgres/operations.go`, outbox of `postgres/repository.go`) | `outbox_events`, projection checks, vectors | claim, index, complete, fail, retry, requeue | a completed job left a readable projection; no job is lost |
| Knowledge (`service/service.go`, `postgres/repository.go`) | candidates, generations, reviews | capture, review, supersede | only exact, reviewed content is approved |
| Validation and quality (`*/validation.go`, `*/quality.go`) | validations, source receipts, quality cases | validate, decide, refresh sources | approval binds version, content and sources |
| Workflows and task checkpoints (`*/workflow*.go`, `*/taskcheckpoint*.go`) | workflow state, tasks, retrievals | transitions of a workflow, checkpoint phases | no gate is skipped; roles stay separate |
| Delegation (`*/delegation.go`, `cmd/admin/delegation.go`) | short-lived credentials of one task, derived from an operator's credential | issue, write the token, authenticate, recheck per call, revoke, expire | authority that ended stays ended; no live credential nobody holds |
| Product records, intents, evaluations (`*/product*.go`, `*/intent.go`) | versioned records, heads, relations | put, validate, decide, relate | the head only moves forward |
| Semantic context (`*/semantic.go`, `contextregistry/`) | definitions, decisions, projections | propose, decide, refresh | only the newest decision is active |
| Sources and adapters (`service/source.go`, `sources/`, `sourceadapter/`) | observations, receipts | collect, record | bounds on rows, bytes and time |
| Code graph and projections (`components/codegraph`, `postgres/codegraph.go`, `postgres/projection.go`, `age/`, `milvus/`) | graph generations | publish, project, rebuild | readers see one complete generation |
| Work packets (`components/workpacket`) | none | evaluate policy, verify patch | a patch outside its packet is refused |
| OpenClaw controller (`automation/openclaw-plugin`) | the workflow it drives | start, advance, poll | follows the gateway's transitions |
| Identity, authorization, telemetry, servers, scripts | credentials, traces, files | | boundaries and I/O around the above |

Hard behaviours: leases that expire under a working process; answers that are
lost and calls repeated; owners who decide on a run they read earlier; crashes
between an external write and its record; heads (intents, bindings, revisions,
packages, credentials) that change while work is in flight; two owners, two
workers or two runs at a limit; loops of repair and retry that must end.

## SDLCExecution

One transaction of `postgres/execution.go` holds the run's row lock and is one
action. What the service or a worker reads beforehand is an earlier action, kept
in `worker[w]` (a worker's claim, lease and submitted result) or `request[r]`
(an owner's decision and the version it was read at).

| Variable | Code |
|---|---|
| `run` | the `sdlc_executions` row: status, stage, version, budget use. `absent` has no row, `creating` is the open transaction of CreateExecution |
| `steps` | `sdlc_execution_steps` in order; a step has stage, fence, lease, bound context, result and source reservations |
| `worker` | what RunOne holds: run, role, step, fence, the result it submitted and the service's verdict |
| `request` | the view a ControlExecution decision was taken on |
| `grant` | the run's deadline and pinned owner credential; `lapsed` remembers that the deadline passed once |
| `current` | lockExecutionRequirements finds every head as it was at creation |
| `env` | how many faults, decisions and changes have happened (bounds) |

Actions: `CountActiveRuns`, `InsertExecution` (CreateExecution); `BeginClaim`,
`ClaimGranted`, `ClaimBlocked`, `ClaimRefused` (ClaimExecution); `BindContext`
(ExecutionContext); `ReserveSource` (ReserveExecutionSource); `SubmitResult`
(the service's half of CompleteExecution), `CommitResult`, `ResultNotTaken`
(the repository's half); `LeaseLost`, `Crash`; `OwnerReads`, `Pause`, `Cancel`,
`Resume`, `Reconcile`, `ControlRefused` (ControlExecution); `LeaseExpires`,
`DeadlinePasses`, `HeadsChange`, `OwnerRevoked`.

Time is compared, never counted: a lease is live until `LeaseExpires`, a
deadline open until `DeadlinePasses`. Digests are model values. Diagnoses and
recoveries are judged on observations that are not modelled, so either verdict
is possible for one that claims success.

### Runs (MCSDLCExecution)

| Run | Checks | What it shows |
|---|---|---|
| `feature` | `TypeOK`, `StepHistorySound`, `OneLeaseHolder`, `TokensWithinReservation`, `DeliveredCandidateWasEvaluated` | A feature through rejected candidates and two repairs, two workers competing for every stage, with a crash, lost answer or lost lease and an owner's decision on a version that may be stale: the run's steps, leases, tokens and delivered candidate are never confused. |
| `incident_control` | `ReconcilingHasOpenEffect`, `VersionIdentifiesDecision`, `TerminalIsFinal`, `ActiveRunsSettle` | Under the workers' polling, an incident with owner decisions, a head that changes, a revoked credential, a crash and a passing deadline: interrupted remedies stay readable, accepted decisions were taken on the state they change, finished runs stay finished, and an active run reaches its end or asks its owner. |
| `shared` | `ResourceWithinConcurrency`, `ActiveRunsSettle` | A feature and an incident whose packages share the model and the sandbox under different concurrency: the smallest limit among the holders is kept, and both runs settle, so neither waits for ever on the other's lease. |
| `reconcile_grant` (violation) | `WritesUnderOriginalDelegation` | The deadline of an incident passes while its remediation is leased; the owner's reconcile decision renews it, the read-back ends blocked, and a resume then leaves a remediation leased and running under the renewed delegation. |
| `read_back` (violation) | `ReconcilingUntilReadBack` | A claim that finds a changed head blocks a reconciling run before anybody has read its effect back. |
| `concurrent_runs` (violation) | `ActiveRunsWithinTarget` | Two owners count the active runs of one target before either inserts, and both are admitted. |

All runs allow deadlock: a finished or paused run whose owner does nothing is a
legitimate end.

### Bounds

`MaxFaults`, `MaxControls` and `MaxChanges` bound crashes, lost answers and
leases lost by a slow worker; owner decisions; head changes and revocations.
Two workers are enough for every race of a stale and a new lease holder, since
a third could only repeat what the second does; two patches distinguish the
candidate that was evaluated from another; tokens for three model calls allow two repairs.
The proofs remove these bounds for the properties they cover.

### Fairness

`FairSpec` lets every worker keep polling (`cmd/sdlc-worker` polls every two
seconds, each run it may serve in turn) and finish a call it began, and lets an
abandoned lease run out. Polling is strong fairness on `BeginClaim`, because the
claim can be disabled for a moment by another worker's lease. Owners,
deadlines, heads and faults are never assumed to happen.

### Proofs (SDLCExecutionProofs)

For all runs, workers and budgets that satisfy `BudgetAssumption` and
`NameAssumption`. The inductive invariant `Inv` adds to the properties proved:

- `SubmittedWhole`: a submitted result has an outcome, a status and a stage, so
  committing it leaves a well-typed row;
- `LeasesDistinct`: two holders of one run's newest step have different fences,
  and no fence held exceeds the stored one. `OneLeaseHolder` alone is not
  inductive: it says nothing of an expired holder whose fence a reclaim would
  have to avoid;
- `TokensReserved`: what a run has reported plus what its open step may still
  report is within its charge. Without the open step's share a result could
  overdraw;
- `DecisionsPast`: a pending decision's version is not in the future, so a later
  save cannot make a stale one match.

`StepKeepsRows`, `ClaimEffect` and `CommitEffect` state what an action does to
one run; `NextInv` combines them. `FinishedForGood` and `EvidenceForGood` are
action properties from the same invariant.

`DeliveredWasEvaluated` rests on a second invariant, `CandidateInv`. Its part
`StageEarned` says what brought a run to its stage: a run to be evaluated has a
newest build that succeeded, one being delivered a newest evaluation of that very
build, so that repairs, pauses and blocks in between are covered without their
history. `VerdictFresh` adds that a success of an evaluation on its way to the
gateway names the digest of what is still the newest build: no other can be built
while that step is open. TLC checked both on the instance of `feature` first.

`ResourceBound` counts: `LeasesInv` adds that the leased runs are finitely many.
`LeaseNotGiven` shows that only a granted claim gives a lease, `ClaimLeasesOne`
that it gives one, on the resource it was counted for; the count then exceeds
neither the claimant's limit nor that of a run already holding a lease.

`SourcesAccounted` is about a sum of sums, of the steps of a run and of what each
reserved. The section "Sums" gives what the fold of `MapThenSumSet` computes over
a finite set of any size: it exists (`SumExists`), takes any element first
(`SumTakesAny`) and depends on nothing outside the set (`SumsAgree`), each by
induction on the cardinality (`NatSetInduction`, from the well-foundedness of
the natural numbers). A claim then adds a step that sums to nothing, and only
`ReserveSource` changes a sum, by the limit it also adds to the run: the key it
checked is not among the reserved ones. `SourcesInv` adds that a step reserves
finitely many queries.

Three of the findings below are claims of the documentation that the code does
not keep. The last section proves each of them under one hypothesis on the
behaviour, which says exactly what the code lacks; TLC shows each claim violated
without it. They rest on `NextMoves`, which lists every way a step may move the
status of a run.

- `ReadBackUnlessClaimStops`: `ReconcilingUntilReadBack` holds if no claim blocks
  a run that is being read back (`ClaimsSpareReadBack`). No crash, late result,
  decision or expiry lets an unread write go; only the early exits of
  ClaimExecution do.
- `WritesEndWithDelegation`: `WritesUnderOriginalDelegation` holds if no lapsed
  run is resumed (`LapsedIsNotResumed`). `LapsedInv` adds that no
  lease is live under a passed deadline, and that a lapsed run whose deadline was
  renewed is neither ready nor running.
- `OneOwnerWithinTarget` and `ActiveRunsBound`: if no decision makes a stopped run
  active again (`NothingReactivated`), one owner keeps `MaxConcurrentRuns`, and any
  finite number of owners exceed it by less than their number. `CreationsInv`
  counts active runs together with the creations that have counted: an owner has
  one of those at a time. The hypothesis is needed: TLC finds the limit exceeded
  by a single owner who pauses a run, creates another and resumes the first,
  because ControlExecution does not count.

`ActiveRunsSettle` is liveness and is model-checked only.

## KnowledgeIndex

The outbox of `postgres/repository.go`, the life of a `knowledge.upsert` job in
`worker/worker.go` and the records it leaves in Milvus and in
`knowledge_projection_checks`. A statement or transaction is one action; what a
worker read before it is kept in `worker[w]`.

| Variable | Code |
|---|---|
| `item` | the approval of a knowledge item: the job it enqueued (which names the approval), the digest of the validated source manifest, validation in force, sources verified |
| `event` | `outbox_events` in order of id: attempts, lock, backoff, completed, failed, and whether an `outbox_retry_decisions` row exists |
| `worker` | the claimed batch, the jobs claimed once too often, the job or refreshed item at hand, the manifest built or read |
| `vector`, `check` | the manifest stored with the embedding, and the one recorded last |
| `env` | how many faults, errors and changes have happened (bounds) |

Actions: `Approve` (the part of DecideKnowledge that concerns the index; who may
decide is not modelled here), `RequeueApprovedKnowledge`, `RetryKnowledgeIndex`,
`ClaimOutbox`; for a job `GetKnowledge`, `BuildKnowledgeProjection`, `Upsert`,
`VerifyKnowledgeProjection`, `RecordProjectionCheck`, `CompleteOutbox`,
`JobFails`, `RetryLimitExceeded`; for a refresh `BeginRefresh`,
`RecordSourceCheck`, `GetRefreshed`, `KnowledgeProjection` and then the last two
checks of a job; `LockExpires`, `BackoffEnds`, `ValidationExpires`, `Crash`.
`Refused` is what follows when one of the code's own checks fails: a job goes to
`FailOutbox`, a refresh is given up.

A manifest is its source digest and a verification id. `NewID` takes one that
nothing holds, and which does not matter; ids that nothing holds any more are
reused, so the small set of them never runs out. Content and
version of an approved item cannot change (`knowledge_retrieval_fields_guard`),
so they are left out. The embedding, the graph projection and the trace around a
job only ever fail (`JobFails`). Milvus is external: a strong read returns the
last write.

### Runs (MCKnowledgeIndex)

| Run | Checks | What it shows |
|---|---|---|
| `index_single` | `SearchableOnceDrained`, `QueueDrains` | With one worker, under polling and clocks that run, every job is completed or fails for good, and when every job of an eligible item is completed the vector store and the recorded manifest agree, whatever crash, failure, refresh, retry or re-approval happened. |
| `index_search` (violation) | `SearchableOnceDrained` | Two replicas index two jobs of one item: both complete, and the vector store holds the manifest of one while the recorded check names the other. |

The run `queues` (MCQueues, below) has the two replicas. One item is enough, since jobs of different items share only the batch; two
sources tell a re-approval from the approval before it; two workers give every
race of a slow holder with the one that took over; `MaxAttempts` is 2
instead of 10, which the retry loop reaches in the same way. Deadlock is
allowed: an empty queue is where the system rests.

Fairness of `index_single`: a worker polls on a ticker and works through what it
claimed, an abandoned lock and a backoff run out. Locks of a live worker need
not expire, and neither approvals nor faults need to happen.

### Proofs (KnowledgeIndexProofs)

`ApprovalsProjected` proves `CompletedApprovalIsProjected`, and
`IndexTypeCorrect` the types, for any finite set of items and any workers,
sources and bounds (`IndexAssumption`). The property alone is not inductive: the
worker that completes a job recorded the projection some steps earlier, and the
item may have been approved again since. `Inv` adds

- `ApprovalsHaveJobs`: an approval names a job of its own item;
- `WorkHeld`: what a worker holds exists and fits together, so the item at hand
  is the job's item and a manifest is present when one is needed;
- `RecordedIsCovered`: a worker past the record whose job is the current
  approval's leaves the item covered by the current sources. A re-approval
  names a job nobody can hold yet, which is why a late completion is harmless.

`WorkerStepKeeps` reduces every step to four facts (jobs kept, none newly
completed, approvals kept, cover kept); `CompleteStep` and `ApproveStep` are the
two steps that need their own argument.

`SearchableWithOneWorker` proves `SearchableOnceDrained` under the hypothesis
`Workers = {x}`; the run `index_search` shows that two replicas violate it. Two
more invariants, `SingleInv`, carry it:

- `SyncIn`: no job the worker holds is completed, because nobody else can complete it,
  and from the read-back on the vector store holds the worker's manifest, from
  the record on the check does too (a refresh verifies the manifest the check
  already names);
- `AgreedIn`: where vector and check differ, some job of the item is still open.
  An upsert may replace the vector and then crash, or fail; its job then
  is still open and will mend the difference.

TLC checked `SingleInv` on one worker (3.5 million states) before it was
proved.

`FinishedJobs` proves the action property `FinishedJobsRest`: no job is lost, a
completed or failed one stays so and is not claimed again, and its replacement is
not forgotten. Neither CompleteOutbox nor FailOutbox asks whose claim it is, so a
worker that was overtaken may report on a finished job. FailOutbox even writes
`failed` anew from the attempts, which could reopen a failed job if attempts
were taken back or counted for a finished one; `FailedAreSpent`, that a failed job
has used its attempts up, is the invariant that excludes it. A job may still be both completed and
failed. TLC checked property and invariant on two replicas first.

`QueueDrains` is liveness and is model-checked only.

## MCQueues

Both queues on small sets: the index jobs (KnowledgeIndex, extended) and the
stages of an incident (`Execution`, an instance of SDLCExecution). They share no
state, so a behaviour is one of a single queue (`part`), the other stays empty.

| Run | Checks | What it shows |
|---|---|---|
| `queues` | `TypeOK`, `CompletedApprovalIsProjected`, `SourcesChargedOnce`, `EvidenceImmutable` | The two queues, each by itself. Index jobs: two replicas work on the jobs of two approvals of one item with different sources, with a refresh, a lock that outlasts a slow batch, a failed call and a crash, and no approval's job is completed before its own sources were projected. Stages of an incident: diagnoses and their reclaims after two crashes, lost answers or lost leases, with source queries under colliding idempotency keys and a row budget that runs out; usage equals what the steps reserved, and what a step disclosed or reported never changes. |

Two replicas and two sources as above; two agents, two faults and three queries
of which two share a key, with rows for fewer than all of them. Contexts and
agents are interchangeable.

## The components around the two cores

Thirteen smaller modules, each with its own `Init`, `Next` and `Spec`. They
follow the same rule: a transaction, a request to an outside service or a file
operation is one action; what was read before it is kept with the process that
read it, and is stale when somebody else acts in between.

Two composing modules check them. `MCExecutors` and `MCRecords` extend their
components and start one of them (`part`), leaving the others at rest. The
components of a composition share no variable, so their interleavings would
only multiply states; where one does influence another, it is present in the
other as an environment step (owner decisions and base changes in
DeliveryEffects, candidate decisions in TaskCheckpoints, head changes in
SDLCExecution).

### External effects: DeliveryEffects, ReleaseContract, RemedyEffects

`delivery` is the row and open step as the gateway answers it (SDLCExecution has
it in full); `executor` what a process holds inside RunOne; `forge`, `files` and
`staging` are outside the platform. An action is a run and a *logical step*:
commit, archive and manifest are functions of both. `ReadEffect` is the read and
the guard before a write, then one of `PushBranch`, `CreatePull`,
`StoreArtifact`, `LockStaging`/`StoreRelease`/`CompareRelease`/`SelectRelease`,
`PostStatus`, then `ReadBack` and `AddEffect`. `TearFile` is a process that dies
inside `immutableFile`; the half-written file is a conflict for ever, as in the
code. Environment: `CrashDelivery`, `DeliveryLeaseExpires`, `WriteFails`,
`StopDelivery`, `ResumeDelivery`, `BaseAdvances`.

ReleaseContract says what a delivery promises with none of this in it: effects
appear one at a time and in order, staging moves only from the release the
action was told to replace, and an action is delivered only when all it names is
there. `ImplementsReleaseContract` is DeliveryEffects under the refinement
mapping `Contract` (a torn file is no artifact; a run past its deliver stage
reports the action it delivered).

In RemedyEffects requests stay in `flight` after their sender gave up; the
endpoint honours If-Match with the digest of its state. `RemediedByRecordedAction`
excludes an endpoint that somebody put back: the digest then matches again, and
a delayed request of an earlier step can replace it.

DeliveryProofs proves, for any runs, executors, steps and faults
(`DeliveryAssumption`), types, `RepeatsAreHarmless`, `CompletedIsWhole` and
`ImplementsReleaseContract`. None is inductive: what an executor completes was
written by earlier ones that may be dead. `DeliveryInv` adds

- `ClaimStands`: an executor's claim is the one the row knows, of its step's
  action, or an earlier one; `OneClaim`: no two share one;
- `WorkStands`: the effects an executor has behind it are there for good;
- `LateStands`: one that wrote after its clearance was gone is not about to
  write again;
- `ComparisonHolds`: between the comparison with current.json and the rename the
  lock is held and the release is still the one to replace;
- `CurrentIsWhole` and `RowsStand`: what staging serves and what a row reports
  is there.

The refinement (`DeliveryImplementsContract`) has one lemma per kind of step:
forge writes, artifact and release files, the selection and the completed
result each are one step of the contract, everything else leaves it alone.
`DeliveryEffectsInOrder` and `DeliveryEffectsStay` then take from the contract
what it implies by itself: a later effect of an action is never there without
the earlier ones, none is taken back, and staging only leaves the release the
action was told to replace. Their proofs look at the five steps of the contract and
at none of the executors.

WorkerProofs proves types and `RemedyIsItsOwn`. `RemedyInv` adds that every
request in flight carries the digest of the original state and that whoever
holds the lease works on the open step.

### StageWorker

One process in RunOne for build, evaluate and diagnose. `spool` is the local
content-addressed store, `held` what the gateway acknowledged. For each piece
`SpoolPut` looks whether the digest has a file, `WriteTemporary` and `Publish`
write and rename a new one, each of which may fail or be cut off by a crash, and
`SendArtifact` sends it; `CheckModel`, `Generate`, `CheckModelAgain` are a call
of the pinned model, which `ModelReplaced` may exchange, or put back, at any
time. `work.answeredBy` remembers what Ollama served when it answered,
`work.restored` that the pinned model came back between answer and second check.

WorkerProofs proves types and `EvidenceIsKept`: at every point of the handler
what was cited and what is still to be put add up to what a success must cite
(`Due`), what is sent is whole in the spool, only a whole temporary file is
renamed, and a result on its way to success was answered by the pinned model or
by one that was replaced again since.

### AgentPackages

Trials, campaigns, activation and rollback of one role's package. `pending` is
what the service checked before the transaction; `ActivatePackage` compares the
digest that was active then. `lockActivePackages` admits claims of regular runs.

GovernanceProofs proves types, `ActiveWasQualified`, `DecisionsChain` and
`ClaimsUnderDecidedPackage` for all packages, targets, owners
and bounds (`PackageAssumption`). `ActiveWasQualified` is not inductive: the
transaction trusts a campaign that an owner chose some steps before. `PackagesInv` adds

- `CampaignsShown`: a passed campaign still has a completed trial, of the kind it
  claims, and one with a rejected candidate. Trials only gain evidence, and a
  completed one no longer changes (`TrialsKept`);
- `RequestsFit`: a request on a staging target names a local-model campaign,
  which the transaction does not check again;
- `UndecidedInactive`: nothing is active before the first decision, without
  which the first link of the chain could not be shown;
- `NamesExist`: what campaigns and requests name exists.

### OperationTrace

An envelope and a tool operation around each call, an intent and an outcome for
each. The handler looks its idempotency key up (`HandleLookup`), adds the commit
record to its open transaction (`auditMutation`) and commits both
(`HandleCommit`); a record that cannot be written rolls everything back, and the
answer of a commit may be lost. `UnauditedCalls` are those of the two tools that
write no commit record. Then the export queue and its workers. `MissingOutcomes`
is what ReadWorkflowTrace reports as gaps.

WorkerProofs proves types and `EvidenceIsComplete`. `TraceInv` adds that no
handler runs without an intent, that an open transaction about to commit holds
its record unless the tool writes none, that an operation has no outcome before its
call ends, and that an exporter holds a record of the queue, received when its answer
says so.

### CodeGraph

Stored analyses with their projection and entity jobs, the AGE graph, the entity
vectors, an operator who rebuilds, requeues and compacts, and questions that are
answered by several reads. Symbols are stable keys; an analysis is a set of
symbols and a set of pairs. `AnswersFollowOneAnalysis` demands equality of the
recursive store and containment of AGE, where the repository's own vertex links
symbols that have no relation.

CodeGraphProofs proves types, `AnswersFollowOneAnalysis` and `ProjectionsCatchUp`.
An answer was traversed in a graph that may be replaced since: `CodeInv` adds that
the AGE graph, and what a task is about to write, is part of the analysis it is
marked with, and that a question whose projection did not leave and come back knows
only symbols within reach in its own analysis. That a part reaches no more than
the whole, and never leaves it, is shown by induction on the depth (`WithinGrows`,
`WithinStays`). For a single replica `OneReplicaInv` adds that whoever copies an
overtaken analysis has the job of the active one still before it, and that an
active symbol of a claimed batch was or will be read from the active analysis, or
has a newer event. The proof corrected the model: the history flag `moved`
kept changing after the second verification; it now follows the projection only
between the two.

### KnowledgeGovernance, Workflows, TaskCheckpoints

A candidate's capture, revision, validation and decision; a digest is the
content it is of. The workflow is its transition table, the role and gate checks
on the run that was read, and the comparison of version and state in the
transaction. The state compared is the one that was read, the version the
caller's (`expected`, ahead of the run by a member of `Ahead`; an older one
never commits), and nothing compares the two before; `passed.foretold` remembers
a QA validation committed that way. The task queue has its table, the head chosen outside of the
transaction that activates it, receipts of retrieved context and the checks of a
completion, which the transaction repeats.

GovernanceProofs proves types, `PromotedThroughGates`, `PublicationIsSound` and
`DecisionsTellTheStatus`; TasksProofs `OneTaskAtATimeInOrder` and the action
property `CompletionIsEarned`. The gates of a workflow are checked on a run that
was read earlier: `WorkflowInv` adds that row and history name the same people,
that every state lies behind its gates, and that a request whose version is the
one that was read, and which that version does not refuse, was checked on the row
as it is. Of a request sent ahead only the state is known, which is why
`PromotedThroughGates` makes one exception (`foretold`). `ValidationByAnother`
proves it away: with `Ahead` = {0} implementer and validator differ; the run
`qa_ahead` shows that the hypothesis is needed. `GovernanceInv` adds that
decisions name reports that exist. `TaskInv` adds that a request whose row is as
it was read still fits the table, that a head stays the head, and how far a
candidate came at each milestone (`Milestones`), without which a completion
could not be shown to be earned.

### Delegation

An operator's configured token, credentials derived from it for one task, the
sessions that use them, and the command that writes a token to a private file.
`Withdrawn` names what cannot come back: revocation, expiry, an ended task.

TasksProofs proves types, `WithdrawnStaysWithdrawn` and `NoOrphanAuthority`;
`DelegationInv` adds that what was lost stays withdrawn through restarts and
that a token is in the file, with its running command, void, or `orphaned` by one
of the three faults after which the command cannot act: a commit whose answer was
lost, a killed process, a revocation that failed too (`HandedOver`).

### ProductKnowledge, SemanticContext

Versions of a requirement and of an intent with attestation, decision and head;
observations under idempotency keys; evaluations that read their parts one by
one. `torn` remembers an evaluation stored or handed out over parts that could
not be read together at any moment of the request. In SemanticContext server and
workers run registries and models of their own, and the vector store keeps one
row per definition whatever its version.

ContextProofs proves types, `HeadIsNewestAccepted`, `EvaluationsAreSound` and
`ContextFollowsTheRegistry`. An evaluation reads its parts one by one:
`CallStands` says that what it read could be read together, or that something
it has yet to read is gone for good and will stop it. `ComparisonIsEarned` shows
for all envelopes that an outcome is what the rows show; it rests on
`KeysAreDistinct`, a counting argument on surjections. `ProjectionsAreApproved`
says of jobs, projections under way and vectors that their definitions are
approved, whoever projects them.

### SourceAdapters

Producers write events and watermarks while a query reads. Kafka lists offsets
one partition at a time and polls record by record; Loki reads rows and
watermarks in one range; Prometheus asks twice; PostgreSQL reads in one snapshot;
S3 compares the ETag before and after. The `mcp` backend is no source kind (see
below). The gateway checks the envelope
(`ValidEnvelope`) before it accepts it.

ContextProofs proves the types and `CompleteIsWhole`. `SourceInv` says of a read
in progress that it has seen a prefix of each log: its watermarks are from
there, and unless it is partial it has every event of the window that is there
(`SeenSoFar`). In a log, whatever of the window appears at all appeared before
the producer promised its end (`LogOrdered`, from the guard of `WriteEvent`). So
a read that saw every producer's last watermark saw the whole window
(`SeenIsWhole`), however far its scan was cut off, and the window never grows
again (`LogGrows`, `GrowthKeeps`). Loki's one answer, PostgreSQL's snapshot and
the lake's object get there without a prefix (`StreamsAreWhole`,
`SelectRowsKeepsInv`, `ExportKeepsInv`). The sections on folds say what
`appendRows` and `Entries` make of any sequence (`RowsFolded`, `EntriesFolded`,
`StepsRead`: every entry becomes a row, is outside the window or makes the answer
partial) and what `SetToSeq`, `SubSeq` and `FlattenSeq` return (`SetToSeqIs`,
`FirstOf`, `StreamOrder`). `CompleteWhole` assumes, if there is a PostgreSQL
source, that its watermark view lists every producer: the adapter takes the view
as reviewed, and with `WatermarkRows` smaller than `Producers` TLC finds a
complete answer that misses the event of a producer without a row.

### Proofs about these components

The six modules prove their theorems of each component's own specification, so
for every value of its constants. Besides finite sets and bounds the assumptions
say that `None`, the absent row or pointer of the code, is none of the rows or
words it stands beside; `MCExecutors` and `MCRecords` have TLC evaluate them.
Inductive invariants were model-checked before they were proved.

`RecordsImplementComponents` (TasksProofs) and `ExecutorsImplementComponents`
(WorkerProofs) show that the composed specifications of `MCRecords` and
`MCExecutors` imply the specification of each component: a step of the composition
is a step of one and a stutter of the others. Every theorem about a
component is therefore one about the composition the runs check; `RecordsTypes`
and `ExecutorsTypes` use it for the composed type invariants.

### The run `executors` (MCExecutors)

| Module | Checks | What could go wrong |
|---|---|---|
| all six | `ExecutorsTypeOK` | a component leaves the shapes its other operations rely on: a campaign without its runs, an operation with two outcomes, a relation without its symbols, a stage that ends without an outcome |
| DeliveryEffects | `RepeatsAreHarmless`, `CompletedIsWhole`, `ImplementsReleaseContract` | a cancelled or overtaken executor goes on writing; a repeated step opens a second branch; a torn file is certified |
| RemedyEffects | `RemedyIsItsOwn` | a delayed request lands on a state nobody authorized it for, or takes the place of the recorded remedy |
| StageWorker | `EvidenceIsKept` | a crash or a failed write leaves a damaged file under a digest; a success cites evidence the gateway lacks, or an answer of a model that replaced the pinned one |
| AgentPackages | `ActiveWasQualified`, `DecisionsChain` | two owners activate over one another; a package is active that never failed a negative trial |
| OperationTrace | `EvidenceIsComplete` | a refused record, a crash or a lost answer leaves an audited mutation without its evidence, or evidence of one that was rolled back; a retry is carried out twice; a record leaves the export queue although the collector refused it |
| CodeGraph | `AnswersFollowOneAnalysis`, `ProjectionsCatchUp` | an answer mixes two analyses; an analysis stored during a projection is never projected; compaction drops the event that mattered |

Bounds: three tool calls under two faults, one without a commit record and two
attempts of one request, whose retry is then answered from its key; the exporters
run beside one call (`ExportedCalls`), since they only read what calls have
written; two executors or owners (one stale, one new), two deliveries
that compete for one staging target, two steps, one fault for a delivery and
four for a remedy (a delayed request, a lost lease, a drift and a restore), two
trials and two campaigns so that a baseline can be replaced, three decisions so
that a rollback follows two activations, two analyses and a rebuild between
them. `CodeGraph` runs with one replica, because two can overwrite a newer graph
with an older one (below).

### The run `records` (MCRecords)

| Module | Checks | What could go wrong |
|---|---|---|
| all seven | `RecordsTypeOK` | a component leaves the shapes its other operations rely on: a head past the versions, a job of a rejected definition, an answer past its limit, a slot a failed read kept |
| KnowledgeGovernance | `PublicationIsSound`, `DecisionsTellTheStatus` | a revision slips between validation and decision; the validator publishes; a repeated decision decides again |
| Workflows | `PromotedThroughGates` | a gate checked on an earlier read, with a version the caller chose, admits a principal who has acted since |
| TaskCheckpoints | `OneTaskAtATimeInOrder`, `CompletionIsEarned` | two submitters activate two heads; a task completes on a candidate, report or context that was replaced, or without a review the route demands |
| Delegation | `WithdrawnStaysWithdrawn`, `NoOrphanAuthority` | a session outlives its authority; a restart with an old token revives it; a command that fails leaves a live credential nobody holds |
| ProductKnowledge | `HeadIsNewestAccepted`, `EvaluationsAreSound` | a head moves back; an evaluation joins records that never held together; missing evidence counts as satisfaction |
| SemanticContext | `ContextFollowsTheRegistry` | an approval rests on another registry; search returns a version the server does not run |
| SourceAdapters | `CompleteIsWhole` | an answer is called complete and misses an event |

Bounds: versions sent ahead by 6 for QA_VALIDATED, the distance from one QA
round to the next, and by 2 for two events of a task, where a revision and its
validation may pass in between (`AheadEvents`, `AheadTaskEvents`); the two
clients of the task queue are interchangeable; three actors of which one has both the development and the qa role, so
that separation is what stops it; a workflow long enough for a failed QA, its
revision and the whole way to promotion; a manual task with two candidate
versions before an automatic one; tokens with and without expiry; two versions
of a requirement; two registries and two models; two producers and a row limit
that one of them exceeds.

The run `qa_ahead` has the constants of `records` that concern workflows, with
the other components next to empty, and checks `ValidatedByAnother`: it is
violated (see Findings).

Both runs allow deadlock: a finished record has nothing left to do. They state
safety only: nothing in these components runs on a timer except the exporters
and index workers, whose liveness is that of `index_single`.

## Findings

Each is shown by a run that TLC must find violated.

- `reconcile_grant`, `WritesUnderOriginalDelegation` at `src/internal/postgres/execution.go:573`: The reconcile branch of ControlExecution sets run.Deadline and run.OwnerCredential for good. Once the read-back ends blocked the owner may resume: Resume only checks the deadline and credential reconcile has just renewed, so a remediation runs again as "running" after the original deadline has passed. The comment at src/internal/postgres/execution.go:569 says "An explicit current operator decision grants only bounded read-back. It cannot resume writes or silently renew the original delegation." and src/docs/sdlc-runtime.md:182 "It fences the old lease and cannot resume writes." The run shows an incident whose deadline passes during its remediation, a reconcile, a read-back with a blocked result, a resume, and then a newly leased remediation with status running although the grant had lapsed.
- `read_back`, `ReconcilingUntilReadBack` at `src/internal/postgres/execution.go:297`: ClaimExecution turns any active run, a reconciling one too, to blocked when lockExecutionRequirements fails (or the deadline has passed at line 309): the run leaves "reconciling" with its write still unread. src/docs/sdlc-runtime.md:178 says "An interrupted delivery/remedy remains `reconciling` until its external effects are observed." The run shows a claim that finds a changed head take a reconciling run to blocked while its step has no result.
- `concurrent_runs`, `ActiveRunsWithinTarget` at `src/internal/postgres/execution.go:140`: CreateExecution counts the active runs of the target (line 167) under an advisory lock keyed by project and owner, so two owners may both count before either inserts and MaxConcurrentRuns is exceeded. src/internal/domain/execution.go:51 requires of every target "execution requires bounded attempts, tokens, queries, duration and concurrency", and src/docs/sdlc-completion-checklist.md:23 lists "concurrency and total budgets" as enforced. The run shows two active runs under MaxConcurrentRuns = 1. The theorem OneOwnerWithinTarget shows that with one owner it takes a decision that makes a stopped run active again (resume at line 604 does not count).
- `index_search`, `SearchableOnceDrained` at `src/internal/postgres/projection_manifest.go:16`: docs/operations.md:466 says "The outbox worker completes `knowledge.upsert` before semantic search is expected to return the improvement." and docs/security.md:190 counts on idempotent Milvus upserts when "Multiple workers duplicate vector publication". Each job builds a manifest with a VerificationID of its own, so two jobs of one item on the two replicas of deploy/kubernetes/base/worker-deployment.yaml:6 are not idempotent: upsert and read back by the first, the same by the second, recorded by the second and then by the first. Both jobs complete, Milvus holds one digest and knowledge_projection_checks the other, search drops every hit of the item (src/internal/service/quality.go:180) and the refresh only logs the mismatch (src/internal/worker/worker.go:113).
- `qa_ahead`, `ValidatedByAnother` at `src/internal/service/workflow.go:266`: TransitionWorkflow checks the caller against the actors of the run it read (line 207) and passes the caller's own ExpectedVersion on; nothing compares that version with the run that was read. The transaction compares it with the row, and the state with the one that was read (src/internal/postgres/workflows.go:300), and a failed QA brings the run back to awaiting_human_qa. A request that names the version of that next round is thus checked against the implementer of the earlier one. src/docs/openclaw-agentic-automation-plan.md:156 says of the regulated profile "Separation of duties is mandatory." and "Configured gates require distinct authenticated principals". The run shows a QA_VALIDATED of a principal with the development and qa roles, checked while somebody else was the implementer, committed six versions later when that principal has implemented the revision; the promoted run has one principal as implementer and validator. The theorem ValidationByAnother shows that it takes such a version: if every caller sends the version the service reads, implementer and validator differ.

## Not modelled, and the plan

### Seen while modelling, without a run

Behaviour worth knowing, most of it without a property:

- **Model put back**: the client asks Ollama for the digest before and after a
  call (`agentmodel/ollama.go:139`, `:156`). A model that is replaced before the
  answer and put back before the second look is not noticed. `EvidenceIsKept`
  names this case (`work.restored`) and demands the pinned model in every other.
- **Mutations without a commit record**: `review_record`
  (`postgres/repository.go:253`) and `repository_relation_upsert`
  (`postgres/repositories.go:30`) commit without `auditMutation`
  (`UnauditedCalls`). When the answer of such a commit is lost, the trace shows an
  intent and a failed outcome, and nothing tells that the mutation happened.
- **Review after revision**: `docs/remote-review-learning.md:18` asks on the
  cloud route for a review "followed by an Ollama revision". The checkpoint asks
  for a review of the candidate, of whichever version, and for a version of at
  least 2 (`service/taskcheckpoint.go:283`, `:292`), so a revision made before the review
  serves. TLC reaches a completed task whose review is of its last version;
  `CompletionIsEarned` claims review and revision in either order and no more.
- **Expected versions**: like a workflow's, a task's transition carries the
  version its caller expects, which is compared with the row in the transaction
  and never with the row the service read (`service/taskcheckpoint.go:359`). What
  a completion needs is read again there, so `AheadOfTask` breaks nothing; for
  the QA gate of a workflow see `qa_ahead` above.
- **Orphaned credential**: if the commit of an issue takes effect but returns an error
  (`postgres/delegation.go:120`), if the command is killed before it wrote
  the token, or if the revocation after a failed write fails too, a live grant is
  left whose token nobody holds (`cmd/admin/delegation.go:66`). It ends with its
  lifetime or when it is revoked by its id, as `docs/task-delegation.md:36` says.
- **Loki** is asked for entries whose own timestamp lies in the window
  (`sourceadapter/http.go:82`). The model takes entries to be stamped in the order of
  their stream and not before their event; an entry stamped earlier than its event
  would be missing from an answer that calls itself complete.
- **Prometheus**: samples are queried before the watermarks
  (`sourceadapter/http.go:218`). What is written in between is covered by the
  watermark and missing from the rows of an answer that calls itself complete.
  `CompleteIsWhole` excludes Prometheus; without the exclusion TLC shows this.
- **Token counts**: a blocked result is stored before its model evidence is
  checked, so the tokens it reports are added unverified
  (`service/execution.go:588`). `TokenCounts` assumes they keep to the charge.
- **Diagnosis judged blocked**: `validExecutionTransition` refuses the pair, the
  result is never stored, and the step is reclaimed and charged again until its
  budget or grant ends (`postgres/execution.go:523`).
- **Receipts**: a failed source receipt answers its idempotency key for ever
  (`service/source.go:157`), as documented.
- **Kafka retention** may remove records of the window before they are scanned;
  the first offset is compared with nothing.
- **Remedy ETag**: a state changed and put back matches a delayed request again.
- **Task queue**: a `blocked` task has no way out, a candidate rejected after
  VALIDATION_PASSED waits for a promotion that cannot come, and a crash after a
  completion leaves the next head queued until somebody calls. Hence no liveness
  property of the queue.
- **Hydration** of task context takes the first approved version of a
  definition, which after an upgrade is not the newest
  (`docs/agent-ready-data-operations.md:261` describes the current one).
- **Token rotation**: `docs/task-delegation.md:69` says that the bootstrap
  "rotates parent credential rows on startup, which invalidates outstanding
  derived credentials". A restart with the same token keeps the row
  (`postgres/workflows.go:40`), and with it the derived credentials. A token
  that *was* replaced is not revived, which is what `WithdrawnStaysWithdrawn`
  checks.
- **AGE at depth two or more** reaches unrelated symbols through the
  repository's vertex, unlike the recursive query it stands in for; and its
  traversal is cut at 2001 paths before ids are made distinct.
- **Two replicas** of the index worker can leave the AGE graph, or a vector, at
  an older analysis until the next rebuild.

### Not modelled

- Transport, wiring and configuration (`httpserver/`, most of `mcpserver/`,
  `config/`, command lines other than the task-credential command): no state
  that outlives a call.
- The analyzers of Go and SCIP in `components/codegraph`: they turn bytes into a
  snapshot without state; a model would repeat them line by line.
- `components/workpacket`: a sequential decision on a disposable clone, by glob
  matching on text. StageWorker takes its verdict as a choice.
- `graphrag/`: ranking of what the stores return; nothing else relies on it.
- The policy engine and the model servers are external. Roles and separation
  are modelled where the gateway itself decides them.
- Sandbox isolation (`sdlcworker/sandbox.go`), OpenClaw's plugin, vault, backup
  and restore scripts: properties of the operating system and of operators.
- The `mcp` backend of a source view (`readMCP`, `sourceadapter/http.go:245`):
  the adapter checks that the tool is read-only and returns the envelope an external
  server made, so nothing in this code decides whether it is whole. It is no
  source kind of SourceAdapters; the gateway's `ValidEnvelope` applies to it as to
  the others.
- Inside modelled components: relations between product records and their search
  index, knowledge supersession links and readers' access checks, text quality
  review cases, the artifact count and size limits of a run.

### What is left

Every safety property of a passing run is a theorem; `SearchableOnceDrained` and
`ProjectionsCatchUp` hold, and are proved, for one replica only. Liveness
(`ActiveRunsSettle`, `QueueDrains`) stays with TLC: the prover has neither
fairness nor ENABLED. The properties of the runs that expect a violation are false
of the code; under the hypotheses named above four of them are theorems, and
`SearchableOnceDrained` is one for a single worker.

To model: text quality cases, product relations and their index jobs, and the
supersession of knowledge.

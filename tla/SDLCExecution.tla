--------------------------- MODULE SDLCExecution ---------------------------
(***************************************************************************)
(* The bounded SDLC execution runtime: runs, fenced stage leases, budgets, *)
(* results and owner control, as PostgreSQL stores them                    *)
(* (internal/postgres/execution.go) and as the gateway service             *)
(* (internal/service/execution.go) and the worker loop                     *)
(* (internal/sdlcworker/worker.go) drive them.                             *)
(*                                                                         *)
(* A repository method runs in one transaction that holds the run's row    *)
(* lock, so it is one action.  What the service or a worker reads before   *)
(* that transaction is a separate, earlier action: the worker keeps what   *)
(* it read in worker[w], and anybody may act in between.                   *)
(*                                                                         *)
(* Time is never read as a number: the code only compares a lease and a    *)
(* deadline with the present.  A lease is "live" until LeaseExpires, a     *)
(* deadline is "open" until DeadlinePasses.  A lease never outlives its    *)
(* run's deadline (minTime in ClaimExecution), so the latter does both.    *)
(***************************************************************************)
EXTENDS Integers, Sequences, FiniteSets, FiniteSetsExt

CONSTANTS
    Runs,               \* runs; each stands for one (owner, idempotency key)
    Workers,            \* worker processes, any of them for any role
    Patches,            \* digests of candidate patches
    Contexts,           \* digests of disclosed stage contexts
    Queries,            \* source queries, as [key |-> k, limit |-> n]
    None,               \* no digest, no outcome, no pending request
    OwnerOf,            \* [Runs -> owners]
    Kind,               \* [Runs -> {"feature", "incident"}]
    Concurrency,        \* [Runs -> Nat]: pkg.Concurrency of the run's packages
    Charge,             \* MaxTokenCharge of the model package
    TokenCounts,        \* tokens a model call may really use; Ollama keeps to the
                        \* num_predict and prompt limits the charge is made of
    MaxModelCalls, MaxAttempts, MaxTokens,  \* ExecutionBudget
    MaxSourceQueries, MaxSourceRows,
    MaxConcurrentRuns,
    MaxFaults,          \* bound: crashes, lost answers, leases lost by a slow worker,
                        \* results whose verdict the repository will refuse
    MaxControls,        \* bound: decisions of owners
    MaxChanges          \* bound: context changes and credential revocations

ASSUME BudgetAssumption ==
    /\ Charge \in Nat /\ TokenCounts \subseteq 0 .. Charge
    /\ MaxModelCalls \in Nat /\ MaxAttempts \in Nat /\ MaxTokens \in Nat
    /\ MaxSourceQueries \in Nat /\ MaxSourceRows \in Nat
    /\ MaxConcurrentRuns \in Nat
    /\ MaxFaults \in Nat /\ MaxControls \in Nat /\ MaxChanges \in Nat
    /\ Concurrency \in [Runs -> Nat \ {0}]
    /\ Queries \subseteq [key : {q.key : q \in Queries}, limit : Nat]

ASSUME NameAssumption ==
    /\ Kind \in [Runs -> {"feature", "incident"}]
    /\ None \notin Patches \cup Contexts \cup Runs
    /\ None \notin {"blocked", "failed", "succeeded"}

VARIABLES
    run,        \* the sdlc_executions row of each run
    steps,      \* its sdlc_execution_steps rows in order of step_number
    worker,     \* what each worker process holds between two calls
    request,    \* the state an owner's pending control decision was read from
    grant,      \* the owner's delegation: deadline and pinned credential
    current,    \* lockExecutionRequirements would find every head unchanged
    env         \* how many faults, decisions and changes have happened

vars == <<run, steps, worker, request, grant, current, env>>

-----------------------------------------------------------------------------
(* Stages, roles and resources *)

EffectStages == {"deliver", "remediate"}
ModelStages == {"build", "diagnose"}
Stages == {"build", "evaluate", "deliver", "verify_delivery",
           "diagnose", "remediate", "verify_recovery"}

\* "blocked" stands for the three outcomes blocked, unavailable and
\* inconclusive, which every function treats alike.
Outcomes == {"succeeded", "failed", "blocked"}

Statuses == {"absent", "creating", "ready", "running", "reconciling",
             "blocked", "paused", "completed", "cancelled"}
ActiveStatuses == {"ready", "running", "reconciling"}
TerminalStatuses == {"completed", "cancelled"}

ExecutionRole(stage) ==
    CASE stage = "build" -> "sdlc_builder"
      [] stage \in {"evaluate", "verify_delivery", "verify_recovery"} -> "sdlc_evaluator"
      [] stage = "deliver" -> "sdlc_delivery"
      [] stage = "diagnose" -> "sdlc_diagnosis"
      [] stage = "remediate" -> "sdlc_remediation"

FirstStage(kind) == IF kind = "incident" THEN "diagnose" ELSE "build"

\* The table of validExecutionTransition.
NextStage(stage) ==
    CASE stage = "build" -> "evaluate"
      [] stage = "evaluate" -> "deliver"
      [] stage = "deliver" -> "verify_delivery"
      [] stage = "diagnose" -> "remediate"
      [] stage = "remediate" -> "verify_recovery"
      [] OTHER -> None

\* resource_key: the sandbox image, the pinned model or the executor of a
\* role.  One model serves both model stages, one image every evaluator stage.
ResourceKey(stage) ==
    IF stage \in ModelStages THEN "ollama"
    ELSE IF ExecutionRole(stage) = "sdlc_evaluator" THEN "sandbox"
    ELSE ExecutionRole(stage)

-----------------------------------------------------------------------------
(* Reading the stored rows *)

StepNumber(r) == Len(steps[r])
CurrentStep(r) == steps[r][StepNumber(r)]
InFlight(r) == StepNumber(r) > 0 /\ CurrentStep(r).outcome = None
\* Mutant: an open step counts as leased for ever.
Leased_IgnoresExpiry(r) == InFlight(r)

Leased(r) == InFlight(r) /\ CurrentStep(r).lease = "live"

ResultsOf(r, stage) ==
    {i \in 1 .. StepNumber(r) : steps[r][i].stage = stage /\ steps[r][i].outcome # None}

\* Mutant: the oldest result of the stage instead of the newest.
LatestExecutionResult_Oldest(r, stage) ==
    IF ResultsOf(r, stage) = {} THEN None
    ELSE steps[r][Min(ResultsOf(r, stage))].digest

\* The digest in the newest result of a stage; the empty digest without one.
LatestExecutionResult(r, stage) ==
    IF ResultsOf(r, stage) = {} THEN None
    ELSE steps[r][Max(ResultsOf(r, stage))].digest

\* The other runs whose live leases occupy a resource, and the smallest
\* concurrency any of them was admitted under.
Holders(key) == {q \in Runs : Leased(q) /\ ResourceKey(CurrentStep(q).stage) = key}

\* Mutant: only the claiming package's own concurrency is compared.
ResourceFree_OwnLimitOnly(r) ==
    Cardinality(Holders(ResourceKey(run[r].stage))) < Concurrency[r]

\* Mutant: an off-by-one that leaves a concurrency of one no slot.
ResourceFree_OffByOne(r) ==
    LET holders == Holders(ResourceKey(run[r].stage))
    IN  \A q \in holders \cup {r} : Cardinality(holders) + 1 < Concurrency[q]

ResourceFree(r) ==
    LET holders == Holders(ResourceKey(run[r].stage))
    IN  \A q \in holders \cup {r} : Cardinality(holders) < Concurrency[q]

\* Mutant: the token budget is checked before the charge is added.
ModelBudgetLeft_ChargeLeftOut(r) ==
    /\ run[r].modelCalls < MaxModelCalls
    /\ run[r].charged <= MaxTokens
    /\ run[r].attempts < MaxAttempts

ModelBudgetLeft(r) ==
    /\ run[r].modelCalls < MaxModelCalls
    /\ run[r].charged + Charge <= MaxTokens
    /\ run[r].attempts < MaxAttempts

IdleWorker == [pc |-> "idle", run |-> None, role |-> None, step |-> 0, fence |-> 0,
               outcome |-> None, digest |-> None, tokens |-> 0,
               status |-> None, stage |-> None]

\* checkExecutionLease: the worker still owns the run's current step.  A
\* lease token is random for every claim, so (step, fence) identifies it.
CheckExecutionLease(w) ==
    LET r == worker[w].run
    IN  /\ r \in Runs
        /\ worker[w].role = ExecutionRole(run[r].stage)
        /\ grant[r].owner = "live"
        /\ InFlight(r)
        /\ worker[w].step = StepNumber(r)
        /\ worker[w].fence = CurrentStep(r).fence
        /\ CurrentStep(r).lease = "live"
        /\ run[r].status \in {"running", "reconciling"}
        /\ grant[r].deadline = "open"
        /\ current[r]

-----------------------------------------------------------------------------
(* Writing the stored rows *)

\* Mutant: the version is not advanced.
saveExecution_SameVersion(r, record) == run' = [run EXCEPT ![r] = record]

\* saveExecution: every committed change of a run takes the next version.
saveExecution(r, record) ==
    run' = [run EXCEPT ![r] = [record EXCEPT !.version = run[r].version + 1]]

saveExecutionStep(r, step) ==
    steps' = [steps EXCEPT ![r] = [steps[r] EXCEPT ![StepNumber(r)] = step]]

\* The control actions that take the step away: the lease ends now and the
\* fence moves past every lease handed out so far.
Fenced(step) == [step EXCEPT !.lease = "expired", !.fence = @ + 1]

NewStep(stage) ==
    [stage |-> stage, fence |-> 0, lease |-> "expired", ctx |-> None,
     outcome |-> None, digest |-> None, reserved |-> {}]

Becomes(w, record) == worker' = [worker EXCEPT ![w] = record]
GivesUp(w) == Becomes(w, IdleWorker)
Fault == env.faults < MaxFaults /\ env' = [env EXCEPT !.faults = @ + 1]
Decision == env.controls < MaxControls /\ env' = [env EXCEPT !.controls = @ + 1]
Change == env.changes < MaxChanges /\ env' = [env EXCEPT !.changes = @ + 1]

-----------------------------------------------------------------------------
Init ==
    /\ run = [r \in Runs |-> [status |-> "absent", stage |-> FirstStage(Kind[r]),
                              version |-> 0, modelCalls |-> 0, attempts |-> 0,
                              charged |-> 0, actual |-> 0, queries |-> 0, rows |-> 0]]
    /\ steps = [r \in Runs |-> << >>]
    /\ worker = [w \in Workers |-> IdleWorker]
    /\ request = [r \in Runs |-> None]
    /\ grant = [r \in Runs |-> [deadline |-> "open", owner |-> "live", lapsed |-> FALSE]]
    /\ current = [r \in Runs |-> TRUE]
    /\ env = [faults |-> 0, controls |-> 0, changes |-> 0]

-----------------------------------------------------------------------------
(* CreateExecution.  The count of active runs and the insert are one       *)
(* transaction, but the advisory lock it holds is the owner's: two owners  *)
(* may both count before either inserts.                                   *)

ActiveRuns == {r \in Runs : run[r].status \in ActiveStatuses}

CountActiveRuns(r) ==
    /\ run[r].status = "absent"
    /\ current[r] /\ grant[r].owner = "live" /\ grant[r].deadline = "open"
    /\ \A q \in Runs : OwnerOf[q] = OwnerOf[r] => run[q].status # "creating"
    /\ Cardinality(ActiveRuns) < MaxConcurrentRuns
    /\ run' = [run EXCEPT ![r].status = "creating"]
    /\ UNCHANGED <<steps, worker, request, grant, current, env>>

InsertExecution(r) ==
    /\ run[r].status = "creating"
    /\ saveExecution(r, [run[r] EXCEPT !.status = "ready"])
    /\ UNCHANGED <<steps, worker, request, grant, current, env>>

-----------------------------------------------------------------------------
(* ClaimExecution.  The service first reads the run and refuses a worker   *)
(* whose grant is over (CheckExecutionReader); the transaction comes later *)

BeginClaim(w, r) ==
    /\ worker[w].pc = "idle"
    /\ run[r].status \in ActiveStatuses
    /\ grant[r].deadline = "open" /\ grant[r].owner = "live"
    /\ Becomes(w, [IdleWorker EXCEPT !.pc = "claiming", !.run = r,
                                     !.role = ExecutionRole(run[r].stage)])
    /\ UNCHANGED <<run, steps, request, grant, current, env>>

\* Mutant: the status read before the transaction is trusted.
Claimable_StatusUnchecked(w, r) ==
    /\ worker[w].pc = "claiming" /\ worker[w].run = r
    /\ worker[w].role = ExecutionRole(run[r].stage)
    /\ grant[r].owner = "live"

\* The claim is the assigned actor's, under a live grant, of an active run.
Claimable(w, r) ==
    /\ worker[w].pc = "claiming" /\ worker[w].run = r
    /\ worker[w].role = ExecutionRole(run[r].stage)
    /\ grant[r].owner = "live"
    /\ run[r].status \in ActiveStatuses

NeedsModel(r) == run[r].stage \in ModelStages

\* The claims that stop the run instead: a changed head, a passed deadline,
\* an exhausted model budget.  An open step stays open.
ClaimStops(w, r) ==
    /\ Claimable(w, r)
    /\ \/ ~current[r]
       \/ grant[r].deadline = "passed"
       \/ ~Leased(r) /\ ResourceFree(r) /\ NeedsModel(r) /\ ~ModelBudgetLeft(r)

ClaimBlocked(w, r) ==
    /\ ClaimStops(w, r)
    /\ saveExecution(r, [run[r] EXCEPT !.status = "blocked"])
    /\ GivesUp(w)
    /\ UNCHANGED <<steps, request, grant, current, env>>

\* A claim is granted on a new step, or on the open step of an expired lease
\* (a reclaim); a model stage is charged in full either way.
Grantable(w, r) ==
    /\ Claimable(w, r) /\ current[r] /\ grant[r].deadline = "open"
    /\ ~Leased(r) /\ ResourceFree(r)
    /\ NeedsModel(r) => ModelBudgetLeft(r)

\* Mutant: a reclaim keeps the fence.
LeasedStep_SameFence(step) ==
    [step EXCEPT !.fence = IF @ = 0 THEN 1 ELSE @, !.lease = "live"]

LeasedStep(step) == [step EXCEPT !.fence = @ + 1, !.lease = "live"]

Charged(r) ==
    IF NeedsModel(r)
    THEN [run[r] EXCEPT !.modelCalls = @ + 1, !.attempts = @ + 1, !.charged = @ + Charge]
    ELSE run[r]

\* Mutant: the run takes a word that is no status of a run.
Claimed_NoStatus(r) ==
    [Charged(r) EXCEPT !.status = IF @ = "reconciling" THEN @ ELSE "leased"]

Claimed(r) ==
    [Charged(r) EXCEPT !.status = IF @ = "reconciling" THEN @ ELSE "running"]

\* Mutant: a claim always opens a new step.
ClaimedSteps_NeverReclaims(r) == Append(steps[r], LeasedStep(NewStep(run[r].stage)))

ClaimedSteps(r) ==
    IF InFlight(r) THEN [steps[r] EXCEPT ![StepNumber(r)] = LeasedStep(CurrentStep(r))]
    ELSE Append(steps[r], LeasedStep(NewStep(run[r].stage)))

ClaimGranted(w, r) ==
    /\ Grantable(w, r)
    /\ steps' = [steps EXCEPT ![r] = ClaimedSteps(r)]
    /\ saveExecution(r, Claimed(r))
    /\ Becomes(w, [worker[w] EXCEPT !.pc = "leased", !.step = StepNumber(r)',
                                    !.fence = CurrentStep(r)'.fence])
    /\ UNCHANGED <<request, grant, current, env>>

ClaimRefused(w, r) ==
    /\ worker[w].pc = "claiming" /\ worker[w].run = r
    /\ ~ClaimStops(w, r) /\ ~Grantable(w, r)
    /\ GivesUp(w)
    /\ UNCHANGED <<run, steps, request, grant, current, env>>

-----------------------------------------------------------------------------
(* Work under a lease.  Every call checks the lease again; a worker whose  *)
(* lease is gone gets an error and leaves RunOne.                          *)

\* Mutant: every call binds its own disclosure.
Disclosed_Rebinds(step, c) == [step EXCEPT !.ctx = c]

Disclosed(step, c) == [step EXCEPT !.ctx = IF @ = None THEN c ELSE @]

\* ExecutionContext: the first call binds the disclosure to the step, a
\* later one, or one of a reclaimed lease, reads the bound one again.
BindContext(w, r, c) ==
    /\ worker[w].pc = "leased" /\ worker[w].run = r
    /\ CheckExecutionLease(w)
    /\ saveExecutionStep(r, Disclosed(CurrentStep(r), c))
    /\ Becomes(w, [worker[w] EXCEPT !.pc = "working"])
    /\ UNCHANGED <<run, request, grant, current, env>>

\* Mutant: reservations are not looked up.
Reserved_Forgotten(r, key) == {}

\* ReserveExecutionSource: the exact retry of a reserved query costs nothing,
\* another query under its key is refused.
Reserved(r, key) == {q \in CurrentStep(r).reserved : q.key = key}

ReserveSource(w, r, q) ==
    /\ worker[w].pc = "working" /\ worker[w].run = r
    /\ CheckExecutionLease(w)
    /\ run[r].stage \in {"diagnose", "verify_recovery"}
    /\ Reserved(r, q.key) = {}
    /\ run[r].queries < MaxSourceQueries
    /\ run[r].rows + q.limit <= MaxSourceRows
    /\ saveExecutionStep(r, [CurrentStep(r) EXCEPT !.reserved = @ \cup {q}])
    /\ saveExecution(r, [run[r] EXCEPT !.queries = @ + 1, !.rows = @ + q.limit])
    /\ UNCHANGED <<worker, request, grant, current, env>>

-----------------------------------------------------------------------------
(* CompleteExecution.  The service derives a verdict from the view it read *)
(* under the lease; the repository commits it in a later transaction that  *)
(* checks the lease and the transition again.                              *)

\* The verdict of a result is the status and the stage it earns; a result
\* that earns none is an error.
Stay(r) == <<"blocked", run[r].stage>>

\* A diagnosis, and a recovery, is judged on observations, evaluations and
\* hypotheses that are not modelled: one that claims success may be blocked.
validateDiagnosis(r) == {<<"ready", "remediate">>, Stay(r)}
validateRecovery(r) == {<<"completed", run[r].stage>>, Stay(r)}

\* The effects of a feature are receipts for the newest candidate; the
\* receipts of a remedy name no candidate.
validateExecutionEffects(r, digest) ==
    Kind[r] = "feature" => digest = LatestExecutionResult(r, "build")

validateExecutionResult(r, outcome, digest) ==
    CASE outcome = "blocked" -> {Stay(r)}
      [] outcome = "failed" ->
            IF run[r].stage # "evaluate" THEN {Stay(r)}
            ELSE IF digest = LatestExecutionResult(r, "build") THEN {<<"ready", "build">>}
            ELSE {}
      [] outcome = "succeeded" ->
            CASE run[r].stage = "build" ->
                    IF digest \in Patches THEN {<<"ready", "evaluate">>} ELSE {}
              [] run[r].stage = "evaluate" ->
                    IF digest = LatestExecutionResult(r, "build") THEN {<<"ready", "deliver">>} ELSE {}
              [] run[r].stage = "diagnose" -> validateDiagnosis(r)
              [] run[r].stage = "verify_recovery" -> validateRecovery(r)
              [] run[r].stage \in {"deliver", "remediate", "verify_delivery"} ->
                    IF ~validateExecutionEffects(r, digest) THEN {}
                    ELSE IF run[r].stage = "deliver" THEN {<<"ready", "verify_delivery">>}
                    ELSE IF run[r].stage = "remediate" THEN {<<"ready", "verify_recovery">>}
                    ELSE {<<"completed", run[r].stage>>}

\* The repository's own table of legal transitions.
validExecutionTransition(from, outcome, status, to) ==
    CASE outcome = "blocked" -> status = "blocked" /\ from = to
      [] outcome = "failed" ->
            \/ from = "evaluate" /\ status = "ready" /\ to = "build"
            \/ status = "blocked" /\ from = to
      [] outcome = "succeeded" ->
            IF from \in {"verify_delivery", "verify_recovery"}
            THEN status = "completed" /\ to = from
            ELSE status = "ready" /\ NextStage(from) = to

SubmitResult(w, r, outcome, digest, tokens) ==
    /\ worker[w].pc = "working" /\ worker[w].run = r
    /\ CheckExecutionLease(w)
    /\ tokens \in IF NeedsModel(r) THEN TokenCounts ELSE {0}
    /\ digest # None => Kind[r] = "feature" /\ outcome # "blocked"
    /\ \E verdict \in validateExecutionResult(r, outcome, digest) :
          /\ Becomes(w, [worker[w] EXCEPT !.pc = "submitted", !.outcome = outcome,
                                         !.digest = digest, !.tokens = tokens,
                                         !.status = verdict[1], !.stage = verdict[2]])
          /\ IF validExecutionTransition(run[r].stage, outcome, verdict[1], verdict[2])
             THEN UNCHANGED env ELSE Fault
    /\ UNCHANGED <<run, steps, request, grant, current>>

\* The run a committed result leaves behind.  A run being reconciled ends,
\* whatever the service derived from the state it had read.
Completed(w, r) ==
    LET reconciling == run[r].status = "reconciling"
    IN  [run[r] EXCEPT
            !.actual = @ + worker[w].tokens,
            !.stage = IF reconciling THEN @ ELSE worker[w].stage,
            !.status = IF ~reconciling THEN worker[w].status
                       ELSE IF worker[w].outcome = "succeeded" THEN "cancelled"
                       ELSE "blocked"]

HasResult(w) == steps[worker[w].run][worker[w].step].outcome # None

Committable(w) ==
    /\ CheckExecutionLease(w)
    /\ CurrentStep(worker[w].run).ctx # None
    /\ validExecutionTransition(CurrentStep(worker[w].run).stage, worker[w].outcome,
                                worker[w].status, worker[w].stage)

\* The worker leaves RunOne, or the answer was lost and the call is repeated.
CommitResult(w, r) ==
    /\ worker[w].pc = "submitted" /\ worker[w].run = r
    /\ ~HasResult(w) /\ Committable(w)
    /\ saveExecutionStep(r, [CurrentStep(r) EXCEPT !.outcome = worker[w].outcome,
                                                   !.digest = worker[w].digest])
    /\ saveExecution(r, Completed(w, r))
    /\ \/ GivesUp(w) /\ UNCHANGED env
       \/ Fault /\ UNCHANGED worker
    /\ UNCHANGED <<request, grant, current>>

\* A repeated call finds the stored result: it is returned if it is the same
\* and a conflict otherwise.  A call whose lease is gone is an error.
ResultNotTaken(w, r) ==
    /\ worker[w].pc = "submitted" /\ worker[w].run = r
    /\ HasResult(w) \/ ~Committable(w)
    /\ GivesUp(w)
    /\ UNCHANGED <<run, steps, request, grant, current, env>>

\* Any other call of a worker whose lease is gone.
LeaseLost(w, r) ==
    /\ worker[w].pc \in {"leased", "working"} /\ worker[w].run = r
    /\ ~CheckExecutionLease(w)
    /\ GivesUp(w)
    /\ UNCHANGED <<run, steps, request, grant, current, env>>

\* The process dies or abandons the call; what it wrote stays.
Crash(w) ==
    /\ worker[w].pc # "idle"
    /\ Fault /\ GivesUp(w)
    /\ UNCHANGED <<run, steps, request, grant, current>>

-----------------------------------------------------------------------------
(* ControlExecution: the owner reads the run, decides, and sends the       *)
(* decision with the version it has read.                                  *)

OwnerReads(r) ==
    /\ run[r].status \notin {"absent", "creating"} \cup TerminalStatuses
    /\ request[r] = None
    /\ Decision
    /\ request' = [request EXCEPT ![r] = [version |-> run[r].version, status |-> run[r].status,
                                          stage |-> run[r].stage, step |-> StepNumber(r)]]
    /\ UNCHANGED <<run, steps, worker, grant, current>>

Decides(r) ==
    /\ request[r] # None /\ request[r].version = run[r].version
    /\ run[r].status \notin TerminalStatuses
    /\ request' = [request EXCEPT ![r] = None]
    /\ UNCHANGED <<worker, current, env>>

\* Mutant: the stage alone decides, whether or not a step is open.
EffectInFlight_StageOnly(r) == run[r].stage \in EffectStages

EffectInFlight(r) == InFlight(r) /\ run[r].stage \in EffectStages

\* An interrupted write is never abandoned: the executor has to read it back.
Halts(r, status) ==
    /\ Decides(r)
    /\ IF EffectInFlight(r)
       THEN saveExecution(r, [run[r] EXCEPT !.status = "reconciling"]) /\ UNCHANGED steps
       ELSE /\ saveExecution(r, [run[r] EXCEPT !.status = status])
            /\ IF InFlight(r) THEN saveExecutionStep(r, Fenced(CurrentStep(r)))
               ELSE UNCHANGED steps
    /\ UNCHANGED grant

Pause(r) == Halts(r, "paused")
Cancel(r) == Halts(r, "cancelled")

Resume(r) ==
    /\ Decides(r)
    /\ run[r].status \in {"paused", "blocked"}
    /\ grant[r].owner = "live" /\ current[r] /\ grant[r].deadline = "open"
    /\ saveExecution(r, [run[r] EXCEPT !.status = "ready"])
    /\ UNCHANGED <<steps, grant>>

\* Five more minutes for the executor of an open external write, under the
\* credential the owner acts with now.
Reconcile(r) ==
    /\ Decides(r)
    /\ EffectInFlight(r) /\ CurrentStep(r).ctx # None
    /\ grant' = [grant EXCEPT ![r].deadline = "open", ![r].owner = "live"]
    /\ saveExecution(r, [run[r] EXCEPT !.status = "reconciling"])
    /\ saveExecutionStep(r, Fenced(CurrentStep(r)))

\* A stale version, a finished run or an inapplicable action changes nothing.
ControlRefused(r) ==
    /\ request[r] # None
    /\ request' = [request EXCEPT ![r] = None]
    /\ UNCHANGED <<run, steps, worker, grant, current, env>>

Control(r) == Pause(r) \/ Cancel(r) \/ Resume(r) \/ Reconcile(r) \/ ControlRefused(r)

-----------------------------------------------------------------------------
(* Time and the rest of the platform *)

Expire(r) == saveExecutionStep(r, [CurrentStep(r) EXCEPT !.lease = "expired"])

\* Somebody still works under the lease of the run's open step.
Held(r) == \E w \in Workers : /\ worker[w].pc \in {"leased", "working", "submitted"}
                              /\ worker[w].run = r /\ worker[w].step = StepNumber(r)
                              /\ worker[w].fence = CurrentStep(r).fence

LeaseExpires(r) ==
    /\ Leased(r)
    /\ Expire(r)
    /\ IF Held(r) THEN Fault ELSE UNCHANGED env
    /\ UNCHANGED <<run, worker, request, grant, current>>

DeadlinePasses(r) ==
    /\ run[r].status # "absent" /\ grant[r].deadline = "open"
    /\ grant' = [grant EXCEPT ![r].deadline = "passed", ![r].lapsed = TRUE]
    /\ IF Leased(r) THEN Expire(r) ELSE UNCHANGED steps
    /\ UNCHANGED <<run, worker, request, current, env>>

\* Another head of an intent, binding, code revision or active package, and
\* its restoration; the end of the owner credential the run is pinned to.
HeadsChange(r) ==
    /\ Change /\ current' = [current EXCEPT ![r] = ~@]
    /\ UNCHANGED <<run, steps, worker, request, grant>>

OwnerRevoked(r) ==
    /\ grant[r].owner = "live"
    /\ Change /\ grant' = [grant EXCEPT ![r].owner = "dead"]
    /\ UNCHANGED <<run, steps, worker, request, current>>

-----------------------------------------------------------------------------
WorkerStep(w, r) ==
    \/ BeginClaim(w, r) \/ ClaimBlocked(w, r) \/ ClaimGranted(w, r) \/ ClaimRefused(w, r)
    \/ \E c \in Contexts : BindContext(w, r, c)
    \/ \E q \in Queries : ReserveSource(w, r, q)
    \/ \E o \in Outcomes, d \in Patches \cup {None}, t \in TokenCounts \cup {0} : SubmitResult(w, r, o, d, t)
    \/ CommitResult(w, r) \/ ResultNotTaken(w, r) \/ LeaseLost(w, r)

RunStep(r) ==
    \/ CountActiveRuns(r) \/ InsertExecution(r)
    \/ OwnerReads(r) \/ Control(r)
    \/ LeaseExpires(r) \/ DeadlinePasses(r) \/ HeadsChange(r) \/ OwnerRevoked(r)

Next ==
    \/ \E r \in Runs : RunStep(r)
    \/ \E w \in Workers, r \in Runs : WorkerStep(w, r)
    \/ \E w \in Workers : Crash(w)

Spec == Init /\ [][Next]_vars

\* Workers poll every run they may serve every two seconds and never wait for
\* each other, so each of them keeps trying each run and finishes what it
\* began; an abandoned lease runs out.  Nothing obliges an owner to act, a
\* head to change or a deadline to pass.
FairSpec ==
    /\ Spec
    /\ \A w \in Workers, r \in Runs :
          /\ SF_vars(BeginClaim(w, r))
          /\ WF_vars(WorkerStep(w, r) /\ worker[w].pc # "idle")
    /\ \A r \in Runs : WF_vars(LeaseExpires(r) /\ ~Held(r))

-----------------------------------------------------------------------------
(* Properties *)

RunRecord ==
    [status : Statuses, stage : Stages, version : Nat, modelCalls : Nat, attempts : Nat,
     charged : Nat, actual : Nat, queries : Nat, rows : Nat]
StepRecord ==
    [stage : Stages, fence : Nat, lease : {"live", "expired"}, ctx : Contexts \cup {None},
     outcome : Outcomes \cup {None}, digest : Patches \cup {None}, reserved : SUBSET Queries]
WorkerRecord ==
    [pc : {"idle", "claiming", "leased", "working", "submitted"}, run : Runs \cup {None},
     role : {ExecutionRole(s) : s \in Stages} \cup {None}, step : Nat, fence : Nat,
     outcome : Outcomes \cup {None}, digest : Patches \cup {None}, tokens : 0 .. Charge,
     status : Statuses \cup {None}, stage : Stages \cup {None}]
RequestRecord == [version : Nat, status : Statuses, stage : Stages, step : Nat]

\* Every stored row and every held value has the shape its Go type gives it.
TypeOK ==
    /\ run \in [Runs -> RunRecord]
    /\ steps \in [Runs -> Seq(StepRecord)]
    /\ worker \in [Workers -> WorkerRecord]
    /\ request \in [Runs -> RequestRecord \cup {None}]
    /\ grant \in [Runs -> [deadline : {"open", "passed"}, owner : {"live", "dead"}, lapsed : BOOLEAN]]
    /\ current \in [Runs -> BOOLEAN]
    /\ env \in [faults : Nat, controls : Nat, changes : Nat]

\* Only the newest step can be open, and an open step is of the run's own
\* stage: a reclaim (ClaimExecution, run.StepNumber) resumes the right stage.
StepHistorySound ==
    \A r \in Runs :
        /\ \A i \in 1 .. StepNumber(r) : i < StepNumber(r) => steps[r][i].outcome # None
        /\ InFlight(r) => CurrentStep(r).stage = run[r].stage

\* A run that is reconciling still has the interrupted write's step open, so
\* its executor can claim it and read the effect back (ControlExecution).
ReconcilingHasOpenEffect ==
    \A r \in Runs : run[r].status = "reconciling" =>
        InFlight(r) /\ CurrentStep(r).stage \in EffectStages

\* Two workers never both pass checkExecutionLease for one run, however leases
\* expired, were reclaimed or were fenced by the owner in between.
OneLeaseHolder ==
    \A v, w \in Workers :
        CheckExecutionLease(v) /\ CheckExecutionLease(w) /\ worker[v].run = worker[w].run => v = w

\* From delivery on, the newest build result is a candidate that a later
\* evaluation accepted: no sequence of repairs, blocks, pauses and late
\* results ships a patch the evaluator did not see.
DeliveredCandidateWasEvaluated ==
    \A r \in Runs : run[r].stage \in {"deliver", "verify_delivery"} =>
        LET b == Max(ResultsOf(r, "build"))
            e == Max(ResultsOf(r, "evaluate"))
        IN  /\ ResultsOf(r, "build") # {} /\ ResultsOf(r, "evaluate") # {}
            /\ b < e
            /\ steps[r][b].outcome = "succeeded" /\ steps[r][e].outcome = "succeeded"
            /\ steps[r][e].digest = steps[r][b].digest

\* Tokens a run reports never exceed what its claims reserved, and the
\* reservations never exceed the target's total budget (ClaimExecution,
\* CompleteExecution).
TokensWithinReservation ==
    \A r \in Runs : run[r].actual <= run[r].charged /\ run[r].charged <= MaxTokens

SumLimits(queries) == MapThenSumSet(LAMBDA q : q.limit, queries)
RowsReserved(rows, n) == MapThenSumSet(LAMBDA i : SumLimits(rows[i].reserved), 1 .. n)

\* A run's source usage is exactly what its steps reserved: retries and
\* reclaims charge nothing twice and lose nothing (ReserveExecutionSource).
SourcesChargedOnce ==
    \A r \in Runs :
        /\ run[r].rows = RowsReserved(steps[r], StepNumber(r))
        /\ run[r].rows <= MaxSourceRows /\ run[r].queries <= MaxSourceQueries

\* The live leases on a model, sandbox or executor never outnumber the
\* smallest concurrency any of their packages allows (ClaimExecution).
ResourceWithinConcurrency ==
    \A q \in Runs : Leased(q) =>
        Cardinality(Holders(ResourceKey(CurrentStep(q).stage))) <= Concurrency[q]

\* A control decision that passes the version check was taken on the status,
\* stage and step the run still has (ControlExecution).
VersionIdentifiesDecision ==
    \A r \in Runs : request[r] # None /\ request[r].version = run[r].version =>
        /\ request[r].status = run[r].status
        /\ request[r].stage = run[r].stage
        /\ request[r].step = StepNumber(r)

\* A stored result and a bound context never change, and no step disappears:
\* late and repeated calls leave recorded evidence alone (CompleteExecution).
EvidenceImmutable ==
    [][\A r \in Runs : \A i \in 1 .. StepNumber(r) :
          /\ i <= StepNumber(r)'
          /\ steps[r][i].outcome # None => steps'[r][i] = steps[r][i]
          /\ steps[r][i].ctx # None => steps'[r][i].ctx = steps[r][i].ctx]_vars

\* Nothing a slow worker or an owner does changes a finished run.
TerminalIsFinal ==
    [][\A r \in Runs : run[r].status \in TerminalStatuses => run'[r] = run[r]]_vars

\* While its grant lasts, an active run does not stay active for ever: the
\* workers bring it to completion or to a state that asks its owner.
ActiveRunsSettle ==
    \A r \in Runs : run[r].status \in ActiveStatuses ~>
        (run[r].status \notin ActiveStatuses \/ grant[r].deadline = "passed" \/ grant[r].owner = "dead")

-----------------------------------------------------------------------------
(* What the documentation says and the code does not do *)

\* "An explicit current operator decision grants only bounded read-back. It
\* cannot resume writes or silently renew the original delegation."
WritesUnderOriginalDelegation ==
    \A r \in Runs : Leased(r) /\ CurrentStep(r).stage \in EffectStages /\ run[r].status = "running" =>
        ~grant[r].lapsed

\* "An interrupted delivery/remedy remains reconciling until its external
\* effects are observed."
ReconcilingUntilReadBack ==
    [][\A r \in Runs : run[r].status = "reconciling" /\ run'[r].status # "reconciling" =>
          steps'[r][StepNumber(r)].outcome # None]_vars

\* "execution requires bounded attempts, tokens, queries, duration and
\* concurrency": no more than MaxConcurrentRuns runs of a target are active.
ActiveRunsWithinTarget == Cardinality(ActiveRuns) <= MaxConcurrentRuns

=============================================================================
